-------------------------- MODULE MCLogoutDelivery --------------------------
(***************************************************************************)
(* Instances of LogoutDelivery for TLC.                                    *)
(***************************************************************************)
EXTENDS LogoutDelivery, TLC

CONSTANTS p1, p2, a1, a2, rp, uri, unset

\* two associations of one client, under one OP session
OneSession == [a \in Apps |-> "op"]
OneClient  == [a \in Apps |-> rp]
Expiry     == [o \in Ops |-> 2]

\* any registration, or only the back channel's
AnyRegistration  == Metadata
BackRegistration == {m \in Metadata : m["frontchannel"] = Unset}

Interchangeable == Permutations(Procs) \cup Permutations(Apps)
=============================================================================
