----------------------------- MODULE MCAccounts -----------------------------
(***************************************************************************)
(* Instances of Accounts for TLC.  A behaviour belongs to one part for     *)
(* good, which bounds the requests that arrive and the keys they draw: the *)
(* states of a run are the sum of its parts' and not their product.        *)
(***************************************************************************)
EXTENDS Accounts, TLC

CONSTANTS Parts, On

VARIABLE part

\* admins:   administrators change, delete and create accounts
\* signins:  sign-ins and sign-outs race with a change of the account
\* tokens:   registrations race with each other and with the token's revocation
\* clients:  a registration access token is issued while its client is removed
Offered ==
    [admins  |-> {"bootstrap", "create", "login", "update", "delete"},
     signins |-> {"bootstrap", "login", "logout", "update", "password"},
     tokens  |-> {"bootstrap", "login", "issue", "revoke", "register"},
     clients |-> {"bootstrap", "login", "issue", "register", "manage", "remove"}]

Drawn(K, n) == Cardinality(drawn' \cap K) <= n

Within(p) ==
    CASE p = "admins"  -> Drawn(Users, 2) /\ Drawn(Hashes, 2)
      [] p = "signins" -> Drawn(Users, 1) /\ Drawn(Hashes, 3)
      [] p = "tokens"  -> Drawn(Users, 2) /\ Drawn(Hashes, 1) /\ Drawn(Clients, 3)
      [] OTHER         -> Drawn(Users, 1) /\ Drawn(Hashes, 1) /\ Drawn(Clients, 2)

PartInit == Init /\ backend \in On /\ part \in Parts

PartNext ==
    /\ \E p \in Procs : Step(p, Offered[part])
    /\ Within(part)
    /\ part' = part

PartSpec == PartInit /\ [][PartNext]_<<vars, part>>

Symmetry == UNION {Permutations(K) : K \in {Procs, Users, Hashes}}
=============================================================================
