----------------------------- MODULE MCProvider -----------------------------
(***************************************************************************)
(* Instances of Provider for TLC.  Each run opens the part of the system   *)
(* its question is about by allowing it keys, and closes the rest.         *)
(***************************************************************************)
EXTENDS Provider, TLC

Keys(session, app, txn, code, token, family, refresh) ==
    [k \in Kinds |-> CASE k = "session" -> session [] k = "app" -> app
                      [] k = "txn" -> txn [] k = "code" -> code
                      [] k = "token" -> token [] k = "family" -> family
                      [] OTHER -> refresh]

\* sign-in, app sessions and logout
SessionKeys == Keys(2, 2, 1, 2, 2, 0, 0)
\* one offline grant: rotation, replay, revocation, pruning
OfflineKeys == Keys(1, 1, 1, 1, 3, 1, 3)

NoAges    == {NoMaxAge}
SomeAges  == {NoMaxAge, 1}

\* the system with the administrator's removals, of records and of accounts
RemovalSpec ==
    Init /\ [][\/ SessionStep \/ AuthorizeStep \/ TokenStep \/ ActivityStep \/ Tick
              \/ \E u \in Users : RemoveUser(u)
              \/ \E c \in Clients : RemoveClient(c)]_vars

\* ... and every change of an administrator that leaves versions alone
GrantSpec ==
    Init /\ [][\/ SessionStep \/ AuthorizeStep \/ TokenStep \/ ActivityStep \/ Tick
              \/ \E u \in Users : \/ RemoveUser(u)
                                 \/ \E allowed \in BOOLEAN : SetOAuthAccess(u, allowed)
              \/ \E c \in Clients : \/ RemoveClient(c)
                                   \/ \E p \in SUBSET PolicyGrants : SetOAuthPolicy(c, p)]_vars

UserSymmetry == Permutations(Users)
=============================================================================
