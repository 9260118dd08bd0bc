---------------------------- MODULE MCContention ----------------------------
(***************************************************************************)
(* Instances of Provider that share one TLC run.  A behaviour belongs to   *)
(* one part for good; the part bounds the keys, the clock, the scopes and  *)
(* the accounts, and says whether administrators act, so that the states   *)
(* of the run are the sum of its parts' and not their product.             *)
(***************************************************************************)
EXTENDS MCProvider

CONSTANTS u1, u2, c1, offline, Parts

VARIABLE part

\* pruning:  one offline grant past every expiry, a second request pruning it
\* capacity: sign-ins, app sessions and expiry at the store's capacity
\* races:    one account, its client and its policy change under every request
\* requests: two users and two browsers answer one request with a max_age
Limit == [pruning  |-> Keys(1, 1, 2, 1, 2, 1, 2),
          capacity |-> Keys(3, 2, 1, 2, 2, 0, 0),
          races    |-> Keys(1, 1, 1, 1, 1, 1, 1),
          requests |-> Keys(2, 0, 1, 1, 0, 0, 0)]
Horizon == [pruning |-> 4, capacity |-> 2, races |-> 1, requests |-> 3]
Asked == [pruning  |-> {Offline}, capacity |-> {}, races |-> {Offline},
          requests |-> {Offline}]
Quiet == {"pruning", "capacity", "requests"}
RetentionKeys == Keys(3, 2, 2, 2, 2, 1, 2)
ContentionKeys == Keys(2, 1, 1, 1, 1, 1, 1)

\* races starts with the removal of one of two accounts: no other first step
\* leaves a single one
Within(d, t, p) ==
    /\ \A k \in Kinds : d.next[k] <= Limit[p][k] + 1
    /\ t <= Horizon[p]
    /\ \A m \in {d.txns, d.codes, d.tokens} :
          \A x \in DOMAIN m : m[x].scopes \subseteq Asked[p]
    /\ p = "races" => /\ Cardinality(DOMAIN d.users) <= 1
                      /\ \A x \in DOMAIN d.txns : d.txns[x].maxAge = NoMaxAge

PartInit == Init /\ part \in Parts

PartNext ==
    /\ \/ SessionStep \/ AuthorizeStep \/ TokenStep \/ Tick
       \/ part \notin Quiet /\ (AdminStep \/ ActivityStep)
    /\ Within(db', now', part)
    /\ part' = part

PartSpec == PartInit /\ [][PartNext]_<<vars, part>>
=============================================================================
