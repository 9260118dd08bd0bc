--------------------------- MODULE Stores_proofs ----------------------------
(***************************************************************************)
(* PostgreSQL's tables and the file store's records, method by method:     *)
(* what each store method, and each loop of them in a handler's script,    *)
(* does to the one it does to the other.                                   *)
(*                                                                         *)
(* Shows(d, p) says that the tables p hold the records d, NULLs and all,   *)
(* and that the deliveries in p are those owed for the ends d records.     *)
(* Does(d, s, e) says that the script s, run on any tables that show d,    *)
(* leaves tables that show e; it composes (DoesBoth).  The two stores'     *)
(* methods differ in what they look up before they write, so that they     *)
(* agree only where the records are linked as the provider keeps them:     *)
(* such a store is Ready, and the methods keep it so.                      *)
(*                                                                         *)
(* A handler calls a method in a loop over a set of records.  That the     *)
(* loop is one operator on the set is proved by induction over the number  *)
(* of calls (DoesSteps), from Numbers, which is induction as a fact about  *)
(* a set of numbers, proved from their well-foundedness.                   *)
(***************************************************************************)
EXTENDS Backends, Grants_proofs, WellFoundedInduction

(***************************************************************************)
(* Induction over the numbers, as a fact about a set of numbers.           *)
(***************************************************************************)
\* The numbers are well ordered.
LEMMA LessThanOrders == IsWellFoundedOn({ss \in Nat \X Nat : ss[1] < ss[2]}, Nat)
BY NatLessThanWellFounded DEF OpToRel

\* A set that has 0 and with each number the next has them all.
LEMMA Numbers ==
    ASSUME NEW S, 0 \in S, \A n \in Nat : n \in S => n + 1 \in S
    PROVE  \A n \in Nat : n \in S
<1> DEFINE T == {n \in Nat : n \notin S}
           R == {ss \in Nat \X Nat : ss[1] < ss[2]}
<1> SUFFICES ASSUME T # {} PROVE FALSE
  OBVIOUS
<1>1. \E x \in T : \A y \in T : ~ (<<y, x>> \in R)
  <2>1. T \subseteq Nat
    OBVIOUS
  <2> HIDE DEF T, R
  <2>2. IsWellFoundedOn(R, Nat)
    BY LessThanOrders DEF R
  <2> QED BY <2>1, <2>2, WFMin
<1>2. PICK x \in T : \A y \in T : ~(y < x)
  BY <1>1
<1>3. x \in Nat /\ x # 0
  OBVIOUS
<1>4. x - 1 \in Nat /\ x - 1 < x /\ (x - 1) + 1 = x
  BY <1>3
<1>5. x - 1 \in S
  BY <1>2, <1>4
<1> QED BY <1>4, <1>5

(***************************************************************************)
(* Running a script.                                                       *)
(***************************************************************************)
IsScript(s) == \E A : s \in Seq(A)

\* what the transaction saw after each call of the script
Trace(p, s, f) == f = [i \in 0..Len(s) |-> IF i = 0 THEN p ELSE PG!Call(f[i - 1], s[i])]

\* A script has a length.
LEMMA Lengths == ASSUME NEW s, IsScript(s) PROVE Len(s) \in Nat /\ DOMAIN s = 1..Len(s)
BY DEF IsScript

\* Every script can be run,
LEMMA Traces ==
    ASSUME NEW p, NEW s, Len(s) \in Nat
    PROVE  \E f : Trace(p, s, f)
<1> DEFINE Up(n, f) == f = [i \in 0..n |-> IF i = 0 THEN p ELSE PG!Call(f[i - 1], s[i])]
           S == {n \in Nat : \E f : Up(n, f)}
<1>1. 0 \in S
  <2>1. Up(0, [i \in 0..0 |-> p])
    OBVIOUS
  <2> QED BY <2>1
<1>2. ASSUME NEW n \in Nat, n \in S PROVE n + 1 \in S
  <2>1. PICK f : Up(n, f)
    BY <1>2
  <2> DEFINE g == [i \in 0..(n + 1) |-> IF i = n + 1 THEN PG!Call(f[n], s[n + 1]) ELSE f[i]]
             h == [i \in 0..(n + 1) |-> IF i = 0 THEN p ELSE PG!Call(g[i - 1], s[i])]
  <2>2. ASSUME NEW i \in 0..(n + 1) PROVE g[i] = h[i]
    <3>1. CASE i = n + 1
      <4>1. g[i] = PG!Call(f[n], s[n + 1]) /\ g[n] = f[n] /\ i # 0 /\ i - 1 = n
        BY <3>1
      <4> QED BY <3>1, <4>1
    <3>2. CASE i = 0
      <4>1. g[i] = f[0] /\ f[0] = p
        BY <2>1, <3>2
      <4> QED BY <3>2, <4>1
    <3>3. CASE i # 0 /\ i # n + 1
      <4>1. i \in 0..n /\ i - 1 \in 0..n /\ i - 1 # n + 1 /\ i - 1 \in 0..(n + 1)
        BY <3>3
      <4>2. g[i] = f[i] /\ g[i - 1] = f[i - 1]
        BY <3>3, <4>1
      <4>3. f[i] = PG!Call(f[i - 1], s[i])
        BY <2>1, <3>3, <4>1
      <4> QED BY <3>3, <4>2, <4>3
    <3> QED BY <3>1, <3>2, <3>3
  <2>3. g = h
    <3> HIDE DEF Up
    <3> QED BY <2>2
  <2>4. Up(n + 1, g)
    <3> HIDE DEF g
    <3> QED BY <2>3
  <2> HIDE DEF Up
  <2> QED BY <2>4
<1> HIDE DEF S
<1>3. \A n \in Nat : n \in S
  BY <1>1, <1>2, Numbers
<1>4. \E f : Up(Len(s), f)
  BY <1>3 DEF S
<1> QED BY <1>4 DEF Trace

\* and its outcome is what the last call leaves.
LEMMA RunIs ==
    ASSUME NEW p, NEW s, IsScript(s)
    PROVE  \E f : /\ f[0] = p
                  /\ \A i \in 1..Len(s) : f[i] = PG!Call(f[i - 1], s[i])
                  /\ PG!Run(p, s) = f[Len(s)]
<1>1. PG!Run(p, s) = (CHOOSE f : Trace(p, s, f))[Len(s)]
  BY DEF PG!Run, Trace
<1>2. PICK f : Trace(p, s, f) /\ PG!Run(p, s) = f[Len(s)]
  BY <1>1, Traces, Lengths
<1>3. f[0] = p /\ \A i \in 1..Len(s) : f[i] = PG!Call(f[i - 1], s[i])
  <2>1. Len(s) \in Nat
    BY Lengths
  <2> QED BY <1>2, <2>1 DEF Trace
<1> QED BY <1>2, <1>3

\* A call alone is a script,
LEMMA OneCall ==
    ASSUME NEW c
    PROVE  IsScript(<<c>>) /\ Len(<<c>>) = 1 /\ <<c>>[1] = c
<1>1. <<c>> \in Seq({c})
  OBVIOUS
<1> QED BY <1>1 DEF IsScript

\* so is doing nothing,
LEMMA NoCall == IsScript(<<>>) /\ Len(<<>>) = 0
<1>1. <<>> \in Seq({})
  OBVIOUS
<1> QED BY <1>1 DEF IsScript

\* a sequence given call by call,
LEMMA ManyCalls ==
    ASSUME NEW n \in Nat, NEW f, f = [i \in 1..n |-> f[i]]
    PROVE  IsScript(f) /\ Len(f) = n
<1>1. f \in Seq({f[i] : i \in 1..n})
  OBVIOUS
<1>2. IsScript(f)
  BY <1>1 DEF IsScript
<1>3. Len(f) \in Nat /\ 1..Len(f) = 1..n
  BY <1>2, Lengths
<1>4. Len(f) = n
  <2>1. CASE Len(f) > n
    BY <1>3, <2>1
  <2>2. CASE n > Len(f)
    BY <1>3, <2>2
  <2> QED BY <1>3, <2>1, <2>2
<1> QED BY <1>2, <1>4

\* and one script after another.
LEMMA TwoScripts ==
    ASSUME NEW s, NEW t, IsScript(s), IsScript(t)
    PROVE  /\ IsScript(s \o t)
           /\ Len(s \o t) = Len(s) + Len(t)
           /\ \A i \in 1..Len(s) : (s \o t)[i] = s[i]
           /\ \A j \in 1..Len(t) : (s \o t)[Len(s) + j] = t[j]
<1>1. PICK A : s \in Seq(A)
  BY DEF IsScript
<1>2. PICK B : t \in Seq(B)
  BY DEF IsScript
<1> DEFINE C == A \cup B
<1>3. s \in Seq(C) /\ t \in Seq(C)
  BY <1>1, <1>2
<1> HIDE DEF C
<1>4. s \o t \in Seq(C)
  BY <1>3
<1> QED BY <1>3, <1>4 DEF IsScript

\* Two runs of the same calls from the same state agree.
LEMMA SameRuns ==
    ASSUME NEW n \in Nat, NEW f, NEW g, f[0] = g[0],
           \A i \in 1..n : f[i - 1] = g[i - 1] => f[i] = g[i]
    PROVE  f[n] = g[n]
<1> DEFINE S == {k \in Nat : k <= n => f[k] = g[k]}
<1>1. 0 \in S
  OBVIOUS
<1>2. ASSUME NEW k \in Nat, k \in S PROVE k + 1 \in S
  <2> SUFFICES ASSUME k + 1 <= n PROVE f[k + 1] = g[k + 1]
    OBVIOUS
  <2>1. k + 1 \in 1..n /\ (k + 1) - 1 = k /\ f[k] = g[k]
    BY <1>2
  <2> QED BY <2>1
<1> HIDE DEF S
<1>3. n \in S
  BY <1>1, <1>2, Numbers
<1> QED BY <1>3 DEF S

\* Doing nothing leaves the transaction as it was; one call is that call.
LEMMA RunOne ==
    ASSUME NEW p
    PROVE  PG!Run(p, <<>>) = p /\ \A c : PG!Run(p, <<c>>) = PG!Call(p, c)
<1>1. PG!Run(p, <<>>) = p
  BY RunIs, NoCall
<1>2. ASSUME NEW c PROVE PG!Run(p, <<c>>) = PG!Call(p, c)
  <2>1. PICK f : f[0] = p /\ (\A i \in 1..1 : f[i] = PG!Call(f[i - 1], <<c>>[i]))
                 /\ PG!Run(p, <<c>>) = f[1]
    <3> HIDE DEF PG!Run
    <3> QED BY RunIs, OneCall
  <2>2. f[1] = PG!Call(f[0], <<c>>[1])
    BY <2>1
  <2> QED BY <2>1, <2>2, OneCall
<1> QED BY <1>1, <1>2

\* Two scripts one after the other are one script.
LEMMA RunTwo ==
    ASSUME NEW p, NEW s, NEW t, IsScript(s), IsScript(t)
    PROVE  PG!Run(p, s \o t) = PG!Run(PG!Run(p, s), t)
<1> DEFINE q == PG!Run(p, s)
           m == Len(s)
           n == Len(t)
<1>1. m \in Nat /\ n \in Nat
  BY Lengths
<1>2. PICK f : /\ f[0] = p
               /\ \A i \in 1..(m + n) : f[i] = PG!Call(f[i - 1], (s \o t)[i])
               /\ PG!Run(p, s \o t) = f[m + n]
  <2>1. IsScript(s \o t) /\ Len(s \o t) = m + n
    BY TwoScripts
  <2>2. \E f : /\ f[0] = p
               /\ \A i \in 1..Len(s \o t) : f[i] = PG!Call(f[i - 1], (s \o t)[i])
               /\ PG!Run(p, s \o t) = f[Len(s \o t)]
    BY <2>1, RunIs, ZenonT(60)
  <2> HIDE DEF m, n
  <2> QED BY <2>1, <2>2
<1>3. PICK g : /\ g[0] = p
               /\ \A i \in 1..m : g[i] = PG!Call(g[i - 1], s[i])
               /\ q = g[m]
  BY RunIs
<1>4. PICK h : /\ h[0] = q
               /\ \A j \in 1..n : h[j] = PG!Call(h[j - 1], t[j])
               /\ PG!Run(q, t) = h[n]
  BY RunIs
<1> HIDE DEF q
<1>5. f[m] = g[m]
  <2>1. ASSUME NEW i \in 1..m, f[i - 1] = g[i - 1] PROVE f[i] = g[i]
    <3>1. i \in 1..(m + n) /\ (s \o t)[i] = s[i]
      BY <1>1, TwoScripts
    <3> QED BY <1>2, <1>3, <2>1, <3>1
  <2> HIDE DEF m, n
  <2> QED BY <1>1, <1>2, <1>3, <2>1, SameRuns
<1>6. f[m + n] = h[n]
  <2> DEFINE k == [j \in 0..n |-> f[m + j]]
  <2>1. k[0] = h[0]
    BY <1>1, <1>3, <1>4, <1>5
  <2>2. ASSUME NEW j \in 1..n, k[j - 1] = h[j - 1] PROVE k[j] = h[j]
    <3>1. m + j \in 1..(m + n) /\ (m + j) - 1 = m + (j - 1) /\ j - 1 \in 0..n /\ j \in 0..n
          /\ (s \o t)[m + j] = t[j]
      BY <1>1, TwoScripts
    <3>2. f[m + j] = PG!Call(f[m + (j - 1)], t[j])
      BY <1>2, <3>1
    <3>3. k[j] = f[m + j] /\ k[j - 1] = f[m + (j - 1)]
      BY <3>1
    <3> QED BY <1>4, <2>2, <3>2, <3>3
  <2>3. k[n] = f[m + n]
    BY <1>1
  <2> HIDE DEF k, m, n
  <2>4. k[n] = h[n]
    BY <1>1, <2>1, <2>2, SameRuns
  <2> QED BY <2>3, <2>4
<1> QED BY <1>2, <1>4, <1>6 DEF q

(***************************************************************************)
(* Tables are the images of maps.                                          *)
(***************************************************************************)
Table(m, nullable) == [k \in DOMAIN m |-> PG!Bind(m[k], nullable)]

\* The two stores' operators on maps are the same operators.
LEMMA SameMaps ==
    ASSUME NEW m
    PROVE  /\ \A k, v : PG!Put(m, k, v) = Put(m, k, v)
           /\ \A K : PG!Drop(m, K) = Drop(m, K)
           /\ \A K : PG!Revoke(m, K) = Revoke(m, K)
           /\ \A K, t : PG!End(m, K, t) = End(m, K, t)
BY DEF PG!Put, PG!Drop, PG!Revoke, PG!End, Put, Drop, Revoke, End

\* Saving a map and dropping rows is dropping records and saving.
LEMMA TableDrop ==
    ASSUME NEW m, NEW N, NEW K
    PROVE  Table(Drop(m, K), N) = PG!Drop(Table(m, N), K)
BY DEF Table, Drop, PG!Drop

\* So it is of one record put,
LEMMA TablePut ==
    ASSUME NEW m, NEW N, NEW k, NEW v
    PROVE  Table(Put(m, k, v), N) = PG!Put(Table(m, N), k, PG!Bind(v, N))
BY DEF Table, Put, PG!Put

\* of records revoked, where that column is not nullable,
LEMMA TableRevoke ==
    ASSUME NEW m, NEW N, "revoked" \notin N, NEW K
    PROVE  Table(Revoke(m, K), N) = PG!Revoke(Table(m, N), K)
<1>1. ASSUME NEW v PROVE PG!Bind([v EXCEPT !.revoked = TRUE], N) = [PG!Bind(v, N) EXCEPT !.revoked = TRUE]
  BY DEF PG!Bind
<1>2. \A k \in DOMAIN m : Table(Revoke(m, K), N)[k] = PG!Revoke(Table(m, N), K)[k]
  BY <1>1 DEF Table, Revoke, PG!Revoke
<1> QED BY <1>2 DEF Table, Revoke, PG!Revoke

\* and of records ended, at a time that is not NULL.
LEMMA TableEnd ==
    ASSUME NEW m, NEW N, NEW t \in Nat \ {0}, NEW K
    PROVE  Table(End(m, K, t), N) = PG!End(Table(m, N), K, t)
<1>1. ASSUME NEW v PROVE PG!Bind([v EXCEPT !.ended = t], N) = [PG!Bind(v, N) EXCEPT !.ended = t]
  BY DEF PG!Bind
<1>2. \A k \in DOMAIN m : Table(End(m, K, t), N)[k] = PG!End(Table(m, N), K, t)[k]
  BY <1>1 DEF Table, End, PG!End
<1> QED BY <1>2 DEF Table, End, PG!End

(***************************************************************************)
(* What of the file store's state the other stores' methods rely on.       *)
(***************************************************************************)
\* a usable access token of a family has the family, in force and kept long enough
Tied(d) ==
    \A k \in DOMAIN d.tokens : LET v == d.tokens[k] IN
        ~v.revoked /\ v.family # 0 => /\ v.family \in DOMAIN d.families
                                      /\ ~d.families[v.family].revoked
                                      /\ v.exp <= d.families[v.family].retain
\* no two credentials kept have one session ID
OneID(d) ==
    /\ \A h \in DOMAIN d.sessions : d.sessions[h].id # 0
    /\ \A g, h \in DOMAIN d.sessions : d.sessions[g].id = d.sessions[h].id => g = h
\* an open app session has its client's record, and an OP session
Registered(d) ==
    \A a \in DOMAIN d.apps :
        d.apps[a].ended = 0 => d.apps[a].client \in DOMAIN d.clients /\ d.apps[a].op # 0
AppsDrawn(d) == \A a \in DOMAIN d.apps : a < d.next["app"]
AppTokens(d) ==
    \A k \in DOMAIN d.tokens :
        d.tokens[k].app # 0 /\ d.tokens[k].family = 0 => d.tokens[k].op # 0
Ready(d) ==
    /\ Sound(d) /\ Links(d)
    /\ OneID(d) /\ Registered(d) /\ AppsDrawn(d) /\ AppTokens(d)

(***************************************************************************)
(* The notifications owed for the ends of the retained records.            *)
(***************************************************************************)
Owed(d, D) ==
    /\ D = [i \in Due(d) |-> D[i]]
    /\ \A h \in Ended(d.sessions) :
          D[<<"op", d.sessions[h].id>>] = [created |-> d.sessions[h].ended]
    /\ \A a \in Ended(d.apps) : \A ch \in Notices(d.apps[a].client) :
          D[<<ch, a>>] = [created |-> d.apps[a].ended]

(***************************************************************************)
(* PostgreSQL's tables show the file store's records.                      *)
(***************************************************************************)
Rows(p) ==
    p = [users |-> p.users, clients |-> p.clients, policies |-> p.policies,
         access |-> p.access, sessions |-> p.sessions, apps |-> p.apps,
         txns |-> p.txns, codes |-> p.codes, tokens |-> p.tokens,
         families |-> p.families, refresh |-> p.refresh, consents |-> p.consents,
         deliveries |-> p.deliveries, err |-> p.err]

Shows(d, p) ==
    /\ FieldsOf(d) /\ Rows(p)
    /\ p.users = d.users
    /\ p.clients = d.clients
    /\ \A c \in Clients : PG!OAuthPolicy(p, c) = d.policy[c]
    /\ p.access = {u \in Users : d.access[u]}
    /\ p.sessions = Table(d.sessions, PG!SessionNulls)
    /\ p.apps = Table(d.apps, PG!AppSessionNulls)
    /\ p.txns = Table(d.txns, PG!TransactionNulls)
    /\ p.codes = Table(d.codes, PG!CodeNulls)
    /\ p.tokens = d.tokens
    /\ p.families = d.families
    /\ p.refresh = d.refresh
    /\ p.consents = d.consents
    /\ Owed(d, p.deliveries)
    /\ p.err = FALSE

\* What the rows shown hold.
LEMMA Shown ==
    ASSUME NEW d, NEW p, StoreOK(d), Shows(d, p)
    PROVE  /\ DOMAIN p.sessions = DOMAIN d.sessions
           /\ DOMAIN p.apps = DOMAIN d.apps
           /\ DOMAIN p.txns = DOMAIN d.txns
           /\ DOMAIN p.codes = DOMAIN d.codes
           /\ \A h \in DOMAIN d.sessions :
                 LET r == p.sessions[h] v == d.sessions[h] IN
                 /\ r.id = v.id /\ r.user = v.user /\ r.exp = v.exp
                 /\ r.ended = IF v.ended = 0 THEN Null ELSE v.ended
                 /\ (r.ended = Null <=> v.ended = 0)
           /\ \A a \in DOMAIN d.apps :
                 LET r == p.apps[a] v == d.apps[a] IN
                 /\ r.op = v.op /\ r.user = v.user /\ r.client = v.client
                 /\ r.ended = IF v.ended = 0 THEN Null ELSE v.ended
                 /\ (r.ended = Null <=> v.ended = 0)
           /\ \A x \in DOMAIN d.txns :
                 LET r == p.txns[x] v == d.txns[x] IN
                 r.op = v.op /\ r.user = v.user /\ r.client = v.client /\ r.exp = v.exp
           /\ \A k \in DOMAIN d.codes :
                 LET r == p.codes[k] v == d.codes[k] IN
                 /\ r.op = v.op /\ r.user = v.user /\ r.client = v.client /\ r.exp = v.exp
                 /\ r.retain = IF v.retain = 0 THEN Null ELSE v.retain
                 /\ (r.retain = Null <=> v.retain = 0)
<1>1. \A v \in Session : LET r == PG!Bind(v, PG!SessionNulls) IN
          /\ r.id = v.id /\ r.user = v.user /\ r.exp = v.exp
          /\ r.ended = IF v.ended = 0 THEN Null ELSE v.ended
          /\ (r.ended = Null <=> v.ended = 0)
  BY NullAssumption DEF PG!Bind, PG!SessionNulls, Session, Time, Id
<1>2. \A v \in AppSession : LET r == PG!Bind(v, PG!AppSessionNulls) IN
          /\ r.op = v.op /\ r.user = v.user /\ r.client = v.client
          /\ r.ended = IF v.ended = 0 THEN Null ELSE v.ended
          /\ (r.ended = Null <=> v.ended = 0)
  BY NullAssumption DEF PG!Bind, PG!AppSessionNulls, AppSession, Time, Id
<1>3. \A v \in AuthzTransaction : LET r == PG!Bind(v, PG!TransactionNulls) IN
          r.op = v.op /\ r.user = v.user /\ r.client = v.client /\ r.exp = v.exp
  BY DEF PG!Bind, PG!TransactionNulls, AuthzTransaction
<1>4. \A v \in AuthorizationCode : LET r == PG!Bind(v, PG!CodeNulls) IN
          /\ r.op = v.op /\ r.user = v.user /\ r.client = v.client /\ r.exp = v.exp
          /\ r.retain = IF v.retain = 0 THEN Null ELSE v.retain
          /\ (r.retain = Null <=> v.retain = 0)
  BY NullAssumption DEF PG!Bind, PG!CodeNulls, AuthorizationCode, Time
<1>5. /\ \A h \in DOMAIN d.sessions : d.sessions[h] \in Session
      /\ \A a \in DOMAIN d.apps : d.apps[a] \in AppSession
      /\ \A x \in DOMAIN d.txns : d.txns[x] \in AuthzTransaction
      /\ \A k \in DOMAIN d.codes : d.codes[k] \in AuthorizationCode
  BY Records
<1>6. /\ p.sessions = Table(d.sessions, PG!SessionNulls)
      /\ p.apps = Table(d.apps, PG!AppSessionNulls)
      /\ p.txns = Table(d.txns, PG!TransactionNulls)
      /\ p.codes = Table(d.codes, PG!CodeNulls)
  BY DEF Shows
<1>7. \A m, N : /\ DOMAIN Table(m, N) = DOMAIN m
                /\ \A k \in DOMAIN m : Table(m, N)[k] = PG!Bind(m[k], N)
  BY DEF Table
<1>8. DOMAIN p.sessions = DOMAIN d.sessions
      /\ \A h \in DOMAIN d.sessions : p.sessions[h] = PG!Bind(d.sessions[h], PG!SessionNulls)
  BY <1>6, <1>7
<1>9. DOMAIN p.apps = DOMAIN d.apps
      /\ \A a \in DOMAIN d.apps : p.apps[a] = PG!Bind(d.apps[a], PG!AppSessionNulls)
  BY <1>6, <1>7
<1>10. DOMAIN p.txns = DOMAIN d.txns
      /\ \A x \in DOMAIN d.txns : p.txns[x] = PG!Bind(d.txns[x], PG!TransactionNulls)
  BY <1>6, <1>7
<1>11. DOMAIN p.codes = DOMAIN d.codes
      /\ \A k \in DOMAIN d.codes : p.codes[k] = PG!Bind(d.codes[k], PG!CodeNulls)
  BY <1>6, <1>7
<1>12. \A h \in DOMAIN d.sessions :
          LET r == p.sessions[h] v == d.sessions[h] IN
          /\ r.id = v.id /\ r.user = v.user /\ r.exp = v.exp
          /\ r.ended = IF v.ended = 0 THEN Null ELSE v.ended
          /\ (r.ended = Null <=> v.ended = 0)
  BY <1>1, <1>5, <1>8
<1>13. \A a \in DOMAIN d.apps :
          LET r == p.apps[a] v == d.apps[a] IN
          /\ r.op = v.op /\ r.user = v.user /\ r.client = v.client
          /\ r.ended = IF v.ended = 0 THEN Null ELSE v.ended
          /\ (r.ended = Null <=> v.ended = 0)
  BY <1>2, <1>5, <1>9
<1>14. \A x \in DOMAIN d.txns :
          LET r == p.txns[x] v == d.txns[x] IN
          r.op = v.op /\ r.user = v.user /\ r.client = v.client /\ r.exp = v.exp
  BY <1>3, <1>5, <1>10
<1>15. \A k \in DOMAIN d.codes :
          LET r == p.codes[k] v == d.codes[k] IN
          /\ r.op = v.op /\ r.user = v.user /\ r.client = v.client /\ r.exp = v.exp
          /\ r.retain = IF v.retain = 0 THEN Null ELSE v.retain
          /\ (r.retain = Null <=> v.retain = 0)
  BY <1>4, <1>5, <1>11
<1> QED BY <1>8, <1>9, <1>10, <1>11, <1>12, <1>13, <1>14, <1>15

(***************************************************************************)
(* The tables after each operation of the store.                           *)
(***************************************************************************)
\* What is owed is a matter of the ended records.
LEMMA OwedSame ==
    ASSUME NEW d, NEW e, NEW D,
           Ended(e.sessions) = Ended(d.sessions),
           \A h \in Ended(d.sessions) : e.sessions[h] = d.sessions[h],
           Ended(e.apps) = Ended(d.apps),
           \A a \in Ended(d.apps) : e.apps[a] = d.apps[a]
    PROVE  Owed(d, D) => Owed(e, D)
<1>1. Due(e) = Due(d)
  BY DEF Due
<1> QED BY <1>1 DEF Owed

\* Revoking what is revoked changes nothing.
LEMMA RevokedAlready ==
    /\ \A v \in RefreshFamily : v.revoked => [v EXCEPT !.revoked = TRUE] = v
    /\ \A v \in AccessToken : v.revoked => [v EXCEPT !.revoked = TRUE] = v
<1>1. ASSUME NEW v \in RefreshFamily, v.revoked PROVE [v EXCEPT !.revoked = TRUE] = v
  <2>1. v.revoked = TRUE
    BY <1>1 DEF RefreshFamily
  <2> QED BY <2>1 DEF RefreshFamily
<1>2. ASSUME NEW v \in AccessToken, v.revoked PROVE [v EXCEPT !.revoked = TRUE] = v
  <2>1. v.revoked = TRUE
    BY <1>2 DEF AccessToken
  <2> QED BY <2>1 DEF AccessToken
<1> QED BY <1>1, <1>2

\* A family revoked before may be skipped, its tokens with it.
LEMMA SkipRevoked ==
    ASSUME NEW d, StoreOK(d), Tied(d), NEW F, F \subseteq DOMAIN d.families
    PROVE  RevokeFamilies(d, {f \in F : ~d.families[f].revoked}) = RevokeFamilies(d, F)
<1> DEFINE G == {f \in F : ~d.families[f].revoked}
           TG == {k \in DOMAIN d.tokens : d.tokens[k].family \in G \cap DOMAIN d.families}
           TF == {k \in DOMAIN d.tokens : d.tokens[k].family \in F \cap DOMAIN d.families}
<1>1. Revoke(d.families, G) = Revoke(d.families, F)
  <2>1. ASSUME NEW f \in DOMAIN d.families, f \in F, f \notin G
        PROVE  [d.families[f] EXCEPT !.revoked = TRUE] = d.families[f]
    BY <2>1, Records, RevokedAlready
  <2>2. \A f \in DOMAIN d.families : f \in G => f \in F
    OBVIOUS
  <2> HIDE DEF G
  <2> QED BY <2>1, <2>2 DEF Revoke
<1>2. Revoke(d.tokens, TG) = Revoke(d.tokens, TF)
  <2>1. ASSUME NEW k \in DOMAIN d.tokens, k \in TF, k \notin TG
        PROVE  [d.tokens[k] EXCEPT !.revoked = TRUE] = d.tokens[k]
    <3>1. d.tokens[k].family \in DOMAIN d.families /\ d.families[d.tokens[k].family].revoked
      BY <2>1
    <3>2. d.tokens[k].family # 0
      BY <3>1, Records
    <3>3. d.tokens[k].revoked
      BY <3>1, <3>2 DEF Tied
    <3> QED BY <3>3, Records, RevokedAlready
  <2>2. \A k \in DOMAIN d.tokens : k \in TG => k \in TF
    OBVIOUS
  <2> HIDE DEF TG, TF
  <2> QED BY <2>1, <2>2 DEF Revoke
<1> QED BY <1>1, <1>2 DEF RevokeFamilies

\* A change of one of the tables that hold no session.
LEMMA ShowsPut ==
    ASSUME NEW d, NEW p, Shows(d, p), NEW x
    PROVE  /\ Shows([d EXCEPT !.next = x], p)
           /\ Shows([d EXCEPT !.users = x], [p EXCEPT !.users = x])
           /\ Shows([d EXCEPT !.clients = x], [p EXCEPT !.clients = x])
           /\ Shows([d EXCEPT !.txns = x], [p EXCEPT !.txns = Table(x, PG!TransactionNulls)])
           /\ Shows([d EXCEPT !.codes = x], [p EXCEPT !.codes = Table(x, PG!CodeNulls)])
           /\ Shows([d EXCEPT !.tokens = x], [p EXCEPT !.tokens = x])
           /\ Shows([d EXCEPT !.families = x], [p EXCEPT !.families = x])
           /\ Shows([d EXCEPT !.refresh = x], [p EXCEPT !.refresh = x])
           /\ Shows([d EXCEPT !.consents = x], [p EXCEPT !.consents = x])
<1>0. FieldsOf(d) /\ Rows(p)
  BY DEF Shows
<1>1. ASSUME NEW e, NEW q, e.sessions = d.sessions, e.apps = d.apps,
             q.policies = p.policies, q.deliveries = p.deliveries, e.policy = d.policy
      PROVE  /\ Owed(e, q.deliveries)
             /\ \A c \in Clients : PG!OAuthPolicy(q, c) = e.policy[c]
  <2>1. Owed(e, p.deliveries)
    BY <1>1, OwedSame DEF Shows
  <2>2. \A c \in Clients : PG!OAuthPolicy(q, c) = PG!OAuthPolicy(p, c)
    BY <1>1 DEF PG!OAuthPolicy
  <2> QED BY <1>1, <2>1, <2>2 DEF Shows
<1>2. Shows([d EXCEPT !.next = x], p)
  <2> DEFINE e == [d EXCEPT !.next = x]
             q == p
  <2>1. FieldsOf(e) /\ e.next = x
    BY <1>0 DEF FieldsOf
  <2>8. Rows(q)
    BY <1>0 DEF Rows
  <2>2. e.users = d.users /\ e.clients = d.clients /\ e.policy = d.policy /\ e.access = d.access /\ e.sessions = d.sessions /\ e.apps = d.apps
    BY <1>0 DEF FieldsOf
  <2>3. e.txns = d.txns /\ e.codes = d.codes /\ e.tokens = d.tokens /\ e.families = d.families /\ e.refresh = d.refresh /\ e.consents = d.consents
    BY <1>0 DEF FieldsOf
  <2>4. q.users = p.users /\ q.clients = p.clients /\ q.policies = p.policies /\ q.access = p.access /\ q.sessions = p.sessions /\ q.apps = p.apps
    BY <1>0 DEF Rows
  <2>5. q.txns = p.txns /\ q.codes = p.codes /\ q.tokens = p.tokens /\ q.families = p.families /\ q.refresh = p.refresh /\ q.consents = p.consents /\ q.deliveries = p.deliveries /\ q.err = p.err
    BY <1>0 DEF Rows
  <2> HIDE DEF e, q
  <2>6. /\ Owed(e, q.deliveries)
        /\ \A c \in Clients : PG!OAuthPolicy(q, c) = e.policy[c]
    BY <1>1, <2>2, <2>4, <2>5
  <2>7. Shows(e, q)
    BY <2>1, <2>2, <2>3, <2>4, <2>5, <2>6, <2>8 DEF Shows
  <2> QED BY <2>7 DEF e, q
<1>3. Shows([d EXCEPT !.users = x], [p EXCEPT !.users = x])
  <2> DEFINE e == [d EXCEPT !.users = x]
             q == [p EXCEPT !.users = x]
  <2>1. FieldsOf(e) /\ e.users = x
    BY <1>0 DEF FieldsOf
  <2>8. Rows(q) /\ q.users = x
    BY <1>0 DEF Rows
  <2>2. e.clients = d.clients /\ e.policy = d.policy /\ e.access = d.access /\ e.sessions = d.sessions /\ e.apps = d.apps
    BY <1>0 DEF FieldsOf
  <2>3. e.txns = d.txns /\ e.codes = d.codes /\ e.tokens = d.tokens /\ e.families = d.families /\ e.refresh = d.refresh /\ e.consents = d.consents
    BY <1>0 DEF FieldsOf
  <2>4. q.clients = p.clients /\ q.policies = p.policies /\ q.access = p.access /\ q.sessions = p.sessions /\ q.apps = p.apps
    BY <1>0 DEF Rows
  <2>5. q.txns = p.txns /\ q.codes = p.codes /\ q.tokens = p.tokens /\ q.families = p.families /\ q.refresh = p.refresh /\ q.consents = p.consents /\ q.deliveries = p.deliveries /\ q.err = p.err
    BY <1>0 DEF Rows
  <2> HIDE DEF e, q
  <2>6. /\ Owed(e, q.deliveries)
        /\ \A c \in Clients : PG!OAuthPolicy(q, c) = e.policy[c]
    BY <1>1, <2>2, <2>4, <2>5
  <2>7. Shows(e, q)
    BY <2>1, <2>2, <2>3, <2>4, <2>5, <2>6, <2>8 DEF Shows
  <2> QED BY <2>7 DEF e, q
<1>4. Shows([d EXCEPT !.txns = x], [p EXCEPT !.txns = Table(x, PG!TransactionNulls)])
  <2> DEFINE e == [d EXCEPT !.txns = x]
             q == [p EXCEPT !.txns = Table(x, PG!TransactionNulls)]
  <2>1. FieldsOf(e) /\ e.txns = x
    BY <1>0 DEF FieldsOf
  <2>8. Rows(q) /\ q.txns = Table(x, PG!TransactionNulls)
    BY <1>0 DEF Rows
  <2>2. e.users = d.users /\ e.clients = d.clients /\ e.policy = d.policy /\ e.access = d.access /\ e.sessions = d.sessions /\ e.apps = d.apps
    BY <1>0 DEF FieldsOf
  <2>3. e.codes = d.codes /\ e.tokens = d.tokens /\ e.families = d.families /\ e.refresh = d.refresh /\ e.consents = d.consents
    BY <1>0 DEF FieldsOf
  <2>4. q.users = p.users /\ q.clients = p.clients /\ q.policies = p.policies /\ q.access = p.access /\ q.sessions = p.sessions /\ q.apps = p.apps
    BY <1>0 DEF Rows
  <2>5. q.codes = p.codes /\ q.tokens = p.tokens /\ q.families = p.families /\ q.refresh = p.refresh /\ q.consents = p.consents /\ q.deliveries = p.deliveries /\ q.err = p.err
    BY <1>0 DEF Rows
  <2> HIDE DEF e, q
  <2>6. /\ Owed(e, q.deliveries)
        /\ \A c \in Clients : PG!OAuthPolicy(q, c) = e.policy[c]
    BY <1>1, <2>2, <2>4, <2>5
  <2>7. Shows(e, q)
    BY <2>1, <2>2, <2>3, <2>4, <2>5, <2>6, <2>8 DEF Shows
  <2> QED BY <2>7 DEF e, q
<1>5. Shows([d EXCEPT !.codes = x], [p EXCEPT !.codes = Table(x, PG!CodeNulls)])
  <2> DEFINE e == [d EXCEPT !.codes = x]
             q == [p EXCEPT !.codes = Table(x, PG!CodeNulls)]
  <2>1. FieldsOf(e) /\ e.codes = x
    BY <1>0 DEF FieldsOf
  <2>8. Rows(q) /\ q.codes = Table(x, PG!CodeNulls)
    BY <1>0 DEF Rows
  <2>2. e.users = d.users /\ e.clients = d.clients /\ e.policy = d.policy /\ e.access = d.access /\ e.sessions = d.sessions /\ e.apps = d.apps
    BY <1>0 DEF FieldsOf
  <2>3. e.txns = d.txns /\ e.tokens = d.tokens /\ e.families = d.families /\ e.refresh = d.refresh /\ e.consents = d.consents
    BY <1>0 DEF FieldsOf
  <2>4. q.users = p.users /\ q.clients = p.clients /\ q.policies = p.policies /\ q.access = p.access /\ q.sessions = p.sessions /\ q.apps = p.apps
    BY <1>0 DEF Rows
  <2>5. q.txns = p.txns /\ q.tokens = p.tokens /\ q.families = p.families /\ q.refresh = p.refresh /\ q.consents = p.consents /\ q.deliveries = p.deliveries /\ q.err = p.err
    BY <1>0 DEF Rows
  <2> HIDE DEF e, q
  <2>6. /\ Owed(e, q.deliveries)
        /\ \A c \in Clients : PG!OAuthPolicy(q, c) = e.policy[c]
    BY <1>1, <2>2, <2>4, <2>5
  <2>7. Shows(e, q)
    BY <2>1, <2>2, <2>3, <2>4, <2>5, <2>6, <2>8 DEF Shows
  <2> QED BY <2>7 DEF e, q
<1>6. Shows([d EXCEPT !.tokens = x], [p EXCEPT !.tokens = x])
  <2> DEFINE e == [d EXCEPT !.tokens = x]
             q == [p EXCEPT !.tokens = x]
  <2>1. FieldsOf(e) /\ e.tokens = x
    BY <1>0 DEF FieldsOf
  <2>8. Rows(q) /\ q.tokens = x
    BY <1>0 DEF Rows
  <2>2. e.users = d.users /\ e.clients = d.clients /\ e.policy = d.policy /\ e.access = d.access /\ e.sessions = d.sessions /\ e.apps = d.apps
    BY <1>0 DEF FieldsOf
  <2>3. e.txns = d.txns /\ e.codes = d.codes /\ e.families = d.families /\ e.refresh = d.refresh /\ e.consents = d.consents
    BY <1>0 DEF FieldsOf
  <2>4. q.users = p.users /\ q.clients = p.clients /\ q.policies = p.policies /\ q.access = p.access /\ q.sessions = p.sessions /\ q.apps = p.apps
    BY <1>0 DEF Rows
  <2>5. q.txns = p.txns /\ q.codes = p.codes /\ q.families = p.families /\ q.refresh = p.refresh /\ q.consents = p.consents /\ q.deliveries = p.deliveries /\ q.err = p.err
    BY <1>0 DEF Rows
  <2> HIDE DEF e, q
  <2>6. /\ Owed(e, q.deliveries)
        /\ \A c \in Clients : PG!OAuthPolicy(q, c) = e.policy[c]
    BY <1>1, <2>2, <2>4, <2>5
  <2>7. Shows(e, q)
    BY <2>1, <2>2, <2>3, <2>4, <2>5, <2>6, <2>8 DEF Shows
  <2> QED BY <2>7 DEF e, q
<1>7. Shows([d EXCEPT !.families = x], [p EXCEPT !.families = x])
  <2> DEFINE e == [d EXCEPT !.families = x]
             q == [p EXCEPT !.families = x]
  <2>1. FieldsOf(e) /\ e.families = x
    BY <1>0 DEF FieldsOf
  <2>8. Rows(q) /\ q.families = x
    BY <1>0 DEF Rows
  <2>2. e.users = d.users /\ e.clients = d.clients /\ e.policy = d.policy /\ e.access = d.access /\ e.sessions = d.sessions /\ e.apps = d.apps
    BY <1>0 DEF FieldsOf
  <2>3. e.txns = d.txns /\ e.codes = d.codes /\ e.tokens = d.tokens /\ e.refresh = d.refresh /\ e.consents = d.consents
    BY <1>0 DEF FieldsOf
  <2>4. q.users = p.users /\ q.clients = p.clients /\ q.policies = p.policies /\ q.access = p.access /\ q.sessions = p.sessions /\ q.apps = p.apps
    BY <1>0 DEF Rows
  <2>5. q.txns = p.txns /\ q.codes = p.codes /\ q.tokens = p.tokens /\ q.refresh = p.refresh /\ q.consents = p.consents /\ q.deliveries = p.deliveries /\ q.err = p.err
    BY <1>0 DEF Rows
  <2> HIDE DEF e, q
  <2>6. /\ Owed(e, q.deliveries)
        /\ \A c \in Clients : PG!OAuthPolicy(q, c) = e.policy[c]
    BY <1>1, <2>2, <2>4, <2>5
  <2>7. Shows(e, q)
    BY <2>1, <2>2, <2>3, <2>4, <2>5, <2>6, <2>8 DEF Shows
  <2> QED BY <2>7 DEF e, q
<1>8. Shows([d EXCEPT !.refresh = x], [p EXCEPT !.refresh = x])
  <2> DEFINE e == [d EXCEPT !.refresh = x]
             q == [p EXCEPT !.refresh = x]
  <2>1. FieldsOf(e) /\ e.refresh = x
    BY <1>0 DEF FieldsOf
  <2>8. Rows(q) /\ q.refresh = x
    BY <1>0 DEF Rows
  <2>2. e.users = d.users /\ e.clients = d.clients /\ e.policy = d.policy /\ e.access = d.access /\ e.sessions = d.sessions /\ e.apps = d.apps
    BY <1>0 DEF FieldsOf
  <2>3. e.txns = d.txns /\ e.codes = d.codes /\ e.tokens = d.tokens /\ e.families = d.families /\ e.consents = d.consents
    BY <1>0 DEF FieldsOf
  <2>4. q.users = p.users /\ q.clients = p.clients /\ q.policies = p.policies /\ q.access = p.access /\ q.sessions = p.sessions /\ q.apps = p.apps
    BY <1>0 DEF Rows
  <2>5. q.txns = p.txns /\ q.codes = p.codes /\ q.tokens = p.tokens /\ q.families = p.families /\ q.consents = p.consents /\ q.deliveries = p.deliveries /\ q.err = p.err
    BY <1>0 DEF Rows
  <2> HIDE DEF e, q
  <2>6. /\ Owed(e, q.deliveries)
        /\ \A c \in Clients : PG!OAuthPolicy(q, c) = e.policy[c]
    BY <1>1, <2>2, <2>4, <2>5
  <2>7. Shows(e, q)
    BY <2>1, <2>2, <2>3, <2>4, <2>5, <2>6, <2>8 DEF Shows
  <2> QED BY <2>7 DEF e, q
<1>9. Shows([d EXCEPT !.consents = x], [p EXCEPT !.consents = x])
  <2> DEFINE e == [d EXCEPT !.consents = x]
             q == [p EXCEPT !.consents = x]
  <2>1. FieldsOf(e) /\ e.consents = x
    BY <1>0 DEF FieldsOf
  <2>8. Rows(q) /\ q.consents = x
    BY <1>0 DEF Rows
  <2>2. e.users = d.users /\ e.clients = d.clients /\ e.policy = d.policy /\ e.access = d.access /\ e.sessions = d.sessions /\ e.apps = d.apps
    BY <1>0 DEF FieldsOf
  <2>3. e.txns = d.txns /\ e.codes = d.codes /\ e.tokens = d.tokens /\ e.families = d.families /\ e.refresh = d.refresh
    BY <1>0 DEF FieldsOf
  <2>4. q.users = p.users /\ q.clients = p.clients /\ q.policies = p.policies /\ q.access = p.access /\ q.sessions = p.sessions /\ q.apps = p.apps
    BY <1>0 DEF Rows
  <2>5. q.txns = p.txns /\ q.codes = p.codes /\ q.tokens = p.tokens /\ q.families = p.families /\ q.refresh = p.refresh /\ q.deliveries = p.deliveries /\ q.err = p.err
    BY <1>0 DEF Rows
  <2> HIDE DEF e, q
  <2>6. /\ Owed(e, q.deliveries)
        /\ \A c \in Clients : PG!OAuthPolicy(q, c) = e.policy[c]
    BY <1>1, <2>2, <2>4, <2>5
  <2>7. Shows(e, q)
    BY <2>1, <2>2, <2>3, <2>4, <2>5, <2>6, <2>8 DEF Shows
  <2> QED BY <2>7 DEF e, q
<1>10. Shows([d EXCEPT !.clients = x], [p EXCEPT !.clients = x])
  <2> DEFINE e == [d EXCEPT !.clients = x]
             q == [p EXCEPT !.clients = x]
  <2>1. FieldsOf(e) /\ e.clients = x
    BY <1>0 DEF FieldsOf
  <2>8. Rows(q) /\ q.clients = x
    BY <1>0 DEF Rows
  <2>2. e.users = d.users /\ e.policy = d.policy /\ e.access = d.access /\ e.sessions = d.sessions /\ e.apps = d.apps
    BY <1>0 DEF FieldsOf
  <2>3. e.txns = d.txns /\ e.codes = d.codes /\ e.tokens = d.tokens /\ e.families = d.families /\ e.refresh = d.refresh /\ e.consents = d.consents
    BY <1>0 DEF FieldsOf
  <2>4. q.users = p.users /\ q.policies = p.policies /\ q.access = p.access /\ q.sessions = p.sessions /\ q.apps = p.apps
    BY <1>0 DEF Rows
  <2>5. q.txns = p.txns /\ q.codes = p.codes /\ q.tokens = p.tokens /\ q.families = p.families /\ q.refresh = p.refresh /\ q.consents = p.consents /\ q.deliveries = p.deliveries /\ q.err = p.err
    BY <1>0 DEF Rows
  <2> HIDE DEF e, q
  <2>6. /\ Owed(e, q.deliveries)
        /\ \A c \in Clients : PG!OAuthPolicy(q, c) = e.policy[c]
    BY <1>1, <2>2, <2>4, <2>5
  <2>7. Shows(e, q)
    BY <2>1, <2>2, <2>3, <2>4, <2>5, <2>6, <2>8 DEF Shows
  <2> QED BY <2>7 DEF e, q
<1> QED BY <1>2, <1>3, <1>4, <1>5, <1>6, <1>7, <1>8, <1>9, <1>10
\* A change of the entitlements.
LEMMA ShowsAccess ==
    ASSUME NEW d, NEW p, Shows(d, p), NEW x, NEW y, y = {u \in Users : x[u]}
    PROVE  Shows([d EXCEPT !.access = x], [p EXCEPT !.access = y])
<1> DEFINE e == [d EXCEPT !.access = x]
           q == [p EXCEPT !.access = y]
<1>0. FieldsOf(d) /\ Rows(p)
  BY DEF Shows
<1>1. FieldsOf(e) /\ e.access = x
  BY <1>0 DEF FieldsOf
<1>2. e.users = d.users /\ e.clients = d.clients /\ e.policy = d.policy /\ e.sessions = d.sessions /\ e.apps = d.apps
  BY <1>0 DEF FieldsOf
<1>3. e.txns = d.txns /\ e.codes = d.codes /\ e.tokens = d.tokens /\ e.families = d.families /\ e.refresh = d.refresh /\ e.consents = d.consents
  BY <1>0 DEF FieldsOf
<1>4. Rows(q) /\ q.access = y
  BY <1>0 DEF Rows
<1>5. q.users = p.users /\ q.clients = p.clients /\ q.policies = p.policies /\ q.sessions = p.sessions /\ q.apps = p.apps
  BY <1>0 DEF Rows
<1>6. q.txns = p.txns /\ q.codes = p.codes /\ q.tokens = p.tokens /\ q.families = p.families /\ q.refresh = p.refresh /\ q.consents = p.consents /\ q.deliveries = p.deliveries /\ q.err = p.err
  BY <1>0 DEF Rows
<1> HIDE DEF e, q
<1>8. Owed(e, q.deliveries)
  BY <1>2, <1>6, OwedSame DEF Shows
<1>9. \A c \in Clients : PG!OAuthPolicy(q, c) = e.policy[c]
  <2>1. \A c \in Clients : PG!OAuthPolicy(q, c) = PG!OAuthPolicy(p, c)
    BY <1>5 DEF PG!OAuthPolicy
  <2> QED BY <1>2, <2>1 DEF Shows
<1>10. Shows(e, q)
  BY <1>1, <1>2, <1>3, <1>4, <1>5, <1>6, <1>8, <1>9 DEF Shows
<1> QED BY <1>10 DEF e, q

\* A change of the policies.
LEMMA ShowsPolicy ==
    ASSUME NEW d, NEW p, Shows(d, p), NEW x, NEW y,
           \A c \in Clients : x[c] = IF c \in DOMAIN y THEN y[c] ELSE {}
    PROVE  Shows([d EXCEPT !.policy = x], [p EXCEPT !.policies = y])
<1> DEFINE e == [d EXCEPT !.policy = x]
           q == [p EXCEPT !.policies = y]
<1>0. FieldsOf(d) /\ Rows(p)
  BY DEF Shows
<1>1. FieldsOf(e) /\ e.policy = x
  BY <1>0 DEF FieldsOf
<1>2. e.users = d.users /\ e.clients = d.clients /\ e.access = d.access /\ e.sessions = d.sessions /\ e.apps = d.apps
  BY <1>0 DEF FieldsOf
<1>3. e.txns = d.txns /\ e.codes = d.codes /\ e.tokens = d.tokens /\ e.families = d.families /\ e.refresh = d.refresh /\ e.consents = d.consents
  BY <1>0 DEF FieldsOf
<1>4. Rows(q) /\ q.policies = y
  BY <1>0 DEF Rows
<1>5. q.users = p.users /\ q.clients = p.clients /\ q.access = p.access /\ q.sessions = p.sessions /\ q.apps = p.apps
  BY <1>0 DEF Rows
<1>6. q.txns = p.txns /\ q.codes = p.codes /\ q.tokens = p.tokens /\ q.families = p.families /\ q.refresh = p.refresh /\ q.consents = p.consents /\ q.deliveries = p.deliveries /\ q.err = p.err
  BY <1>0 DEF Rows
<1> HIDE DEF e, q
<1>8. Owed(e, q.deliveries)
  BY <1>2, <1>6, OwedSame DEF Shows
<1>9. \A c \in Clients : PG!OAuthPolicy(q, c) = e.policy[c]
  BY <1>1, <1>4 DEF PG!OAuthPolicy
<1>10. Shows(e, q)
  BY <1>1, <1>2, <1>3, <1>4, <1>5, <1>6, <1>8, <1>9 DEF Shows
<1> QED BY <1>10 DEF e, q

\* A change of the sessions, with what it makes owed.
LEMMA ShowsSessions ==
    ASSUME NEW d, NEW p, Shows(d, p), NEW x, NEW y, NEW D,
           y = Table(x, PG!SessionNulls), Owed([d EXCEPT !.sessions = x], D)
    PROVE  Shows([d EXCEPT !.sessions = x], [p EXCEPT !.sessions = y, !.deliveries = D])
<1> DEFINE e == [d EXCEPT !.sessions = x]
           q == [p EXCEPT !.sessions = y, !.deliveries = D]
<1>0. FieldsOf(d) /\ Rows(p)
  BY DEF Shows
<1>1. FieldsOf(e) /\ e.sessions = x
  BY <1>0 DEF FieldsOf
<1>2. e.users = d.users /\ e.clients = d.clients /\ e.policy = d.policy /\ e.access = d.access /\ e.apps = d.apps
  BY <1>0 DEF FieldsOf
<1>3. e.txns = d.txns /\ e.codes = d.codes /\ e.tokens = d.tokens /\ e.families = d.families /\ e.refresh = d.refresh /\ e.consents = d.consents
  BY <1>0 DEF FieldsOf
<1>4. Rows(q) /\ q.sessions = y /\ q.deliveries = D
  <2> DEFINE r == [p EXCEPT !.sessions = y]
  <2>1. q = [r EXCEPT !.deliveries = D]
    OBVIOUS
  <2>2. Rows(r)
    BY <1>0 DEF Rows
  <2>3. q.sessions = y /\ q.deliveries = D
    BY <1>0 DEF Rows
  <2>4. Rows([r EXCEPT !.deliveries = D])
    <3> HIDE DEF r, q
    <3> QED BY <2>2 DEF Rows
  <2> QED BY <2>1, <2>3, <2>4
<1>5. q.users = p.users /\ q.clients = p.clients /\ q.policies = p.policies /\ q.access = p.access /\ q.apps = p.apps
  BY <1>0 DEF Rows
<1>6. q.txns = p.txns /\ q.codes = p.codes /\ q.tokens = p.tokens /\ q.families = p.families /\ q.refresh = p.refresh /\ q.consents = p.consents /\ q.err = p.err
  BY <1>0 DEF Rows
<1>7. Owed(e, D)
  OBVIOUS
<1> HIDE DEF e, q
<1>8. Owed(e, q.deliveries)
  BY <1>4, <1>7
<1>9. \A c \in Clients : PG!OAuthPolicy(q, c) = e.policy[c]
  <2>1. \A c \in Clients : PG!OAuthPolicy(q, c) = PG!OAuthPolicy(p, c)
    BY <1>5 DEF PG!OAuthPolicy
  <2> QED BY <1>2, <2>1 DEF Shows
<1>10. Shows(e, q)
  BY <1>1, <1>2, <1>3, <1>4, <1>5, <1>6, <1>8, <1>9 DEF Shows
<1> QED BY <1>10 DEF e, q

\* A change of the app sessions, with what it makes owed.
LEMMA ShowsApps ==
    ASSUME NEW d, NEW p, Shows(d, p), NEW x, NEW y, NEW D,
           y = Table(x, PG!AppSessionNulls), Owed([d EXCEPT !.apps = x], D)
    PROVE  Shows([d EXCEPT !.apps = x], [p EXCEPT !.apps = y, !.deliveries = D])
<1> DEFINE e == [d EXCEPT !.apps = x]
           q == [p EXCEPT !.apps = y, !.deliveries = D]
<1>0. FieldsOf(d) /\ Rows(p)
  BY DEF Shows
<1>1. FieldsOf(e) /\ e.apps = x
  BY <1>0 DEF FieldsOf
<1>2. e.users = d.users /\ e.clients = d.clients /\ e.policy = d.policy /\ e.access = d.access /\ e.sessions = d.sessions
  BY <1>0 DEF FieldsOf
<1>3. e.txns = d.txns /\ e.codes = d.codes /\ e.tokens = d.tokens /\ e.families = d.families /\ e.refresh = d.refresh /\ e.consents = d.consents
  BY <1>0 DEF FieldsOf
<1>4. Rows(q) /\ q.apps = y /\ q.deliveries = D
  <2> DEFINE r == [p EXCEPT !.apps = y]
  <2>1. q = [r EXCEPT !.deliveries = D]
    OBVIOUS
  <2>2. Rows(r)
    BY <1>0 DEF Rows
  <2>3. q.apps = y /\ q.deliveries = D
    BY <1>0 DEF Rows
  <2>4. Rows([r EXCEPT !.deliveries = D])
    <3> HIDE DEF r, q
    <3> QED BY <2>2 DEF Rows
  <2> QED BY <2>1, <2>3, <2>4
<1>5. q.users = p.users /\ q.clients = p.clients /\ q.policies = p.policies /\ q.access = p.access /\ q.sessions = p.sessions
  BY <1>0 DEF Rows
<1>6. q.txns = p.txns /\ q.codes = p.codes /\ q.tokens = p.tokens /\ q.families = p.families /\ q.refresh = p.refresh /\ q.consents = p.consents /\ q.err = p.err
  BY <1>0 DEF Rows
<1>7. Owed(e, D)
  OBVIOUS
<1> HIDE DEF e, q
<1>8. Owed(e, q.deliveries)
  BY <1>4, <1>7
<1>9. \A c \in Clients : PG!OAuthPolicy(q, c) = e.policy[c]
  <2>1. \A c \in Clients : PG!OAuthPolicy(q, c) = PG!OAuthPolicy(p, c)
    BY <1>5 DEF PG!OAuthPolicy
  <2> QED BY <1>2, <2>1 DEF Shows
<1>10. Shows(e, q)
  BY <1>1, <1>2, <1>3, <1>4, <1>5, <1>6, <1>8, <1>9 DEF Shows
<1> QED BY <1>10 DEF e, q

\* RevokeRefreshFamily on families that are there.
LEMMA ShowsFamilies ==
    ASSUME NEW d, NEW p, Shows(d, p), NEW F, F \subseteq DOMAIN d.families
    PROVE  Shows(RevokeFamilies(d, F), PG!RevokeRefreshFamilies(p, F))
<1> DEFINE T == {k \in DOMAIN d.tokens : d.tokens[k].family \in F \cap DOMAIN d.families}
           fa == Revoke(d.families, F)
           to == Revoke(d.tokens, T)
<1>1. T = {k \in DOMAIN p.tokens : p.tokens[k].family \in F}
  BY DEF Shows
<1>2. PG!Revoke(p.families, F) = fa /\ PG!Revoke(p.tokens, T) = to
  BY SameMaps DEF Shows
<1>3. PG!RevokeRefreshFamilies(p, F) = [p EXCEPT !.families = fa, !.tokens = to]
  BY <1>1, <1>2 DEF PG!RevokeRefreshFamilies
<1>4. RevokeFamilies(d, F) = [d EXCEPT !.families = fa, !.tokens = to]
  BY DEF RevokeFamilies
<1> HIDE DEF fa, to
<1>5. /\ [d EXCEPT !.families = fa, !.tokens = to] = [[d EXCEPT !.families = fa] EXCEPT !.tokens = to]
      /\ [p EXCEPT !.families = fa, !.tokens = to] = [[p EXCEPT !.families = fa] EXCEPT !.tokens = to]
  OBVIOUS
<1>6. Shows([d EXCEPT !.families = fa], [p EXCEPT !.families = fa])
  BY ShowsPut
<1>7. Shows([[d EXCEPT !.families = fa] EXCEPT !.tokens = to],
            [[p EXCEPT !.families = fa] EXCEPT !.tokens = to])
  BY <1>6, ShowsPut
<1> QED BY <1>3, <1>4, <1>5, <1>7

\* The same, but for the families revoked before.
LEMMA ShowsMatching ==
    ASSUME NEW d, NEW p, StoreOK(d), Tied(d), Shows(d, p), NEW F, F \subseteq DOMAIN d.families
    PROVE  Shows(RevokeFamilies(d, F), PG!RevokeRefreshFamilies(p, PG!FamiliesMatching(p, F)))
<1> DEFINE G == {f \in F : ~d.families[f].revoked}
<1>1. PG!FamiliesMatching(p, F) = G
  BY DEF PG!FamiliesMatching, Shows
<1>2. RevokeFamilies(d, G) = RevokeFamilies(d, F)
  BY SkipRevoked
<1>3. Shows(RevokeFamilies(d, G), PG!RevokeRefreshFamilies(p, G))
  BY ShowsFamilies
<1> QED BY <1>1, <1>2, <1>3

\* Revoking access tokens.
LEMMA ShowsTokens ==
    ASSUME NEW d, NEW p, Shows(d, p), NEW K
    PROVE  Shows([d EXCEPT !.tokens = Revoke(d.tokens, K)],
                 [p EXCEPT !.tokens = PG!Revoke(p.tokens, K)])
<1>1. PG!Revoke(p.tokens, K) = Revoke(d.tokens, K)
  BY SameMaps DEF Shows
<1> QED BY <1>1, ShowsPut

\* RevokeAccessToken and its variants.
LEMMA ShowsRevocation ==
    ASSUME NEW d, NEW p, StoreOK(d), Tied(d), Shows(d, p), NEW x
    PROVE  /\ Shows(RevokeAccessToken(d, x), PG!RevokeAccessToken(p, x))
           /\ Shows(RevokeAccessTokensForUser(d, x), PG!RevokeAccessTokensForUser(p, x))
           /\ Shows(RevokeAccessTokensForClient(d, x), PG!RevokeAccessTokensForClient(p, x))
           /\ Shows(RevokeAccessTokensForCode(d, x), PG!RevokeAccessTokensForCode(p, x))
<1>1. Shows(RevokeAccessToken(d, x), PG!RevokeAccessToken(p, x))
  BY ShowsTokens DEF RevokeAccessToken, PG!RevokeAccessToken
<1>2. Shows(RevokeAccessTokensForUser(d, x), PG!RevokeAccessTokensForUser(p, x))
  <2> DEFINE F == {f \in DOMAIN d.families : d.families[f].user = x}
             d1 == RevokeFamilies(d, F)
             p1 == PG!RevokeRefreshFamilies(p, PG!FamiliesMatching(p, F))
             K == {k \in DOMAIN d1.tokens : d1.tokens[k].user = x}
  <2>1. Shows(d1, p1)
    BY ShowsMatching
  <2>2. F = {f \in DOMAIN p.families : p.families[f].user = x}
    BY DEF Shows
  <2>3. p1.tokens = d1.tokens
    BY <2>1 DEF Shows
  <2> HIDE DEF d1, p1, F
  <2>4. Shows([d1 EXCEPT !.tokens = Revoke(d1.tokens, K)],
              [p1 EXCEPT !.tokens = PG!Revoke(p1.tokens, K)])
    BY <2>1, ShowsTokens
  <2>5. K = {k \in DOMAIN p1.tokens : p1.tokens[k].user = x}
    BY <2>3
  <2> HIDE DEF K
  <2>6. RevokeAccessTokensForUser(d, x) = [d1 EXCEPT !.tokens = Revoke(d1.tokens, K)]
    BY DEF RevokeAccessTokensForUser, d1, F, K
  <2>7. PG!RevokeAccessTokensForUser(p, x) = [p1 EXCEPT !.tokens = PG!Revoke(p1.tokens, K)]
    BY <2>2, <2>5 DEF PG!RevokeAccessTokensForUser, p1
  <2> QED BY <2>4, <2>6, <2>7
<1>3. Shows(RevokeAccessTokensForClient(d, x), PG!RevokeAccessTokensForClient(p, x))
  <2> DEFINE F == {f \in DOMAIN d.families : d.families[f].client = x}
             d1 == RevokeFamilies(d, F)
             p1 == PG!RevokeRefreshFamilies(p, PG!FamiliesMatching(p, F))
             K == {k \in DOMAIN d1.tokens : d1.tokens[k].client = x}
  <2>1. Shows(d1, p1)
    BY ShowsMatching
  <2>2. F = {f \in DOMAIN p.families : p.families[f].client = x}
    BY DEF Shows
  <2>3. p1.tokens = d1.tokens
    BY <2>1 DEF Shows
  <2> HIDE DEF d1, p1, F
  <2>4. Shows([d1 EXCEPT !.tokens = Revoke(d1.tokens, K)],
              [p1 EXCEPT !.tokens = PG!Revoke(p1.tokens, K)])
    BY <2>1, ShowsTokens
  <2>5. K = {k \in DOMAIN p1.tokens : p1.tokens[k].client = x}
    BY <2>3
  <2> HIDE DEF K
  <2>6. RevokeAccessTokensForClient(d, x) = [d1 EXCEPT !.tokens = Revoke(d1.tokens, K)]
    BY DEF RevokeAccessTokensForClient, d1, F, K
  <2>7. PG!RevokeAccessTokensForClient(p, x) = [p1 EXCEPT !.tokens = PG!Revoke(p1.tokens, K)]
    BY <2>2, <2>5 DEF PG!RevokeAccessTokensForClient, p1
  <2> QED BY <2>4, <2>6, <2>7
<1>4. Shows(RevokeAccessTokensForCode(d, x), PG!RevokeAccessTokensForCode(p, x))
  <2> DEFINE F == {f \in DOMAIN d.families : d.families[f].code = x}
             d1 == RevokeFamilies(d, F)
             p1 == PG!RevokeRefreshFamilies(p, PG!FamiliesMatching(p, F))
             K == {k \in DOMAIN d1.tokens : d1.tokens[k].code = x}
  <2>1. Shows(d1, p1)
    BY ShowsMatching
  <2>2. F = {f \in DOMAIN p.families : p.families[f].code = x}
    BY DEF Shows
  <2>3. p1.tokens = d1.tokens
    BY <2>1 DEF Shows
  <2> HIDE DEF d1, p1, F
  <2>4. Shows([d1 EXCEPT !.tokens = Revoke(d1.tokens, K)],
              [p1 EXCEPT !.tokens = PG!Revoke(p1.tokens, K)])
    BY <2>1, ShowsTokens
  <2>5. K = {k \in DOMAIN p1.tokens : p1.tokens[k].code = x}
    BY <2>3
  <2> HIDE DEF K
  <2>6. RevokeAccessTokensForCode(d, x) = [d1 EXCEPT !.tokens = Revoke(d1.tokens, K)]
    BY DEF RevokeAccessTokensForCode, d1, F, K
  <2>7. PG!RevokeAccessTokensForCode(p, x) = [p1 EXCEPT !.tokens = PG!Revoke(p1.tokens, K)]
    BY <2>2, <2>5 DEF PG!RevokeAccessTokensForCode, p1
  <2> QED BY <2>4, <2>6, <2>7
<1> QED BY <1>1, <1>2, <1>3, <1>4

\* what Queue makes of the deliveries D
Queued(D, K, t) ==
    [i \in DOMAIN D \cup K |-> IF i \in DOMAIN D THEN D[i] ELSE [created |-> t]]

\* the notices of the app sessions E
NoticesOf(d, E) == UNION {Notices(d.apps[a].client) \X {a} : a \in E}

\* A notice is of a logout channel, or says that there is none.
LEMMA NoticeKinds ==
    ASSUME NEW c \in Clients
    PROVE  Notices(c) \subseteq {"backchannel", "frontchannel", "unsupported"}
BY ChannelsAssumption DEF Notices

\* What is due, element by element.
LEMMA DueHas ==
    ASSUME NEW d, NEW ch, NEW x
    PROVE  <<ch, x>> \in Due(d) <=>
             \/ ch = "op" /\ \E h \in Ended(d.sessions) : d.sessions[h].id = x
             \/ x \in Ended(d.apps) /\ ch \in Notices(d.apps[x].client)
BY DEF Due

\* Everything due is such a pair.
LEMMA DuePairs ==
    ASSUME NEW d, NEW i \in Due(d)
    PROVE  \E ch, x : i = <<ch, x>>
BY DEF Due

\* Ending records adds their keys to those of the ended ones.
LEMMA EndedMore ==
    ASSUME NEW m, NEW E, NEW t, t # 0,
           \A x \in DOMAIN m : [m[x] EXCEPT !.ended = t].ended = t,
           \A x \in E : x \in DOMAIN m /\ m[x].ended = 0
    PROVE  /\ Ended(End(m, E, t)) = Ended(m) \cup E
           /\ E \cap Ended(m) = {}
           /\ \A x \in Ended(m) : End(m, E, t)[x] = m[x]
           /\ \A x \in E : End(m, E, t)[x] = [m[x] EXCEPT !.ended = t]
BY DEF Ended, End

\* The notifications of ended app sessions are owed from then on.
LEMMA OwedApps ==
    ASSUME NEW d, StoreOK(d), NEW D, Owed(d, D), NEW t \in Nat \ {0}, NEW E,
           \A a \in E : a \in DOMAIN d.apps /\ d.apps[a].ended = 0
    PROVE  /\ Owed([d EXCEPT !.apps = End(d.apps, E, t)], Queued(D, NoticesOf(d, E), t))
           /\ \A i \in NoticesOf(d, E) : i \notin DOMAIN D
<1> DEFINE e == [d EXCEPT !.apps = End(d.apps, E, t)]
           K == NoticesOf(d, E)
           Q == Queued(D, K, t)
<1>1. /\ e.sessions = d.sessions /\ e.apps = End(d.apps, E, t)
  BY StoreFields DEF FieldsOf
<1>2. \A v \in AppSession : /\ [v EXCEPT !.ended = t].ended = t
                            /\ [v EXCEPT !.ended = t].client = v.client
  BY DEF AppSession
<1>3. /\ \A a \in DOMAIN d.apps : d.apps[a] \in AppSession
      /\ \A a \in DOMAIN d.apps : d.apps[a].client \in Clients
  <2>1. \A a \in DOMAIN d.apps : d.apps[a] \in AppSession
    BY Records
  <2> QED BY <2>1 DEF AppSession
<1>4. /\ Ended(e.apps) = Ended(d.apps) \cup E
      /\ E \cap Ended(d.apps) = {}
      /\ \A a \in Ended(d.apps) : e.apps[a] = d.apps[a]
      /\ \A a \in E : e.apps[a] = [d.apps[a] EXCEPT !.ended = t]
  <2>1. \A x \in DOMAIN d.apps : [d.apps[x] EXCEPT !.ended = t].ended = t
    BY <1>2, <1>3
  <2>2. t # 0
    OBVIOUS
  <2> HIDE DEF e
  <2> QED BY <1>1, <2>1, <2>2, EndedMore
<1> HIDE DEF e
<1>5. \A a \in Ended(e.apps) : e.apps[a].client = d.apps[a].client
  BY <1>2, <1>3, <1>4
<1>6. \A a \in Ended(e.apps) : a \in DOMAIN d.apps
  BY <1>4 DEF Ended
<1>7. Due(e) = Due(d) \cup K
  BY <1>1, <1>4, <1>5 DEF Due, NoticesOf
<1>8. ASSUME NEW i \in K PROVE i \notin Due(d)
  <2>1. PICK a \in E : \E ch \in Notices(d.apps[a].client) : i = <<ch, a>>
    BY DEF NoticesOf
  <2>4. PICK ch \in Notices(d.apps[a].client) : i = <<ch, a>>
    BY <2>1
  <2>2. ch # "op"
    BY <2>4, <1>3, NoticeKinds
  <2>3. a \notin Ended(d.apps)
    BY <1>4
  <2> QED BY <2>4, <2>2, <2>3, DueHas
<1>9. DOMAIN D = Due(d)
  BY DEF Owed
<1>10. DOMAIN Q = Due(e)
  BY <1>7, <1>9 DEF Queued
<1>11. \A i \in Due(d) : Q[i] = D[i]
  BY <1>9 DEF Queued
<1>12. \A i \in K : Q[i] = [created |-> t]
  BY <1>8, <1>9 DEF Queued
<1>13. Q = [i \in Due(e) |-> Q[i]]
  BY <1>10 DEF Queued
<1>14. ASSUME NEW h \in Ended(e.sessions)
       PROVE  Q[<<"op", e.sessions[h].id>>] = [created |-> e.sessions[h].ended]
  <2>1. <<"op", d.sessions[h].id>> \in Due(d)
    BY <1>1, DueHas
  <2> HIDE DEF Q
  <2> QED BY <2>1, <1>1, <1>11 DEF Owed
<1>15. ASSUME NEW a \in Ended(e.apps), NEW ch \in Notices(e.apps[a].client)
       PROVE  Q[<<ch, a>>] = [created |-> e.apps[a].ended]
  <2>1. CASE a \in E
    <3>1. <<ch, a>> \in K
      BY <1>5, <2>1 DEF NoticesOf
    <3>2. e.apps[a].ended = t
      <4>1. e.apps[a] = [d.apps[a] EXCEPT !.ended = t] /\ a \in DOMAIN d.apps
        BY <1>4, <2>1
      <4>2. [d.apps[a] EXCEPT !.ended = t].ended = t
        BY <1>2, <1>3, <4>1
      <4> QED BY <4>1, <4>2
    <3> HIDE DEF Q
    <3> QED BY <1>12, <3>1, <3>2
  <2>2. CASE a \in Ended(d.apps)
    <3>1. <<ch, a>> \in Due(d) /\ e.apps[a] = d.apps[a]
      BY <1>4, <2>2, DueHas
    <3> HIDE DEF Q
    <3> QED BY <1>11, <2>2, <3>1 DEF Owed
  <2> QED BY <1>4, <2>1, <2>2
<1>16. Owed(e, Q)
  <2> HIDE DEF Q
  <2> QED BY <1>13, <1>14, <1>15 DEF Owed
<1> QED BY <1>8, <1>9, <1>16 DEF e

\* So are those of ended OP sessions.
LEMMA OwedSessions ==
    ASSUME NEW d, StoreOK(d), OneID(d), NEW D, Owed(d, D), NEW t \in Nat \ {0}, NEW H,
           \A h \in H : h \in DOMAIN d.sessions /\ d.sessions[h].ended = 0
    PROVE  LET K == {"op"} \X {d.sessions[h].id : h \in H} IN
           /\ Owed([d EXCEPT !.sessions = End(d.sessions, H, t)], Queued(D, K, t))
           /\ \A i \in K : i \notin DOMAIN D
<1> DEFINE e == [d EXCEPT !.sessions = End(d.sessions, H, t)]
           J == {d.sessions[h].id : h \in H}
           K == {"op"} \X J
           Q == Queued(D, K, t)
<1>1. /\ e.apps = d.apps /\ e.sessions = End(d.sessions, H, t)
  BY StoreFields DEF FieldsOf
<1>2. \A v \in Session : /\ [v EXCEPT !.ended = t].ended = t
                         /\ [v EXCEPT !.ended = t].id = v.id
  BY DEF Session
<1>3. /\ \A h \in DOMAIN d.sessions : d.sessions[h] \in Session
      /\ \A a \in DOMAIN d.apps : d.apps[a].client \in Clients
  <2>1. \A a \in DOMAIN d.apps : d.apps[a] \in AppSession
    BY Records
  <2> QED BY <2>1, Records DEF AppSession
<1>4. /\ Ended(e.sessions) = Ended(d.sessions) \cup H
      /\ H \cap Ended(d.sessions) = {}
      /\ \A h \in Ended(d.sessions) : e.sessions[h] = d.sessions[h]
      /\ \A h \in H : e.sessions[h] = [d.sessions[h] EXCEPT !.ended = t]
  <2>1. \A x \in DOMAIN d.sessions : [d.sessions[x] EXCEPT !.ended = t].ended = t
    BY <1>2, <1>3
  <2>2. t # 0
    OBVIOUS
  <2> HIDE DEF e
  <2> QED BY <1>1, <2>1, <2>2, EndedMore
<1> HIDE DEF e
<1>5. \A h \in Ended(e.sessions) : h \in DOMAIN d.sessions
  BY <1>4 DEF Ended
<1>6. \A h \in Ended(e.sessions) : e.sessions[h].id = d.sessions[h].id
  BY <1>2, <1>3, <1>4
<1>7. Due(e) = Due(d) \cup K
  <2>1. {e.sessions[h].id : h \in Ended(e.sessions)}
          = {d.sessions[h].id : h \in Ended(d.sessions)} \cup J
    BY <1>4, <1>6
  <2> HIDE DEF J
  <2> QED BY <1>1, <2>1 DEF Due
<1>8. ASSUME NEW i \in K PROVE i \notin Due(d)
  <2>1. PICK h \in H : i = <<"op", d.sessions[h].id>>
    OBVIOUS
  <2>2. \A g \in Ended(d.sessions) : d.sessions[g].id # d.sessions[h].id
    BY <1>4 DEF OneID, Ended
  <2>3. \A a \in Ended(d.apps) : "op" \notin Notices(d.apps[a].client)
    BY <1>3, NoticeKinds DEF Ended
  <2> HIDE DEF K
  <2> QED BY <2>1, <2>2, <2>3, DueHas
<1>9. DOMAIN D = Due(d)
  BY DEF Owed
<1>10. DOMAIN Q = Due(e)
  BY <1>7, <1>9 DEF Queued
<1>11. \A i \in Due(d) : Q[i] = D[i]
  BY <1>9 DEF Queued
<1>12. \A i \in K : Q[i] = [created |-> t]
  BY <1>8, <1>9 DEF Queued
<1>13. Q = [i \in Due(e) |-> Q[i]]
  BY <1>10 DEF Queued
<1>14. ASSUME NEW h \in Ended(e.sessions)
       PROVE  Q[<<"op", e.sessions[h].id>>] = [created |-> e.sessions[h].ended]
  <2>1. CASE h \in H
    <3>1. <<"op", e.sessions[h].id>> \in K
      BY <1>6, <2>1
    <3>2. e.sessions[h].ended = t
      <4>1. e.sessions[h] = [d.sessions[h] EXCEPT !.ended = t] /\ h \in DOMAIN d.sessions
        BY <1>4, <2>1
      <4>2. [d.sessions[h] EXCEPT !.ended = t].ended = t
        BY <1>2, <1>3, <4>1
      <4> QED BY <4>1, <4>2
    <3> HIDE DEF Q, K
    <3> QED BY <1>12, <3>1, <3>2
  <2>2. CASE h \in Ended(d.sessions)
    <3>1. <<"op", d.sessions[h].id>> \in Due(d) /\ e.sessions[h] = d.sessions[h]
      BY <1>4, <2>2, DueHas
    <3> HIDE DEF Q, K
    <3> QED BY <1>11, <2>2, <3>1 DEF Owed
  <2> QED BY <1>4, <2>1, <2>2
<1>15. ASSUME NEW a \in Ended(e.apps), NEW ch \in Notices(e.apps[a].client)
       PROVE  Q[<<ch, a>>] = [created |-> e.apps[a].ended]
  <2>1. <<ch, a>> \in Due(d)
    BY <1>1, DueHas
  <2> HIDE DEF Q, K
  <2> QED BY <2>1, <1>1, <1>11 DEF Owed
<1>16. Owed(e, Q)
  <2> HIDE DEF Q, K
  <2> QED BY <1>13, <1>14, <1>15 DEF Owed
<1> QED BY <1>8, <1>9, <1>16 DEF e

\* the codes or requests m of the OP session and client of each of E
CutOf(d, E, m) ==
    {x \in DOMAIN m : \E a \in E : m[x].op = d.apps[a].op /\ m[x].client = d.apps[a].client}

\* EndAppSession, step by step.
LEMMA EndAppSteps ==
    ASSUME NEW d, NEW A, NEW t
    PROVE  LET E  == {a \in A \cap DOMAIN d.apps : d.apps[a].ended = 0}
               d1 == [d EXCEPT !.apps = End(d.apps, E, t)]
               d2 == [d1 EXCEPT !.tokens = Revoke(d.tokens, {k \in DOMAIN d.tokens :
                           d.tokens[k].app \in E /\ d.tokens[k].family = 0})]
               d3 == [d2 EXCEPT !.codes = Revoke(d.codes, CutOf(d, E, d.codes))]
           IN EndAppSessions(d, A, t)
                = [d3 EXCEPT !.txns = Revoke(d.txns, CutOf(d, E, d.txns))]
<1> DEFINE E == {a \in A \cap DOMAIN d.apps : d.apps[a].ended = 0}
           aa == End(d.apps, E, t)
           to == Revoke(d.tokens, {k \in DOMAIN d.tokens :
                           d.tokens[k].app \in E /\ d.tokens[k].family = 0})
           co == Revoke(d.codes, CutOf(d, E, d.codes))
           tr == Revoke(d.txns, CutOf(d, E, d.txns))
<1>1. EndAppSessions(d, A, t) = [d EXCEPT !.apps = aa, !.tokens = to, !.codes = co, !.txns = tr]
  BY DEF EndAppSessions, CutOf
<1> HIDE DEF aa, to, co, tr
<1>2. [d EXCEPT !.apps = aa, !.tokens = to, !.codes = co, !.txns = tr]
        = [[[[d EXCEPT !.apps = aa] EXCEPT !.tokens = to] EXCEPT !.codes = co] EXCEPT !.txns = tr]
  OBVIOUS
<1> QED BY <1>1, <1>2 DEF aa, to, co, tr

\* The rows of the open records are those of the open records.
LEMMA OpenShown ==
    ASSUME NEW d, NEW p, StoreOK(d), Shows(d, p)
    PROVE  /\ PG!OpenRows(p.apps) = {a \in DOMAIN d.apps : d.apps[a].ended = 0}
           /\ PG!OpenRows(p.sessions) = {h \in DOMAIN d.sessions : d.sessions[h].ended = 0}
<1>1. \A a \in DOMAIN d.apps : p.apps[a].ended = Null <=> d.apps[a].ended = 0
  BY Shown
<1>2. \A h \in DOMAIN d.sessions : p.sessions[h].ended = Null <=> d.sessions[h].ended = 0
  BY Shown
<1>3. DOMAIN p.apps = DOMAIN d.apps /\ DOMAIN p.sessions = DOMAIN d.sessions
  BY Shown
<1> QED BY <1>1, <1>2, <1>3 DEF PG!OpenRows

\* EndAppSession queues the notices its app sessions are owed,
LEMMA NoticesShown ==
    ASSUME NEW d, NEW p, StoreOK(d), Registered(d), Shows(d, p), NEW E,
           \A a \in E : a \in DOMAIN d.apps /\ d.apps[a].ended = 0
    PROVE  PG!DeliveriesOf(p, E) = NoticesOf(d, E)
<1>1. \A a \in E : PG!ChannelsOf(p, p.apps[a].client) = Notices(d.apps[a].client)
  <2> SUFFICES ASSUME NEW a \in E
               PROVE  PG!ChannelsOf(p, p.apps[a].client) = Notices(d.apps[a].client)
    OBVIOUS
  <2>1. p.apps[a].client = d.apps[a].client
    BY Shown
  <2>2. p.clients = d.clients /\ d.apps[a].client \in DOMAIN d.clients
    BY DEF Shows, Registered
  <2> QED BY <2>1, <2>2 DEF PG!ChannelsOf, PG!NoChannel, Notices
<1> QED BY <1>1 DEF PG!DeliveriesOf, NoticesOf

\* and reaches the codes and requests that the file store's reaches.
LEMMA CutShown ==
    ASSUME NEW d, NEW p, StoreOK(d), Shows(d, p), NEW E,
           \A a \in E : a \in DOMAIN d.apps
    PROVE  LET pairs == {<<p.apps[a].op, p.apps[a].client>> : a \in E} IN
           /\ {x \in DOMAIN p.codes : <<p.codes[x].op, p.codes[x].client>> \in pairs}
                = CutOf(d, E, d.codes)
           /\ {x \in DOMAIN p.txns : <<p.txns[x].op, p.txns[x].client>> \in pairs}
                = CutOf(d, E, d.txns)
<1>1. \A a \in E : p.apps[a].op = d.apps[a].op /\ p.apps[a].client = d.apps[a].client
  BY Shown
<1>2. DOMAIN p.codes = DOMAIN d.codes /\ DOMAIN p.txns = DOMAIN d.txns
  BY Shown
<1>3. \A x \in DOMAIN d.codes : p.codes[x].op = d.codes[x].op /\ p.codes[x].client = d.codes[x].client
  BY Shown
<1>4. \A x \in DOMAIN d.txns : p.txns[x].op = d.txns[x].op /\ p.txns[x].client = d.txns[x].client
  BY Shown
<1>5. \A o, c : <<o, c>> \in {<<p.apps[a].op, p.apps[a].client>> : a \in E}
                  <=> \E a \in E : o = d.apps[a].op /\ c = d.apps[a].client
  BY <1>1
<1> DEFINE pairs == {<<p.apps[a].op, p.apps[a].client>> : a \in E}
<1> HIDE DEF pairs
<1>6. {x \in DOMAIN p.codes : <<p.codes[x].op, p.codes[x].client>> \in pairs} = CutOf(d, E, d.codes)
  BY <1>2, <1>3, <1>5 DEF CutOf, pairs
<1>7. {x \in DOMAIN p.txns : <<p.txns[x].op, p.txns[x].client>> \in pairs} = CutOf(d, E, d.txns)
  BY <1>2, <1>4, <1>5 DEF CutOf, pairs
<1> QED BY <1>6, <1>7 DEF pairs

\* EndAppSession, on a set of app sessions; those ended before do not matter.
LEMMA ShowsEndApps ==
    ASSUME NEW d, NEW p, StoreOK(d), Registered(d), Shows(d, p), NEW t \in Nat \ {0}, NEW A, NEW B,
           \A a \in DOMAIN d.apps : d.apps[a].ended = 0 => (a \in A <=> a \in B)
    PROVE  Shows(EndAppSessions(d, A, t), PG!EndAppSessions(p, B, t))
<1> DEFINE E  == {a \in A \cap DOMAIN d.apps : d.apps[a].ended = 0}
           TK == {k \in DOMAIN d.tokens : d.tokens[k].app \in E /\ d.tokens[k].family = 0}
           aa == End(d.apps, E, t)
           ta == Table(aa, PG!AppSessionNulls)
           D  == Queued(p.deliveries, NoticesOf(d, E), t)
           to == Revoke(d.tokens, TK)
           co == Revoke(d.codes, CutOf(d, E, d.codes))
           tc == Table(co, PG!CodeNulls)
           tr == Revoke(d.txns, CutOf(d, E, d.txns))
           tt == Table(tr, PG!TransactionNulls)
<1>1. \A a \in E : a \in DOMAIN d.apps /\ d.apps[a].ended = 0
  OBVIOUS
<1>2. B \cap PG!OpenRows(p.apps) = E
  BY OpenShown
<1> HIDE DEF E
<1>3. Owed([d EXCEPT !.apps = aa], D)
  BY <1>1, OwedApps DEF Shows
<1>4. /\ PG!End(p.apps, E, t) = ta
      /\ PG!Revoke(p.codes, CutOf(d, E, d.codes)) = tc
      /\ PG!Revoke(p.txns, CutOf(d, E, d.txns)) = tt
      /\ PG!Revoke(p.tokens, TK) = to
  BY SameMaps, TableEnd, TableRevoke DEF Shows, PG!AppSessionNulls, PG!CodeNulls, PG!TransactionNulls
<1>5. TK = {k \in DOMAIN p.tokens : p.tokens[k].app \in E /\ p.tokens[k].family = 0}
  BY DEF Shows
<1>6. PG!DeliveriesOf(p, E) = NoticesOf(d, E)
  BY <1>1, NoticesShown
<1>7. PG!Queue(p, PG!DeliveriesOf(p, E), t) = [p EXCEPT !.deliveries = D]
  BY <1>6 DEF PG!Queue, Queued
<1>8. PG!EndAppSessions(p, B, t)
        = [[p EXCEPT !.deliveries = D] EXCEPT !.apps = ta, !.tokens = to, !.codes = tc, !.txns = tt]
  <2>1. LET pairs == {<<p.apps[a].op, p.apps[a].client>> : a \in E} IN
           /\ {x \in DOMAIN p.codes : <<p.codes[x].op, p.codes[x].client>> \in pairs}
                = CutOf(d, E, d.codes)
           /\ {x \in DOMAIN p.txns : <<p.txns[x].op, p.txns[x].client>> \in pairs}
                = CutOf(d, E, d.txns)
    BY <1>1, CutShown
  <2> HIDE DEF ta, to, tc, tt, D, TK
  <2> QED BY <1>2, <1>4, <1>5, <1>7, <2>1 DEF PG!EndAppSessions
<1>9. Shows([d EXCEPT !.apps = aa], [p EXCEPT !.apps = ta, !.deliveries = D])
  <2> HIDE DEF D, aa
  <2> QED BY <1>3, ShowsApps
<1> DEFINE d1 == [d EXCEPT !.apps = aa]
           p1 == [p EXCEPT !.apps = ta, !.deliveries = D]
           d2 == [d1 EXCEPT !.tokens = to]
           p2 == [p1 EXCEPT !.tokens = to]
           d3 == [d2 EXCEPT !.codes = co]
           p3 == [p2 EXCEPT !.codes = tc]
<1>10. EndAppSessions(d, A, t) = [d3 EXCEPT !.txns = tr]
  BY EndAppSteps DEF E
<1> HIDE DEF aa, D, to, co, tr
<1>11. Shows([d3 EXCEPT !.txns = tr], [p3 EXCEPT !.txns = tt])
  <2> HIDE DEF d1, p1
  <2>1. Shows(d2, p2)
    BY <1>9, ShowsPut DEF d1, p1
  <2> HIDE DEF d2, p2
  <2>2. Shows(d3, p3)
    BY <2>1, ShowsPut
  <2> HIDE DEF d3, p3
  <2> QED BY <2>2, ShowsPut
<1> HIDE DEF ta, tc, tt
<1>12. [[p EXCEPT !.deliveries = D] EXCEPT !.apps = ta, !.tokens = to, !.codes = tc, !.txns = tt]
         = [p3 EXCEPT !.txns = tt]
  OBVIOUS
<1> HIDE DEF d3, p3
<1> QED BY <1>8, <1>10, <1>11, <1>12

\* the session IDs that EndSessions ends, and the store after it ended them, and
\* then their app sessions
EndingIDs(d, I) == {d.sessions[h].id : h \in ToEnd(d, I)}
SessionsEnded(d, I, t) == [d EXCEPT !.sessions = End(d.sessions, ToEnd(d, I), t)]
AppsEnded(d, I, t) == EndAppSessions(SessionsEnded(d, I, t), Under(d.apps, EndingIDs(d, I)), t)

\* Ending sessions first or after their app sessions is the same.
LEMMA EndSessionSteps ==
    ASSUME NEW d, FieldsOf(d), NEW I, NEW t
    PROVE  LET J  == EndingIDs(d, I)
               d1 == AppsEnded(d, I, t)
               d2 == [d1 EXCEPT !.txns = Revoke(d1.txns, Under(d1.txns, J))]
           IN EndSessions(d, I, t) = [d2 EXCEPT !.codes = Revoke(d1.codes, Under(d1.codes, J))]
<1> DEFINE H  == ToEnd(d, I)
           J  == {d.sessions[h].id : h \in H}
           se == End(d.sessions, H, t)
           d0 == [d EXCEPT !.sessions = se]
           A  == Under(d.apps, J)
           d1 == EndAppSessions(d0, A, t)
           c1 == EndAppSessions(d, A, t)
           tr == Revoke(d1.txns, Under(d1.txns, J))
           co == Revoke(d1.codes, Under(d1.codes, J))
<1>1. /\ d0.apps = d.apps /\ d0.tokens = d.tokens /\ d0.codes = d.codes
      /\ d0.txns = d.txns
  BY DEF FieldsOf
<1>2. d1 = [c1 EXCEPT !.sessions = se] /\ c1.sessions = d.sessions /\ FieldsOf(c1)
  <2> DEFINE E == {a \in A \cap DOMAIN d.apps : d.apps[a].ended = 0}
             aa == End(d.apps, E, t)
             to == Revoke(d.tokens, {k \in DOMAIN d.tokens :
                           d.tokens[k].app \in E /\ d.tokens[k].family = 0})
             ko == Revoke(d.codes, CutOf(d, E, d.codes))
             xo == Revoke(d.txns, CutOf(d, E, d.txns))
  <2>1. c1 = [[[[d EXCEPT !.apps = aa] EXCEPT !.tokens = to] EXCEPT !.codes = ko] EXCEPT !.txns = xo]
    BY EndAppSteps
  <2>2. CutOf(d0, E, d.codes) = CutOf(d, E, d.codes) /\ CutOf(d0, E, d.txns) = CutOf(d, E, d.txns)
    BY <1>1 DEF CutOf
  <2> HIDE DEF d0, A
  <2>3. d1 = [[[[d0 EXCEPT !.apps = aa] EXCEPT !.tokens = to] EXCEPT !.codes = ko] EXCEPT !.txns = xo]
    <3>1. LET E0 == {a \in A \cap DOMAIN d0.apps : d0.apps[a].ended = 0}
              e1 == [d0 EXCEPT !.apps = End(d0.apps, E0, t)]
              e2 == [e1 EXCEPT !.tokens = Revoke(d0.tokens, {k \in DOMAIN d0.tokens :
                           d0.tokens[k].app \in E0 /\ d0.tokens[k].family = 0})]
              e3 == [e2 EXCEPT !.codes = Revoke(d0.codes, CutOf(d0, E0, d0.codes))]
          IN d1 = [e3 EXCEPT !.txns = Revoke(d0.txns, CutOf(d0, E0, d0.txns))]
      BY EndAppSteps
    <3>2. {a \in A \cap DOMAIN d0.apps : d0.apps[a].ended = 0} = E
      BY <1>1
    <3>3. {k \in DOMAIN d0.tokens : d0.tokens[k].app \in E /\ d0.tokens[k].family = 0}
            = {k \in DOMAIN d.tokens : d.tokens[k].app \in E /\ d.tokens[k].family = 0}
      BY <1>1
    <3> HIDE DEF E
    <3>4. End(d0.apps, E, t) = aa
      BY <1>1
    <3>5. Revoke(d0.tokens, {k \in DOMAIN d0.tokens : d0.tokens[k].app \in E /\ d0.tokens[k].family = 0}) = to
      BY <1>1, <3>3
    <3>6. Revoke(d0.codes, CutOf(d0, E, d0.codes)) = ko /\ Revoke(d0.txns, CutOf(d0, E, d0.txns)) = xo
      BY <1>1, <2>2
    <3> HIDE DEF aa, to, ko, xo, d1
    <3> QED BY <3>1, <3>2, <3>4, <3>5, <3>6
  <2> HIDE DEF d1, c1, aa, to, ko, xo, se
  <2>4. d1 = [[[[[d EXCEPT !.sessions = se] EXCEPT !.apps = aa] EXCEPT !.tokens = to] EXCEPT !.codes = ko] EXCEPT !.txns = xo]
    BY <2>3 DEF d0
  <2>5. [[[[[d EXCEPT !.sessions = se] EXCEPT !.apps = aa] EXCEPT !.tokens = to] EXCEPT !.codes = ko] EXCEPT !.txns = xo]
        = [[[[[d EXCEPT !.apps = aa] EXCEPT !.tokens = to] EXCEPT !.codes = ko] EXCEPT !.txns = xo] EXCEPT !.sessions = se]
    OBVIOUS
  <2>6. c1.sessions = d.sessions /\ FieldsOf(c1)
    BY <2>1 DEF FieldsOf
  <2> QED BY <2>1, <2>4, <2>5, <2>6
<1>3. EndSessions(d, I, t) = [c1 EXCEPT !.sessions = End(c1.sessions, H, t),
                                        !.txns = Revoke(c1.txns, Under(c1.txns, J)),
                                        !.codes = Revoke(c1.codes, Under(c1.codes, J))]
  BY DEF EndSessions
<1> HIDE DEF d1, c1, d0
<1>4. c1.txns = d1.txns /\ c1.codes = d1.codes
  BY <1>2 DEF FieldsOf
<1>5. EndSessions(d, I, t) = [c1 EXCEPT !.sessions = se, !.txns = tr, !.codes = co]
  BY <1>2, <1>3, <1>4
<1> HIDE DEF se, tr, co
<1>6. [c1 EXCEPT !.sessions = se, !.txns = tr, !.codes = co]
        = [[[c1 EXCEPT !.sessions = se] EXCEPT !.txns = tr] EXCEPT !.codes = co]
  OBVIOUS
<1>7. J = EndingIDs(d, I) /\ d1 = AppsEnded(d, I, t)
  BY DEF EndingIDs, AppsEnded, SessionsEnded, d0, d1, se
<1> HIDE DEF J
<1>8. EndSessions(d, I, t) = [[d1 EXCEPT !.txns = tr] EXCEPT !.codes = co]
  BY <1>2, <1>5, <1>6
<1> QED BY <1>7, <1>8 DEF tr, co

\* EndSession, on a set of session IDs; those ended before do not matter.
LEMMA ShowsEndSessions ==
    ASSUME NEW d, NEW p, StoreOK(d), Registered(d), OneID(d), Shows(d, p), NEW t \in Nat \ {0},
           NEW I, NEW K, \A h \in DOMAIN d.sessions :
               d.sessions[h].ended = 0 => (d.sessions[h].id \in I <=> d.sessions[h].id \in K)
    PROVE  Shows(EndSessions(d, I, t), PG!EndSessions(p, K, t))
<1> DEFINE H  == ToEnd(d, I)
           J  == {d.sessions[h].id : h \in H}
           se == End(d.sessions, H, t)
           ts == Table(se, PG!SessionNulls)
           D  == Queued(p.deliveries, {"op"} \X J, t)
           d0 == [d EXCEPT !.sessions = se]
           p0 == [p EXCEPT !.sessions = ts, !.deliveries = D]
           A  == Under(d.apps, J)
           d1 == EndAppSessions(d0, A, t)
           B  == {a \in PG!OpenRows(p0.apps) : p0.apps[a].op \in J}
           p1 == PG!EndAppSessions(p0, B, t)
           tr == Revoke(d1.txns, Under(d1.txns, J))
           tt == Table(tr, PG!TransactionNulls)
           co == Revoke(d1.codes, Under(d1.codes, J))
           tc == Table(co, PG!CodeNulls)
<1>1. H = {h \in PG!OpenRows(p.sessions) : p.sessions[h].id \in K}
  <2>1. \A h \in DOMAIN d.sessions : p.sessions[h].id = d.sessions[h].id
    BY Shown
  <2> QED BY <2>1, OpenShown DEF ToEnd
<1>2. J = {p.sessions[h].id : h \in H}
  <2>1. \A h \in H : p.sessions[h].id = d.sessions[h].id
    BY Shown DEF ToEnd
  <2> HIDE DEF H
  <2> QED BY <2>1
<1>3. \A h \in H : h \in DOMAIN d.sessions /\ d.sessions[h].ended = 0
  BY DEF ToEnd
<1>4. Owed(d0, D)
  <2> HIDE DEF H
  <2> QED BY <1>3, OwedSessions DEF Shows
<1>5. PG!End(p.sessions, H, t) = ts
  BY SameMaps, TableEnd DEF Shows, PG!SessionNulls
<1>6. Shows(d0, p0)
  <2> HIDE DEF D, se
  <2> QED BY <1>4, ShowsSessions
<1>7. [PG!Queue(p, {"op"} \X J, t) EXCEPT !.sessions = PG!End(p.sessions, H, t)] = p0
  <2>1. PG!Queue(p, {"op"} \X J, t) = [p EXCEPT !.deliveries = D]
    BY DEF PG!Queue, Queued
  <2> HIDE DEF D, ts
  <2> QED BY <2>1, <1>5
<1>8. PG!EndSessions(p, K, t) = PG!EndSessionGrants(p0, J, t)
  <2> HIDE DEF H, p0, J
  <2> QED BY <1>1, <1>2, <1>7 DEF PG!EndSessions
<1>9. StoreOK(d0) /\ Registered(d0) /\ d0.apps = d.apps
  <2>1. IsMap(se, Id \ {0}, Session)
    BY EndMap, EndRecords DEF StoreOK
  <2> HIDE DEF se
  <2> QED BY <2>1, StoreFields DEF FieldsOf, StoreOK, Registered
<1> HIDE DEF p0
<1>10. \A a \in DOMAIN d0.apps : d0.apps[a].ended = 0 => (a \in A <=> a \in B)
  <2> HIDE DEF d0
  <2>1. PG!OpenRows(p0.apps) = {a \in DOMAIN d0.apps : d0.apps[a].ended = 0}
    BY <1>6, <1>9, OpenShown
  <2>2. \A a \in DOMAIN d0.apps : p0.apps[a].op = d0.apps[a].op
    BY <1>6, <1>9, Shown
  <2> HIDE DEF J
  <2> QED BY <2>1, <2>2, <1>9 DEF Under
<1> HIDE DEF d0, B, A
<1>11. Shows(d1, p1)
  BY <1>6, <1>9, <1>10, ShowsEndApps
<1>12. StoreOK(d1)
  BY <1>9, EndAppSessionsSound
<1> HIDE DEF d1, p1, J
<1>13. /\ Under(d1.txns, J) = {x \in DOMAIN p1.txns : p1.txns[x].op \in J}
       /\ Under(d1.codes, J) = {x \in DOMAIN p1.codes : p1.codes[x].op \in J}
  <2>1. DOMAIN p1.txns = DOMAIN d1.txns /\ DOMAIN p1.codes = DOMAIN d1.codes
    BY <1>11, <1>12, Shown
  <2>2. \A x \in DOMAIN d1.txns : p1.txns[x].op = d1.txns[x].op
    BY <1>11, <1>12, Shown
  <2>3. \A x \in DOMAIN d1.codes : p1.codes[x].op = d1.codes[x].op
    BY <1>11, <1>12, Shown
  <2> QED BY <2>1, <2>2, <2>3 DEF Under
<1>14. /\ PG!Revoke(p1.txns, Under(d1.txns, J)) = tt
       /\ PG!Revoke(p1.codes, Under(d1.codes, J)) = tc
  BY <1>11, SameMaps, TableRevoke DEF Shows, PG!CodeNulls, PG!TransactionNulls
<1>15. PG!EndSessionGrants(p0, J, t) = [p1 EXCEPT !.txns = tt, !.codes = tc]
  <2> HIDE DEF tt, tc
  <2> QED BY <1>13, <1>14 DEF PG!EndSessionGrants, p1, B
<1>16. Shows([[d1 EXCEPT !.txns = tr] EXCEPT !.codes = co],
             [[p1 EXCEPT !.txns = tt] EXCEPT !.codes = tc])
  <2> HIDE DEF tr, co
  <2> QED BY <1>11, ShowsPut
<1>19. d1 = AppsEnded(d, I, t) /\ J = EndingIDs(d, I)
  BY DEF AppsEnded, SessionsEnded, EndingIDs, d1, d0, A, J
<1>20. FieldsOf(d)
  BY DEF Shows
<1>17. EndSessions(d, I, t) = [[d1 EXCEPT !.txns = tr] EXCEPT !.codes = co]
  BY <1>19, <1>20, EndSessionSteps
<1>18. [p1 EXCEPT !.txns = tt, !.codes = tc] = [[p1 EXCEPT !.txns = tt] EXCEPT !.codes = tc]
  <2> HIDE DEF tt, tc
  <2> QED OBVIOUS
<1> QED BY <1>8, <1>15, <1>16, <1>17, <1>18

(***************************************************************************)
(* A store on which every method does in PostgreSQL what it does to the    *)
(* file: ready.                                                            *)
(***************************************************************************)
\* What a store that is ready has.
LEMMA ReadyHas ==
    ASSUME NEW d, Ready(d)
    PROVE  /\ Sound(d) /\ StoreOK(d) /\ Shape(d) /\ Links(d)
           /\ OneID(d) /\ Registered(d) /\ Tied(d)
<1>1. Sound(d) /\ Links(d) /\ OneID(d) /\ Registered(d) BY DEF Ready
<1>2. StoreOK(d) BY <1>1 DEF Sound
<1>3. Shape(d) BY <1>1, SoundShape
<1>4. Tied(d) BY <1>1 DEF Links, TokenLinks, Tied
<1> QED BY <1>1, <1>2, <1>3, <1>4

\* A method that only ends, revokes and drops records leaves the store ready.
LEMMA ReadyFades ==
    ASSUME NEW d, Ready(d), NEW e, Fades(d, e), Settles(d, e),
           \A a \in DOMAIN e.apps : e.apps[a].ended = 0 => e.apps[a].client \in DOMAIN e.clients
    PROVE  Ready(e)
<1>1. Sound(d) /\ StoreOK(d) /\ Links(d) /\ OneID(d) /\ Registered(d)
      /\ AppsDrawn(d) /\ AppTokens(d)
  BY DEF Ready, Sound
<1>2. Sound(e) /\ Links(e) /\ e.next = d.next /\ OnlyCuts(d.tokens, e.tokens)
      /\ DOMAIN e.apps \subseteq DOMAIN d.apps
  BY <1>1 DEF Fades, EndsOnce
<1>3. /\ DOMAIN e.sessions \subseteq DOMAIN d.sessions
      /\ \A h \in DOMAIN e.sessions : e.sessions[h].id = d.sessions[h].id
      /\ \A a \in DOMAIN e.apps : e.apps[a].ended = 0 => e.apps[a] = d.apps[a]
  BY DEF Settles, OnlyEnds
<1>4. OneID(e) BY <1>1, <1>3 DEF OneID
<1>5. Registered(e)
  <2> SUFFICES ASSUME NEW a \in DOMAIN e.apps, e.apps[a].ended = 0
               PROVE  e.apps[a].client \in DOMAIN e.clients /\ e.apps[a].op # 0
      BY DEF Registered
  <2>1. a \in DOMAIN d.apps /\ e.apps[a] = d.apps[a] BY <1>2, <1>3
  <2> QED BY <2>1, <1>1 DEF Registered
<1>6. AppsDrawn(e) BY <1>1, <1>2 DEF AppsDrawn
<1>7. AppTokens(e)
  <2>1. \A k \in DOMAIN e.tokens :
            /\ k \in DOMAIN d.tokens
            /\ e.tokens[k].op = d.tokens[k].op /\ e.tokens[k].app = d.tokens[k].app
            /\ e.tokens[k].family = d.tokens[k].family
    BY <1>1, <1>2, CutFields
  <2> QED BY <2>1, <1>1 DEF AppTokens
<1> QED BY <1>2, <1>4, <1>5, <1>6, <1>7 DEF Ready

\* A store that lost records and settled its sessions is ready still,
LEMMA ReadyWithers ==
    ASSUME NEW d, Ready(d), NEW e, Withers(d, e), Settles(d, e)
    PROVE  Ready(e)
<1>1. Fades(d, e) /\ e.clients = d.clients BY DEF Withers, Steady
<1>2. \A a \in DOMAIN e.apps : e.apps[a].ended = 0 => a \in DOMAIN d.apps /\ e.apps[a] = d.apps[a]
  BY DEF Settles, OnlyEnds
<1>3. Registered(d) BY DEF Ready
<1>4. \A a \in DOMAIN e.apps : e.apps[a].ended = 0 => e.apps[a].client \in DOMAIN e.clients
  BY <1>1, <1>2, <1>3 DEF Registered
<1> QED BY <1>1, <1>4, ReadyFades

\* Each method that only ends, revokes and drops leaves a ready store ready.
LEMMA CutsReady ==
    ASSUME NEW d, Ready(d)
    PROVE  /\ \A x : Ready(RevokeFamilies(d, x))
           /\ \A x : Ready(RevokeRefreshFamily(d, x))
           /\ \A x : Ready(RevokeAccessToken(d, x))
           /\ \A x : Ready(RevokeAccessTokensForUser(d, x))
           /\ \A x : Ready(RevokeAccessTokensForClient(d, x))
           /\ \A x : Ready(RevokeAccessTokensForCode(d, x))
           /\ \A x : Ready([d EXCEPT !.tokens = Revoke(d.tokens, x)])
           /\ \A x : Ready([d EXCEPT !.txns = Revoke(d.txns, x)])
           /\ \A t \in Nat \ {0} : /\ \A A : Ready(EndAppSessions(d, A, t))
                                   /\ \A I : Ready(EndSessions(d, I, t))
                                   /\ \A u : Ready(DeleteUserSessions(d, u, t))
                                   /\ \A c : Ready(InvalidateClientGrants(d, c, t))
                                   /\ \A u, c : Ready(Unconsent(d, u, c, t))
                                   /\ Ready(PruneLogoutState(d, t))
                                   /\ Ready(PruneOIDCState(d, t))
<1>0. Sound(d) /\ Shape(d) BY ReadyHas
<1>1. \A x : Ready(RevokeFamilies(d, x))
  BY <1>0, RevokeFamiliesWithers, RevocationSettles, ReadyWithers
<1>2. \A x : Ready(RevokeRefreshFamily(d, x))
  BY <1>0, RevocationWithers, RevocationSettles, ReadyWithers
<1>3. \A x : Ready(RevokeAccessToken(d, x))
  BY <1>0, RevocationWithers, RevocationSettles, ReadyWithers
<1>4. \A x : Ready(RevokeAccessTokensForUser(d, x))
  BY <1>0, RevocationWithers, RevocationSettles, ReadyWithers
<1>5. \A x : Ready(RevokeAccessTokensForClient(d, x))
  BY <1>0, RevocationWithers, RevocationSettles, ReadyWithers
<1>6. \A x : Ready(RevokeAccessTokensForCode(d, x))
  BY <1>0, RevocationWithers, RevocationSettles, ReadyWithers
<1>7. \A x : Ready([d EXCEPT !.tokens = Revoke(d.tokens, x)])
  BY <1>0, RevokeTokensWithers, OtherField, ReadyWithers
<1>8. \A x : Ready([d EXCEPT !.txns = Revoke(d.txns, x)])
  BY <1>0, RevokeTxnsWithers, OtherField, ReadyWithers
<1>9. ASSUME NEW t \in Nat \ {0}
      PROVE  /\ \A A : Ready(EndAppSessions(d, A, t))
             /\ \A I : Ready(EndSessions(d, I, t))
             /\ \A u : Ready(DeleteUserSessions(d, u, t))
             /\ \A c : Ready(InvalidateClientGrants(d, c, t))
             /\ \A u, c : Ready(Unconsent(d, u, c, t))
             /\ Ready(PruneLogoutState(d, t))
             /\ Ready(PruneOIDCState(d, t))
  <2>1. \A A : Ready(EndAppSessions(d, A, t))
    BY <1>0, EndAppSessionsWithers, EndAppSessionsSettles, ReadyWithers
  <2>2. \A I : Ready(EndSessions(d, I, t))
    BY <1>0, EndSessionsWithers, EndSessionsSettles, ReadyWithers
  <2>3. \A u : Ready(DeleteUserSessions(d, u, t))
    BY <1>0, DeleteUserSessionsWithers, DeleteUserSessionsSettles, ReadyWithers
  <2>4. \A c : Ready(InvalidateClientGrants(d, c, t))
    BY <1>0, InvalidateClientGrantsWithers, InvalidateClientGrantsSettles, ReadyWithers
  <2>5. ASSUME NEW u, NEW c PROVE Ready(Unconsent(d, u, c, t))
    <3> DEFINE d1 == EndAppSessions(d, AppSessionsOf(d, u, c), t)
               F  == {f \in DOMAIN d1.families :
                          d1.families[f].user = u /\ d1.families[f].client = c}
    <3>1. Ready(d1) BY <2>1
    <3>2. Sound(d1) /\ Shape(d1) BY <3>1, ReadyHas
    <3> HIDE DEF d1
    <3>3. Ready(RevokeFamilies(d1, F))
      BY <3>1, <3>2, RevokeFamiliesWithers, RevocationSettles, ReadyWithers
    <3> QED BY <3>3 DEF Unconsent, d1
  <2>6. Ready(PruneLogoutState(d, t))
    BY <1>0, PruneLogoutStateWithers, PruningSettles, ReadyWithers
  <2>7. Ready(PruneOIDCState(d, t))
    BY <1>0, PruneOIDCStateWithers, PruneOIDCStateSettles, ReadyWithers
  <2> QED BY <2>1, <2>2, <2>3, <2>4, <2>5, <2>6, <2>7
<1> QED BY <1>1, <1>2, <1>3, <1>4, <1>5, <1>6, <1>7, <1>8, <1>9

\* the same records, but for the accounts and consents
ReadyAlike(d, e) ==
    /\ e.clients = d.clients /\ e.sessions = d.sessions /\ e.apps = d.apps
    /\ e.codes = d.codes /\ e.tokens = d.tokens /\ e.families = d.families
    /\ e.refresh = d.refresh /\ e.next = d.next

\* and so is one with the same sessions and grants.
LEMMA ReadySame ==
    ASSUME NEW d, Ready(d), NEW e, Sound(e), ReadyAlike(d, e)
    PROVE  Ready(e)
<1>1. Links(e) BY SameLinks DEF Ready, ReadyAlike
<1>2. OneID(e) /\ Registered(e) /\ AppsDrawn(e) /\ AppTokens(e)
  BY DEF Ready, ReadyAlike, OneID, Registered, AppsDrawn, AppTokens
<1> QED BY <1>1, <1>2 DEF Ready

\* A client whose grants were invalidated has no open app session.
LEMMA InvalidatedApps ==
    ASSUME NEW d, Sound(d), NEW c, NEW t \in Nat \ {0}
    PROVE  LET e == InvalidateClientGrants(d, c, t) IN
           \A a \in DOMAIN e.apps : e.apps[a].ended = 0 => e.apps[a].client # c
<1> DEFINE A  == {a \in DOMAIN d.apps : d.apps[a].client = c}
           d1 == EndAppSessions(d, A, t)
           d2 == RevokeAccessTokensForClient(d1, c)
           e  == InvalidateClientGrants(d, c, t)
<1>1. Sound(d1) BY EndAppSessionsSound DEF Sound
<1>2. \A a \in DOMAIN d1.apps :
          d1.apps[a].ended = 0 => a \in DOMAIN d.apps /\ a \notin A /\ d.apps[a] = d1.apps[a]
  BY EndAppSessionsSound DEF Sound
<1>3. Sound(d2) /\ d2.apps = d1.apps
  <2> HIDE DEF d1
  <2> QED BY <1>1, RevocationWithers DEF Withers, Fades
<1>4. e.apps = d2.apps
  <2>1. e = [d2 EXCEPT
            !.codes = Drop(d2.codes, {k \in DOMAIN d2.codes : d2.codes[k].client = c}),
            !.txns = Drop(d2.txns, {k \in DOMAIN d2.txns : d2.txns[k].client = c}),
            !.consents = Drop(d2.consents, {w \in DOMAIN d2.consents : w[2] = c})]
    BY DEF InvalidateClientGrants
  <2>2. FieldsOf(d2) BY <1>3, StoreFields DEF Sound
  <2> HIDE DEF d2, e
  <2> QED BY <2>1, <2>2 DEF FieldsOf
<1>5. \A a \in DOMAIN d1.apps : d1.apps[a].ended = 0 => d1.apps[a].client # c
  BY <1>2
<1> HIDE DEF d1, d2, e
<1>6. \A a \in DOMAIN e.apps : e.apps[a].ended = 0 => e.apps[a].client # c
  BY <1>3, <1>4, <1>5
<1> QED BY <1>6 DEF e

\* So do the changes of accounts, clients, policies, entitlements and consents.
LEMMA ChangesReady ==
    ASSUME NEW d, Ready(d), NEW t \in Nat \ {0}
    PROVE  /\ \A u \in Users, new \in User : Ready(SaveUser(d, u, new, t))
           /\ \A u \in Users : Ready(DeleteUser(d, u, t))
           /\ \A c \in DOMAIN d.clients : Ready(SaveClient(d, c, t))
           /\ \A c \in Clients : Ready(DeleteClient(d, c, t))
           /\ \A c \in Clients, p \in SUBSET PolicyGrants : Ready(SaveOAuthPolicy(d, c, p, t))
           /\ \A u \in Users, a \in BOOLEAN : Ready(SaveOAuthAccess(d, u, a, t))
           /\ \A u \in Users, c \in Clients, new \in Consent : Ready(SaveConsent(d, u, c, new, t))
<1>0. Sound(d) /\ Shape(d) /\ Registered(d) BY ReadyHas
<1>00. ASSUME NEW e, Settles(d, e), DOMAIN d.clients \subseteq DOMAIN e.clients
       PROVE  \A a \in DOMAIN e.apps : e.apps[a].ended = 0 => e.apps[a].client \in DOMAIN e.clients
  BY <1>0, <1>00 DEF Registered, Settles, OnlyEnds
<1>1. \A u \in Users, new \in User : Ready(SaveUser(d, u, new, t))
  <2> TAKE u \in Users, new \in User
  <2> DEFINE e == SaveUser(d, u, new, t)
  <2>1. Fades(d, e) /\ e.clients = d.clients BY <1>0, SaveUserFades
  <2>2. Settles(d, e) BY <1>0, UsersSettle
  <2> HIDE DEF e
  <2>3. \A a \in DOMAIN e.apps : e.apps[a].ended = 0 => e.apps[a].client \in DOMAIN e.clients
    BY <2>1, <2>2, <1>00
  <2>4. Ready(e) BY <2>1, <2>2, <2>3, ReadyFades
  <2> QED BY <2>4 DEF e
<1>2. \A u \in Users : Ready(DeleteUser(d, u, t))
  <2> TAKE u \in Users
  <2> DEFINE e == DeleteUser(d, u, t)
  <2>1. Fades(d, e) /\ e.clients = d.clients BY <1>0, DeleteUserFades
  <2>2. Settles(d, e) BY <1>0, UsersSettle
  <2> HIDE DEF e
  <2>3. \A a \in DOMAIN e.apps : e.apps[a].ended = 0 => e.apps[a].client \in DOMAIN e.clients
    BY <2>1, <2>2, <1>00
  <2>4. Ready(e) BY <2>1, <2>2, <2>3, ReadyFades
  <2> QED BY <2>4 DEF e
<1>3. \A c \in DOMAIN d.clients : Ready(SaveClient(d, c, t))
  <2> TAKE c \in DOMAIN d.clients
  <2> DEFINE e == SaveClient(d, c, t)
  <2>0. Fades(d, e) /\ e.clients = Put(d.clients, c, [rev |-> d.clients[c].rev + 1])
    BY <1>0, SaveClientFades
  <2>1. Fades(d, e) /\ DOMAIN d.clients \subseteq DOMAIN e.clients
    BY <2>0 DEF Put
  <2>2. Settles(d, e) BY <1>0, ClientsSettle
  <2> HIDE DEF e
  <2>3. \A a \in DOMAIN e.apps : e.apps[a].ended = 0 => e.apps[a].client \in DOMAIN e.clients
    BY <2>1, <2>2, <1>00
  <2>4. Ready(e) BY <2>1, <2>2, <2>3, ReadyFades
  <2> QED BY <2>4 DEF e
<1>5. \A c \in Clients, p \in SUBSET PolicyGrants : Ready(SaveOAuthPolicy(d, c, p, t))
  <2> TAKE c \in Clients, p \in SUBSET PolicyGrants
  <2> DEFINE e == SaveOAuthPolicy(d, c, p, t)
  <2>1. Fades(d, e) /\ e.clients = d.clients BY <1>0, SaveOAuthPolicyFades
  <2>2. Settles(d, e) BY <1>0, ClientsSettle
  <2> HIDE DEF e
  <2>3. \A a \in DOMAIN e.apps : e.apps[a].ended = 0 => e.apps[a].client \in DOMAIN e.clients
    BY <2>1, <2>2, <1>00
  <2>4. Ready(e) BY <2>1, <2>2, <2>3, ReadyFades
  <2> QED BY <2>4 DEF e
<1>6. \A u \in Users, on \in BOOLEAN : Ready(SaveOAuthAccess(d, u, on, t))
  <2> TAKE u \in Users, on \in BOOLEAN
  <2> DEFINE e == SaveOAuthAccess(d, u, on, t)
  <2>1. Fades(d, e) /\ e.clients = d.clients BY <1>0, SaveOAuthAccessFades
  <2>2. Settles(d, e) BY <1>0, SaveOAuthAccessSettles
  <2> HIDE DEF e
  <2>3. \A a \in DOMAIN e.apps : e.apps[a].ended = 0 => e.apps[a].client \in DOMAIN e.clients
    BY <2>1, <2>2, <1>00
  <2>4. Ready(e) BY <2>1, <2>2, <2>3, ReadyFades
  <2> QED BY <2>4 DEF e
<1>7. \A c \in Clients : Ready(DeleteClient(d, c, t))
  <2> TAKE c \in Clients
  <2> DEFINE d0 == [d EXCEPT !.policy = [d.policy EXCEPT ![c] = {}]]
             d1 == InvalidateClientGrants(d0, c, t)
             e  == DeleteClient(d, c, t)
  <2>1. Fades(d, e) /\ e.clients = Drop(d.clients, {c}) BY <1>0, DeleteClientFades
  <2>2. Settles(d, e) BY <1>0, ClientsSettle
  <2>3. \A a \in DOMAIN e.apps : e.apps[a].ended = 0 => e.apps[a].client # c
    <3>1. e = [d1 EXCEPT !.clients = Drop(d1.clients, {c})] BY DEF DeleteClient
    <3>2. FieldsOf(d) BY <1>0, StoreFields DEF Sound
    <3>3. d0.apps = d.apps BY <3>2 DEF FieldsOf
    <3>4. Sound(d0)
      <4>1. d.policy \in [Clients -> SUBSET PolicyGrants] BY <1>0 DEF Sound, StoreOK
      <4>2. [d.policy EXCEPT ![c] = {}] \in [Clients -> SUBSET PolicyGrants] BY <4>1
      <4> QED BY <1>0, <4>2, SetPolicy
    <3>5. \A a \in DOMAIN d1.apps : d1.apps[a].ended = 0 => d1.apps[a].client # c
      BY <3>4, InvalidatedApps
    <3>6. FieldsOf(d1)
      <4> HIDE DEF d0
      <4> QED BY <3>4, InvalidateClientGrantsSound, StoreFields DEF Sound
    <3>7. e.apps = d1.apps
      <4> HIDE DEF d1, e
      <4> QED BY <3>1, <3>6 DEF FieldsOf
    <3> QED BY <3>5, <3>7
  <2>4. \A a \in DOMAIN e.apps : e.apps[a].ended = 0 => e.apps[a].client \in DOMAIN e.clients
    <3> HIDE DEF e
    <3>1. DOMAIN e.clients = DOMAIN d.clients \ {c} BY <2>1 DEF Drop
    <3> QED BY <3>1, <2>2, <2>3, <1>0 DEF Registered, Settles, OnlyEnds
  <2> HIDE DEF e
  <2>5. Ready(e) BY <2>1, <2>2, <2>4, ReadyFades
  <2> QED BY <2>5 DEF e
<1>8. \A u \in Users, c \in Clients, new \in Consent : Ready(SaveConsent(d, u, c, new, t))
  <2> TAKE u \in Users, c \in Clients, new \in Consent
  <2> DEFINE e == IF new.revoked THEN Unconsent(d, u, c, t) ELSE d
             w == Put(e.consents, <<u, c>>, new)
             g == [e EXCEPT !.consents = w]
  <2>1. SaveConsent(d, u, c, new, t) = g BY SaveConsentSaves
  <2>2. Ready(e) BY CutsReady
  <2>3. Sound(g) BY <2>1, <1>0, SaveConsentSound
  <2> HIDE DEF e, w
  <2>4. FieldsOf(e) BY <2>2, ReadyHas, StoreFields
  <2>5. ReadyAlike(e, g) BY <2>4 DEF FieldsOf, ReadyAlike
  <2>6. Ready(g) BY <2>2, <2>3, <2>5, ReadySame
  <2> QED BY <2>1, <2>6
<1> QED BY <1>1, <1>2, <1>3, <1>5, <1>6, <1>7, <1>8

(***************************************************************************)
(* Cascades of an account and of a client.                                 *)
(***************************************************************************)
\* Dropping codes, requests and consents.
LEMMA ShowsDrops ==
    ASSUME NEW d, NEW p, Shows(d, p), NEW K, NEW X, NEW W
    PROVE  Shows([d EXCEPT !.codes = Drop(d.codes, K), !.txns = Drop(d.txns, X),
                           !.consents = Drop(d.consents, W)],
                 [p EXCEPT !.codes = PG!Drop(p.codes, K), !.txns = PG!Drop(p.txns, X),
                           !.consents = PG!Drop(p.consents, W)])
<1> DEFINE co == Drop(d.codes, K)
           tr == Drop(d.txns, X)
           cs == Drop(d.consents, W)
           tc == Table(co, PG!CodeNulls)
           tt == Table(tr, PG!TransactionNulls)
<1>1. PG!Drop(p.codes, K) = tc /\ PG!Drop(p.txns, X) = tt /\ PG!Drop(p.consents, W) = cs
  <2>1. PG!Drop(p.codes, K) = tc BY TableDrop DEF Shows
  <2>2. PG!Drop(p.txns, X) = tt BY TableDrop DEF Shows
  <2>3. PG!Drop(p.consents, W) = cs BY SameMaps DEF Shows
  <2> QED BY <2>1, <2>2, <2>3
<1> HIDE DEF co, tr, cs, tc, tt
<1>2. Shows([[[d EXCEPT !.codes = co] EXCEPT !.txns = tr] EXCEPT !.consents = cs],
            [[[p EXCEPT !.codes = tc] EXCEPT !.txns = tt] EXCEPT !.consents = cs])
  <2>1. Shows([d EXCEPT !.codes = co], [p EXCEPT !.codes = tc]) BY ShowsPut DEF tc
  <2>2. Shows([[d EXCEPT !.codes = co] EXCEPT !.txns = tr],
              [[p EXCEPT !.codes = tc] EXCEPT !.txns = tt])
    BY <2>1, ShowsPut DEF tt
  <2> QED BY <2>2, ShowsPut
<1>3. /\ [d EXCEPT !.codes = co, !.txns = tr, !.consents = cs]
           = [[[d EXCEPT !.codes = co] EXCEPT !.txns = tr] EXCEPT !.consents = cs]
      /\ [p EXCEPT !.codes = tc, !.txns = tt, !.consents = cs]
           = [[[p EXCEPT !.codes = tc] EXCEPT !.txns = tt] EXCEPT !.consents = cs]
  OBVIOUS
<1> QED BY <1>1, <1>2, <1>3 DEF co, tr, cs

\* codes K, requests X and consents W dropped
Without(d, K, X, W) ==
    [d EXCEPT !.codes = Drop(d.codes, K), !.txns = Drop(d.txns, X),
              !.consents = Drop(d.consents, W)]

\* It keeps the sessions as they are.
LEMMA WithoutKeeps ==
    ASSUME NEW d, Sound(d), NEW K, NEW X, NEW W
    PROVE  LET e == Without(d, K, X, W) IN
           /\ Sound(e) /\ e.sessions = d.sessions /\ e.apps = d.apps /\ e.clients = d.clients
<1> DEFINE co == Drop(d.codes, K)
           tr == Drop(d.txns, X)
           cs == Drop(d.consents, W)
           e  == [d EXCEPT !.codes = co, !.txns = tr, !.consents = cs]
<1>1. /\ IsMap(co, Id \ {0}, AuthorizationCode) /\ IsMap(tr, Id \ {0}, AuthzTransaction)
      /\ IsMap(cs, Users \X Clients, Consent)
  BY DropMap DEF Sound, StoreOK
<1>2. FieldsOf(d) BY StoreFields DEF Sound
<1>5. e = Without(d, K, X, W) BY DEF Without
<1> HIDE DEF co, tr, cs
<1>3. Sound(e) BY <1>1, SetCodesTxnsConsents
<1>4. e.sessions = d.sessions /\ e.apps = d.apps /\ e.clients = d.clients
  BY <1>2 DEF FieldsOf
<1> HIDE DEF e
<1> QED BY <1>3, <1>4, <1>5

\* DeleteUserSessions.
LEMMA ShowsDeleteUserSessions ==
    ASSUME NEW d, NEW p, Ready(d), Shows(d, p), NEW u, NEW t \in Nat \ {0}
    PROVE  Shows(DeleteUserSessions(d, u, t), PG!DeleteUserSessions(p, u, t))
<1> DEFINE d1 == RevokeAccessTokensForUser(d, u)
           p1 == PG!RevokeAccessTokensForUser(p, u)
           K  == {k \in DOMAIN d1.codes : d1.codes[k].user = u}
           X  == {x \in DOMAIN d1.txns : d1.txns[x].user = u}
           W  == {w \in DOMAIN d1.consents : w[1] = u}
           d2 == [d1 EXCEPT !.codes = Drop(d1.codes, K), !.txns = Drop(d1.txns, X),
                            !.consents = Drop(d1.consents, W)]
           p2 == [p1 EXCEPT !.codes = PG!Drop(p1.codes, K), !.txns = PG!Drop(p1.txns, X),
                            !.consents = PG!Drop(p1.consents, W)]
           I  == SessionsOf(d2, u)
           J  == {p2.sessions[h].id : h \in {g \in PG!OpenRows(p2.sessions) : p2.sessions[g].user = u}}
<1>1. Shows(d1, p1) /\ Ready(d1) BY ReadyHas, ShowsRevocation, CutsReady
<1> HIDE DEF d1, p1
<1>2. /\ K = {k \in DOMAIN p1.codes : p1.codes[k].user = u}
      /\ X = {x \in DOMAIN p1.txns : p1.txns[x].user = u}
      /\ W = {w \in DOMAIN p1.consents : w[1] = u}
  <2>1. StoreOK(d1) BY <1>1, ReadyHas
  <2>2. /\ DOMAIN p1.txns = DOMAIN d1.txns /\ DOMAIN p1.codes = DOMAIN d1.codes
        /\ p1.consents = d1.consents
    BY <1>1, <2>1, Shown DEF Shows
  <2>3. \A x \in DOMAIN d1.txns : p1.txns[x].user = d1.txns[x].user
    BY <1>1, <2>1, Shown
  <2>4. \A x \in DOMAIN d1.codes : p1.codes[x].user = d1.codes[x].user
    BY <1>1, <2>1, Shown
  <2> QED BY <2>2, <2>3, <2>4
<1>3. Shows(d2, p2) BY <1>1, ShowsDrops
<1>4. /\ Sound(d2) /\ Registered(d2) /\ OneID(d2)
  <2>1. Sound(d2) /\ d2.sessions = d1.sessions /\ d2.apps = d1.apps /\ d2.clients = d1.clients
    <3>1. Sound(d1) BY <1>1, ReadyHas
    <3>2. d2 = Without(d1, K, X, W) BY DEF Without
    <3> HIDE DEF d2, K, X, W
    <3> QED BY <3>1, <3>2, WithoutKeeps
  <2>2. Registered(d1) /\ OneID(d1) BY <1>1, ReadyHas
  <2> HIDE DEF d2
  <2> QED BY <2>1, <2>2 DEF Registered, OneID
<1>5. PG!DeleteUserSessions(p, u, t) = PG!EndSessions(p2, J, t)
  BY <1>2 DEF PG!DeleteUserSessions, p1
<1>6. DeleteUserSessions(d, u, t) = EndSessions(d2, I, t)
  BY DEF DeleteUserSessions, d1
<1> HIDE DEF d2, p2
<1>7. \A h \in DOMAIN d2.sessions :
          d2.sessions[h].ended = 0 => (d2.sessions[h].id \in I <=> d2.sessions[h].id \in J)
  <2> DEFINE O == {g \in DOMAIN d2.sessions : d2.sessions[g].ended = 0}
  <2>1. StoreOK(d2) BY <1>4 DEF Sound
  <2>2. PG!OpenRows(p2.sessions) = O BY <1>3, <2>1, OpenShown
  <2>3. \A g \in DOMAIN d2.sessions : /\ p2.sessions[g].id = d2.sessions[g].id
                                      /\ p2.sessions[g].user = d2.sessions[g].user
    BY <1>3, <2>1, Shown
  <2>4. J = {d2.sessions[h].id : h \in {g \in O : d2.sessions[g].user = u}}
    BY <2>2, <2>3
  <2>5. I = {d2.sessions[h].id : h \in {g \in DOMAIN d2.sessions : d2.sessions[g].user = u}}
    BY DEF SessionsOf
  <2>6. \A g, h \in DOMAIN d2.sessions : d2.sessions[g].id = d2.sessions[h].id => g = h
    BY <1>4 DEF OneID
  <2> HIDE DEF I, J
  <2> QED BY <2>4, <2>5, <2>6
<1> HIDE DEF I, J
<1>8. Shows(EndSessions(d2, I, t), PG!EndSessions(p2, J, t))
  BY <1>3, <1>4, <1>7, ShowsEndSessions DEF Sound
<1> QED BY <1>5, <1>6, <1>8

\* InvalidateClientGrants.
LEMMA ShowsInvalidate ==
    ASSUME NEW d, NEW p, Ready(d), Shows(d, p), NEW c, NEW t \in Nat \ {0}
    PROVE  Shows(InvalidateClientGrants(d, c, t), PG!InvalidateClientGrants(p, c, t))
<1> DEFINE A  == {a \in DOMAIN d.apps : d.apps[a].client = c}
           B  == {a \in PG!OpenRows(p.apps) : p.apps[a].client = c}
           d1 == EndAppSessions(d, A, t)
           p1 == PG!EndAppSessions(p, B, t)
           d2 == RevokeAccessTokensForClient(d1, c)
           p2 == PG!RevokeAccessTokensForClient(p1, c)
           K  == {k \in DOMAIN d2.codes : d2.codes[k].client = c}
           X  == {x \in DOMAIN d2.txns : d2.txns[x].client = c}
           W  == {w \in DOMAIN d2.consents : w[2] = c}
           d3 == [d2 EXCEPT !.codes = Drop(d2.codes, K), !.txns = Drop(d2.txns, X),
                            !.consents = Drop(d2.consents, W)]
           p3 == [p2 EXCEPT !.codes = PG!Drop(p2.codes, K), !.txns = PG!Drop(p2.txns, X),
                            !.consents = PG!Drop(p2.consents, W)]
<1>0. StoreOK(d) /\ Registered(d) BY ReadyHas
<1>1. \A a \in DOMAIN d.apps : d.apps[a].ended = 0 => (a \in A <=> a \in B)
  <2>1. \A a \in DOMAIN d.apps : p.apps[a].client = d.apps[a].client BY <1>0, Shown
  <2> QED BY <2>1, <1>0, OpenShown
<1>2. Shows(d1, p1) /\ Ready(d1)
  <2> HIDE DEF A, B
  <2> QED BY <1>0, <1>1, ShowsEndApps, CutsReady
<1> HIDE DEF d1, p1
<1>3. Shows(d2, p2) /\ Ready(d2) BY <1>2, ReadyHas, ShowsRevocation, CutsReady
<1> HIDE DEF d2, p2
<1>4. /\ K = {k \in DOMAIN p2.codes : p2.codes[k].client = c}
      /\ X = {x \in DOMAIN p2.txns : p2.txns[x].client = c}
      /\ W = {w \in DOMAIN p2.consents : w[2] = c}
  <2>1. StoreOK(d2) BY <1>3, ReadyHas
  <2>2. /\ DOMAIN p2.txns = DOMAIN d2.txns /\ DOMAIN p2.codes = DOMAIN d2.codes
        /\ p2.consents = d2.consents
    BY <1>3, <2>1, Shown DEF Shows
  <2>3. \A x \in DOMAIN d2.txns : p2.txns[x].client = d2.txns[x].client
    BY <1>3, <2>1, Shown
  <2>4. \A x \in DOMAIN d2.codes : p2.codes[x].client = d2.codes[x].client
    BY <1>3, <2>1, Shown
  <2> QED BY <2>2, <2>3, <2>4
<1>5. Shows(d3, p3) BY <1>3, ShowsDrops
<1>6. PG!InvalidateClientGrants(p, c, t) = p3
  BY <1>4 DEF PG!InvalidateClientGrants, p2, p1
<1>7. InvalidateClientGrants(d, c, t) = d3
  BY DEF InvalidateClientGrants, d2, d1
<1> QED BY <1>5, <1>6, <1>7

(***************************************************************************)
(* The stores differ in when an account or a client record is written: the *)
(* file store after the cascade, the others before or after.  A cascade    *)
(* does not read it.                                                       *)
(***************************************************************************)
\* the same sessions and grants
Alike(d, e) ==
    /\ FieldsOf(d) /\ FieldsOf(e)
    /\ e.sessions = d.sessions /\ e.apps = d.apps /\ e.txns = d.txns
    /\ e.codes = d.codes /\ e.tokens = d.tokens /\ e.families = d.families
    /\ e.refresh = d.refresh /\ e.consents = d.consents /\ e.next = d.next

\* Changing one field the same way leaves the stores alike.
LEMMA AlikeOne ==
    ASSUME NEW d, NEW e, Alike(d, e), NEW x
    PROVE  /\ Alike([d EXCEPT !.sessions = x], [e EXCEPT !.sessions = x])
           /\ Alike([d EXCEPT !.apps = x], [e EXCEPT !.apps = x])
           /\ Alike([d EXCEPT !.txns = x], [e EXCEPT !.txns = x])
           /\ Alike([d EXCEPT !.codes = x], [e EXCEPT !.codes = x])
           /\ Alike([d EXCEPT !.tokens = x], [e EXCEPT !.tokens = x])
           /\ Alike([d EXCEPT !.families = x], [e EXCEPT !.families = x])
           /\ Alike([d EXCEPT !.consents = x], [e EXCEPT !.consents = x])
<1>1. Alike([d EXCEPT !.sessions = x], [e EXCEPT !.sessions = x]) BY DEF Alike, FieldsOf
<1>2. Alike([d EXCEPT !.apps = x], [e EXCEPT !.apps = x]) BY DEF Alike, FieldsOf
<1>3. Alike([d EXCEPT !.txns = x], [e EXCEPT !.txns = x]) BY DEF Alike, FieldsOf
<1>4. Alike([d EXCEPT !.codes = x], [e EXCEPT !.codes = x]) BY DEF Alike, FieldsOf
<1>5. Alike([d EXCEPT !.tokens = x], [e EXCEPT !.tokens = x]) BY DEF Alike, FieldsOf
<1>6. Alike([d EXCEPT !.families = x], [e EXCEPT !.families = x]) BY DEF Alike, FieldsOf
<1>7. Alike([d EXCEPT !.consents = x], [e EXCEPT !.consents = x]) BY DEF Alike, FieldsOf
<1> QED BY <1>1, <1>2, <1>3, <1>4, <1>5, <1>6, <1>7

\* So does revoking families and tokens, and dropping codes, requests and consents,
LEMMA AlikeGrants ==
    ASSUME NEW d, NEW e, Alike(d, e)
    PROVE  /\ \A F : Alike(RevokeFamilies(d, F), RevokeFamilies(e, F))
           /\ \A K : Alike([d EXCEPT !.tokens = Revoke(d.tokens, K)],
                           [e EXCEPT !.tokens = Revoke(e.tokens, K)])
           /\ \A K, X, W : Alike(Without(d, K, X, W), Without(e, K, X, W))
<1>1. ASSUME NEW F PROVE Alike(RevokeFamilies(d, F), RevokeFamilies(e, F))
  <2> DEFINE fa == Revoke(d.families, F)
             to == Revoke(d.tokens, {k \in DOMAIN d.tokens : d.tokens[k].family \in F \cap DOMAIN d.families})
  <2>1. /\ RevokeFamilies(d, F) = [d EXCEPT !.families = fa, !.tokens = to]
        /\ RevokeFamilies(e, F) = [e EXCEPT !.families = fa, !.tokens = to]
    BY DEF RevokeFamilies, Alike
  <2> HIDE DEF fa, to
  <2>2. Alike([[d EXCEPT !.families = fa] EXCEPT !.tokens = to],
              [[e EXCEPT !.families = fa] EXCEPT !.tokens = to])
    <3>1. Alike([d EXCEPT !.families = fa], [e EXCEPT !.families = fa]) BY AlikeOne
    <3> QED BY <3>1, AlikeOne
  <2>3. /\ [d EXCEPT !.families = fa, !.tokens = to] = [[d EXCEPT !.families = fa] EXCEPT !.tokens = to]
        /\ [e EXCEPT !.families = fa, !.tokens = to] = [[e EXCEPT !.families = fa] EXCEPT !.tokens = to]
    OBVIOUS
  <2> QED BY <2>1, <2>2, <2>3
<1>2. ASSUME NEW K
      PROVE  Alike([d EXCEPT !.tokens = Revoke(d.tokens, K)], [e EXCEPT !.tokens = Revoke(e.tokens, K)])
  <2>1. e.tokens = d.tokens BY DEF Alike
  <2> QED BY <2>1, AlikeOne
<1>3. ASSUME NEW K, NEW X, NEW W PROVE Alike(Without(d, K, X, W), Without(e, K, X, W))
  <2> DEFINE co == Drop(d.codes, K)
             tr == Drop(d.txns, X)
             cs == Drop(d.consents, W)
  <2>1. /\ Without(d, K, X, W) = [d EXCEPT !.codes = co, !.txns = tr, !.consents = cs]
        /\ Without(e, K, X, W) = [e EXCEPT !.codes = co, !.txns = tr, !.consents = cs]
    BY DEF Without, Alike
  <2> HIDE DEF co, tr, cs
  <2>2. Alike([[[d EXCEPT !.codes = co] EXCEPT !.txns = tr] EXCEPT !.consents = cs],
              [[[e EXCEPT !.codes = co] EXCEPT !.txns = tr] EXCEPT !.consents = cs])
    <3>1. Alike([d EXCEPT !.codes = co], [e EXCEPT !.codes = co]) BY AlikeOne
    <3>2. Alike([[d EXCEPT !.codes = co] EXCEPT !.txns = tr], [[e EXCEPT !.codes = co] EXCEPT !.txns = tr])
      BY <3>1, AlikeOne
    <3> QED BY <3>2, AlikeOne
  <2>3. /\ [d EXCEPT !.codes = co, !.txns = tr, !.consents = cs]
             = [[[d EXCEPT !.codes = co] EXCEPT !.txns = tr] EXCEPT !.consents = cs]
        /\ [e EXCEPT !.codes = co, !.txns = tr, !.consents = cs]
             = [[[e EXCEPT !.codes = co] EXCEPT !.txns = tr] EXCEPT !.consents = cs]
    OBVIOUS
  <2> QED BY <2>1, <2>2, <2>3
<1> QED BY <1>1, <1>2, <1>3

\* ending app sessions,
LEMMA AlikeApps ==
    ASSUME NEW d, NEW e, Alike(d, e), NEW A, NEW t
    PROVE  Alike(EndAppSessions(d, A, t), EndAppSessions(e, A, t))
<1> DEFINE E  == {a \in A \cap DOMAIN d.apps : d.apps[a].ended = 0}
           ap == End(d.apps, E, t)
           to == Revoke(d.tokens, {k \in DOMAIN d.tokens :
                           d.tokens[k].app \in E /\ d.tokens[k].family = 0})
           co == Revoke(d.codes, CutOf(d, E, d.codes))
           tr == Revoke(d.txns, CutOf(d, E, d.txns))
<1>0. e.apps = d.apps /\ e.tokens = d.tokens /\ e.codes = d.codes /\ e.txns = d.txns
  BY DEF Alike
<1>1. EndAppSessions(d, A, t) = [[[[d EXCEPT !.apps = ap] EXCEPT !.tokens = to]
                                     EXCEPT !.codes = co] EXCEPT !.txns = tr]
  BY EndAppSteps
<1>2. /\ CutOf(e, E, d.codes) = CutOf(d, E, d.codes)
      /\ CutOf(e, E, d.txns) = CutOf(d, E, d.txns)
  BY <1>0 DEF CutOf
<1>3. EndAppSessions(e, A, t) = [[[[e EXCEPT !.apps = ap] EXCEPT !.tokens = to]
                                     EXCEPT !.codes = co] EXCEPT !.txns = tr]
  <2> DEFINE G  == {a \in A \cap DOMAIN e.apps : e.apps[a].ended = 0}
             e1 == [e EXCEPT !.apps = End(e.apps, G, t)]
             e2 == [e1 EXCEPT !.tokens = Revoke(e.tokens, {k \in DOMAIN e.tokens :
                           e.tokens[k].app \in G /\ e.tokens[k].family = 0})]
             e3 == [e2 EXCEPT !.codes = Revoke(e.codes, CutOf(e, G, e.codes))]
             e4 == [e3 EXCEPT !.txns = Revoke(e.txns, CutOf(e, G, e.txns))]
  <2>1. EndAppSessions(e, A, t) = e4 BY EndAppSteps
  <2>2. G = E BY <1>0
  <2>3. e4 = [[[[e EXCEPT !.apps = ap] EXCEPT !.tokens = to] EXCEPT !.codes = co] EXCEPT !.txns = tr]
    <3>1. e1 = [e EXCEPT !.apps = ap] BY <1>0, <2>2
    <3> HIDE DEF e1, E, G
    <3>2. e2 = [e1 EXCEPT !.tokens = to] BY <1>0, <2>2
    <3> HIDE DEF e2
    <3>3. e3 = [e2 EXCEPT !.codes = co] BY <1>0, <2>2, <1>2
    <3> HIDE DEF e3
    <3>4. e4 = [e3 EXCEPT !.txns = tr] BY <1>0, <2>2, <1>2
    <3> HIDE DEF ap, to, co, tr
    <3> QED BY <3>1, <3>2, <3>3, <3>4
  <2> HIDE DEF e4
  <2> QED BY <2>1, <2>3
<1> HIDE DEF ap, to, co, tr
<1>4. Alike([d EXCEPT !.apps = ap], [e EXCEPT !.apps = ap]) BY AlikeOne
<1>5. Alike([[d EXCEPT !.apps = ap] EXCEPT !.tokens = to],
            [[e EXCEPT !.apps = ap] EXCEPT !.tokens = to]) BY <1>4, AlikeOne
<1>6. Alike([[[d EXCEPT !.apps = ap] EXCEPT !.tokens = to] EXCEPT !.codes = co],
            [[[e EXCEPT !.apps = ap] EXCEPT !.tokens = to] EXCEPT !.codes = co]) BY <1>5, AlikeOne
<1>7. Alike([[[[d EXCEPT !.apps = ap] EXCEPT !.tokens = to] EXCEPT !.codes = co] EXCEPT !.txns = tr],
            [[[[e EXCEPT !.apps = ap] EXCEPT !.tokens = to] EXCEPT !.codes = co] EXCEPT !.txns = tr])
  BY <1>6, AlikeOne
<1> QED BY <1>1, <1>3, <1>7

\* ending OP sessions,
LEMMA AlikeEnds ==
    ASSUME NEW d, NEW e, Alike(d, e), NEW I, NEW t
    PROVE  Alike(EndSessions(d, I, t), EndSessions(e, I, t))
<1> DEFINE J  == EndingIDs(d, I)
           d1 == AppsEnded(d, I, t)
           e1 == AppsEnded(e, I, t)
           d2 == [d1 EXCEPT !.txns = Revoke(d1.txns, Under(d1.txns, J))]
           e2 == [e1 EXCEPT !.txns = Revoke(e1.txns, Under(e1.txns, J))]
           d3 == [d2 EXCEPT !.codes = Revoke(d1.codes, Under(d1.codes, J))]
           e3 == [e2 EXCEPT !.codes = Revoke(e1.codes, Under(e1.codes, J))]
<1>0. /\ e.sessions = d.sessions /\ e.apps = d.apps /\ FieldsOf(d) /\ FieldsOf(e)
  BY DEF Alike
<1>1. ToEnd(e, I) = ToEnd(d, I) /\ EndingIDs(e, I) = J BY <1>0 DEF ToEnd, EndingIDs
<1>2. Alike(d1, e1)
  <2>1. Alike(SessionsEnded(d, I, t), SessionsEnded(e, I, t))
    BY <1>0, <1>1, AlikeOne DEF SessionsEnded
  <2> QED BY <2>1, <1>0, <1>1, AlikeApps DEF AppsEnded
<1>3. EndSessions(d, I, t) = d3 BY <1>0, EndSessionSteps
<1>4. EndSessions(e, I, t) = e3
  <2> DEFINE L == EndingIDs(e, I)
             f2 == [e1 EXCEPT !.txns = Revoke(e1.txns, Under(e1.txns, L))]
  <2>1. EndSessions(e, I, t) = [f2 EXCEPT !.codes = Revoke(e1.codes, Under(e1.codes, L))]
    BY <1>0, EndSessionSteps
  <2>2. L = J BY <1>1
  <2> HIDE DEF L, J, e1
  <2> QED BY <2>1, <2>2
<1> HIDE DEF d1, e1, J
<1>5. Alike(d2, e2)
  <2>1. e1.txns = d1.txns BY <1>2 DEF Alike
  <2> QED BY <1>2, <2>1, AlikeOne
<1>6. Alike(d3, e3)
  <2>1. e1.codes = d1.codes BY <1>2 DEF Alike
  <2> HIDE DEF d2, e2
  <2> QED BY <1>5, <2>1, AlikeOne
<1> QED BY <1>3, <1>4, <1>6

\* what is done to a user's sessions and grants,
LEMMA AlikeUsers ==
    ASSUME NEW d, NEW e, Alike(d, e), NEW u, NEW t
    PROVE  Alike(DeleteUserSessions(d, u, t), DeleteUserSessions(e, u, t))
<1> DEFINE F  == {f \in DOMAIN d.families : d.families[f].user = u}
           d0 == RevokeFamilies(d, F)
           e0 == RevokeFamilies(e, F)
           T  == {k \in DOMAIN d0.tokens : d0.tokens[k].user = u}
           d1 == [d0 EXCEPT !.tokens = Revoke(d0.tokens, T)]
           e1 == [e0 EXCEPT !.tokens = Revoke(e0.tokens, T)]
           K  == {k \in DOMAIN d1.codes : d1.codes[k].user = u}
           X  == {x \in DOMAIN d1.txns : d1.txns[x].user = u}
           W  == {w \in DOMAIN d1.consents : w[1] = u}
           d2 == Without(d1, K, X, W)
           e2 == Without(e1, K, X, W)
<1>1. F = {f \in DOMAIN e.families : e.families[f].user = u} BY DEF Alike
<1>2. Alike(d0, e0) BY AlikeGrants
<1>3. T = {k \in DOMAIN e0.tokens : e0.tokens[k].user = u}
  <2> HIDE DEF d0, e0
  <2> QED BY <1>2 DEF Alike
<1>4. /\ RevokeAccessTokensForUser(d, u) = d1
      /\ RevokeAccessTokensForUser(e, u) = e1
  BY <1>1, <1>3 DEF RevokeAccessTokensForUser
<1>5. Alike(d1, e1)
  <2> HIDE DEF d0, e0, T
  <2> QED BY <1>2, AlikeGrants
<1> HIDE DEF d1, e1
<1>6. /\ K = {k \in DOMAIN e1.codes : e1.codes[k].user = u}
      /\ X = {x \in DOMAIN e1.txns : e1.txns[x].user = u}
      /\ W = {w \in DOMAIN e1.consents : w[1] = u}
  BY <1>5 DEF Alike
<1>7. Alike(d2, e2) BY <1>5, AlikeGrants
<1>8. DeleteUserSessions(d, u, t) = EndSessions(d2, SessionsOf(d2, u), t)
  BY <1>4 DEF DeleteUserSessions, Without
<1>9. DeleteUserSessions(e, u, t) = EndSessions(e2, SessionsOf(e2, u), t)
  BY <1>4, <1>6 DEF DeleteUserSessions, Without
<1> HIDE DEF d2, e2
<1>10. SessionsOf(e2, u) = SessionsOf(d2, u) BY <1>7 DEF Alike, SessionsOf
<1> QED BY <1>7, <1>8, <1>9, <1>10, AlikeEnds

\* and what is done to a client's.
LEMMA AlikeClients ==
    ASSUME NEW d, NEW e, Alike(d, e), NEW c, NEW t
    PROVE  Alike(InvalidateClientGrants(d, c, t), InvalidateClientGrants(e, c, t))
<1> DEFINE A  == {a \in DOMAIN d.apps : d.apps[a].client = c}
           dA == EndAppSessions(d, A, t)
           eA == EndAppSessions(e, A, t)
           F  == {f \in DOMAIN dA.families : dA.families[f].client = c}
           d0 == RevokeFamilies(dA, F)
           e0 == RevokeFamilies(eA, F)
           T  == {k \in DOMAIN d0.tokens : d0.tokens[k].client = c}
           d1 == [d0 EXCEPT !.tokens = Revoke(d0.tokens, T)]
           e1 == [e0 EXCEPT !.tokens = Revoke(e0.tokens, T)]
           K  == {k \in DOMAIN d1.codes : d1.codes[k].client = c}
           X  == {x \in DOMAIN d1.txns : d1.txns[x].client = c}
           W  == {w \in DOMAIN d1.consents : w[2] = c}
           d2 == Without(d1, K, X, W)
           e2 == Without(e1, K, X, W)
<1>0. A = {a \in DOMAIN e.apps : e.apps[a].client = c} BY DEF Alike
<1>00. Alike(dA, eA) BY AlikeApps
<1> HIDE DEF dA, eA
<1>1. F = {f \in DOMAIN eA.families : eA.families[f].client = c} BY <1>00 DEF Alike
<1>2. Alike(d0, e0) BY <1>00, AlikeGrants
<1>3. T = {k \in DOMAIN e0.tokens : e0.tokens[k].client = c}
  <2> HIDE DEF d0, e0
  <2> QED BY <1>2 DEF Alike
<1>4. /\ RevokeAccessTokensForClient(dA, c) = d1
      /\ RevokeAccessTokensForClient(eA, c) = e1
  BY <1>1, <1>3 DEF RevokeAccessTokensForClient
<1>5. Alike(d1, e1)
  <2> HIDE DEF d0, e0, T
  <2> QED BY <1>2, AlikeGrants
<1> HIDE DEF d1, e1
<1>6. /\ K = {k \in DOMAIN e1.codes : e1.codes[k].client = c}
      /\ X = {x \in DOMAIN e1.txns : e1.txns[x].client = c}
      /\ W = {w \in DOMAIN e1.consents : w[2] = c}
  BY <1>5 DEF Alike
<1>7. Alike(d2, e2) BY <1>5, AlikeGrants
<1>8. InvalidateClientGrants(d, c, t) = d2
  BY <1>4 DEF InvalidateClientGrants, Without, dA
<1>9. InvalidateClientGrants(e, c, t) = e2
  BY <1>4, <1>0, <1>6, ZenonT(60) DEF InvalidateClientGrants, Without, eA
<1> HIDE DEF d2, e2
<1> QED BY <1>7, <1>8, <1>9

(***************************************************************************)
(* The methods that change accounts, clients, policies and consents.       *)
(***************************************************************************)
\* Stores that are alike and have one context are one.
LEMMA AlikeEqual ==
    ASSUME NEW d, NEW e, Alike(d, e), e.users = d.users, e.clients = d.clients,
           e.policy = d.policy, e.access = d.access
    PROVE  e = d
BY DEF Alike, FieldsOf

\* SaveUser.
LEMMA ShowsSaveUser ==
    ASSUME NEW d, NEW p, Ready(d), Shows(d, p), NEW u \in Users, NEW new \in User,
           NEW t \in Nat \ {0}
    PROVE  Shows(SaveUser(d, u, new, t), PG!SaveUser(p, u, new, t))
<1> DEFINE m  == Put(d.users, u, new)
           e  == [d EXCEPT !.users = m]
           p1 == [p EXCEPT !.users = PG!Put(p.users, u, new)]
           d1 == DeleteUserSessions(d, u, t)
           e1 == DeleteUserSessions(e, u, t)
           g  == [d1 EXCEPT !.users = Put(d1.users, u, new)]
<1>0. FieldsOf(d) /\ Sound(d) /\ IsMap(d.users, Users, User)
  BY ReadyHas, StoreFields DEF StoreOK
<1>1. p1 = [p EXCEPT !.users = m] BY SameMaps DEF Shows
<1>2. Shows(e, p1)
  <2> HIDE DEF m, p1
  <2> QED BY <1>1, ShowsPut
<1>3. u \in DOMAIN p.users /\ p.users[u] # new <=> u \in DOMAIN d.users /\ d.users[u] # new
  BY DEF Shows
<1>4. Ready(e) /\ Alike(d, e)
  <2>1. Sound(e)
    <3>1. IsMap(m, Users, User) BY <1>0, PutMap
    <3> QED BY <3>1, <1>0, SetUsers
  <2> HIDE DEF m
  <2>2. ReadyAlike(d, e) BY <1>0 DEF FieldsOf, ReadyAlike
  <2>3. Alike(d, e) BY <1>0 DEF FieldsOf, Alike
  <2> QED BY <2>1, <2>2, <2>3, ReadySame
<1>5. CASE u \in DOMAIN d.users /\ d.users[u] # new
  <2>1. SaveUser(d, u, new, t) = g BY <1>5 DEF SaveUser
  <2>2. PG!SaveUser(p, u, new, t) = PG!DeleteUserSessions(p1, u, t)
    BY <1>3, <1>5 DEF PG!SaveUser
  <2>3. Shows(e1, PG!DeleteUserSessions(p1, u, t))
    <3> HIDE DEF e, p1
    <3> QED BY <1>2, <1>4, ShowsDeleteUserSessions
  <2>4. e1 = g
    <3>1. Alike(d1, e1)
      <4> HIDE DEF e
      <4> QED BY <1>4, AlikeUsers
    <3>2. Steady(d, d1) BY <1>0, DeleteUserSessionsWithers DEF Withers
    <3>3. Steady(e, e1)
      <4> HIDE DEF e
      <4> QED BY <1>4, ReadyHas, DeleteUserSessionsWithers DEF Withers
    <3>4. e.users = m /\ e.clients = d.clients /\ e.policy = d.policy /\ e.access = d.access
      <4> HIDE DEF m
      <4> QED BY <1>0 DEF FieldsOf
    <3> HIDE DEF d1, e1, e
    <3>5. d1.users = d.users /\ d1.clients = d.clients /\ d1.policy = d.policy /\ d1.access = d.access
      BY <3>2 DEF Steady
    <3>6. FieldsOf(d1) BY <3>1 DEF Alike
    <3>7. g = [d1 EXCEPT !.users = m] BY <3>5
    <3> HIDE DEF g, m
    <3>8. /\ Alike(g, d1) /\ g.users = m /\ g.clients = d1.clients
          /\ g.policy = d1.policy /\ g.access = d1.access
      BY <3>6, <3>7 DEF FieldsOf, Alike
    <3>9. Alike(g, e1) BY <3>1, <3>8 DEF Alike
    <3> QED BY <3>3, <3>4, <3>5, <3>8, <3>9, AlikeEqual DEF Steady
  <2> QED BY <2>1, <2>2, <2>3, <2>4
<1>6. CASE ~(u \in DOMAIN d.users /\ d.users[u] # new)
  <2>1. SaveUser(d, u, new, t) = e BY <1>6 DEF SaveUser
  <2>2. PG!SaveUser(p, u, new, t) = p1 BY <1>3, <1>6 DEF PG!SaveUser
  <2> QED BY <2>1, <2>2, <1>2
<1> QED BY <1>5, <1>6

\* A withdrawn or granted entitlement.
LEMMA ShowsEntitled ==
    ASSUME NEW d, NEW p, Ready(d), Shows(d, p), NEW u \in Users, NEW allowed \in BOOLEAN
    PROVE  LET e == [d EXCEPT !.access = [d.access EXCEPT ![u] = allowed]] IN
           /\ Ready(e) /\ Alike(d, e)
           /\ e.users = d.users /\ e.clients = d.clients /\ e.policy = d.policy
           /\ Shows(e, [p EXCEPT !.access = IF allowed THEN p.access \cup {u} ELSE p.access \ {u}])
<1> DEFINE x == [d.access EXCEPT ![u] = allowed]
           y == IF allowed THEN p.access \cup {u} ELSE p.access \ {u}
           e == [d EXCEPT !.access = x]
<1>0. FieldsOf(d) /\ Sound(d) /\ d.access \in [Users -> BOOLEAN]
  BY ReadyHas, StoreFields DEF StoreOK
<1>1. x \in [Users -> BOOLEAN] BY <1>0
<1>2. y = {v \in Users : x[v]}
  <2>1. p.access = {v \in Users : d.access[v]} BY DEF Shows
  <2>2. \A v \in Users : x[v] <=> IF v = u THEN allowed ELSE d.access[v] BY <1>0
  <2> HIDE DEF x
  <2> QED BY <2>1, <2>2
<1>3. Sound(e) BY <1>0, <1>1, SetAccess
<1> HIDE DEF x, y
<1>4. Shows(e, [p EXCEPT !.access = y]) BY <1>2, ShowsAccess
<1>5. ReadyAlike(d, e) /\ Alike(d, e) BY <1>0 DEF FieldsOf, ReadyAlike, Alike
<1>6. e.users = d.users /\ e.clients = d.clients /\ e.policy = d.policy BY <1>0 DEF FieldsOf
<1>7. Ready(e) BY <1>3, <1>5, ReadySame
<1> QED BY <1>4, <1>5, <1>6, <1>7 DEF x, y

\* DeleteUser.
LEMMA ShowsDeleteUser ==
    ASSUME NEW d, NEW p, Ready(d), Shows(d, p), NEW u \in Users, NEW t \in Nat \ {0}
    PROVE  Shows(DeleteUser(d, u, t), PG!DeleteUser(p, u, t))
<1> DEFINE x  == [d.access EXCEPT ![u] = FALSE]
           m  == Drop(d.users, {u})
           a  == [d EXCEPT !.access = x]
           q  == [p EXCEPT !.access = p.access \ {u}]
           e  == [d EXCEPT !.users = m, !.access = x]
           a1 == DeleteUserSessions(a, u, t)
           e1 == DeleteUserSessions(e, u, t)
           q1 == PG!DeleteUserSessions(q, u, t)
           g  == [a1 EXCEPT !.users = m]
<1>0. FieldsOf(d) BY ReadyHas, StoreFields
<1>1. /\ Ready(a) /\ Alike(d, a) /\ Shows(a, q)
      /\ a.users = d.users /\ a.clients = d.clients /\ a.policy = d.policy
  BY ShowsEntitled
<1>2. a.access = x
  <2> HIDE DEF x
  <2> QED BY <1>0 DEF FieldsOf
<1>3. Sound(e)
  <2>1. IsMap(m, Users, User) BY ReadyHas, DropMap DEF StoreOK
  <2>2. Sound([a EXCEPT !.users = m])
    <3> HIDE DEF a, m
    <3> QED BY <1>1, <2>1, ReadyHas, SetUsers
  <2>3. e = [a EXCEPT !.users = m]
    <3> HIDE DEF x, m
    <3> QED BY <1>0 DEF FieldsOf
  <2> QED BY <2>2, <2>3
<1>4. Alike(a, e) /\ e.users = m /\ e.clients = d.clients /\ e.policy = d.policy /\ e.access = x
  <2>1. e = [a EXCEPT !.users = m]
    <3> HIDE DEF x, m
    <3> QED BY <1>0 DEF FieldsOf
  <2>2. FieldsOf(a) BY <1>1 DEF Alike
  <2> HIDE DEF a, e, x, m
  <2>3. Alike(a, e) /\ e.users = m /\ e.clients = a.clients /\ e.policy = a.policy
        /\ e.access = a.access
    BY <2>1, <2>2 DEF FieldsOf, Alike
  <2> QED BY <2>3, <1>1, <1>2
<1>5. DeleteUser(d, u, t) = e1 BY DEF DeleteUser
<1>6. PG!DeleteUser(p, u, t) = [q1 EXCEPT !.users = PG!Drop(q1.users, {u})]
  BY DEF PG!DeleteUser
<1> HIDE DEF a, e, x
<1>7. Shows(a1, q1)
  <2> HIDE DEF q
  <2> QED BY <1>1, ShowsDeleteUserSessions
<1>8. Steady(a, a1) BY <1>1, ReadyHas, DeleteUserSessionsWithers DEF Withers
<1>9. Steady(e, e1) BY <1>3, DeleteUserSessionsWithers DEF Withers
<1>10. Alike(a1, e1) BY <1>4, AlikeUsers
<1> HIDE DEF a1, e1, q1
<1>11. PG!Drop(q1.users, {u}) = m
  <2>1. q1.users = a1.users BY <1>7 DEF Shows
  <2>2. a1.users = d.users BY <1>8, <1>1 DEF Steady
  <2> QED BY <2>1, <2>2, SameMaps
<1>12. Shows(g, [q1 EXCEPT !.users = m])
  <2> HIDE DEF m
  <2> QED BY <1>7, ShowsPut
<1>13. g = e1
  <2> HIDE DEF m
  <2>1. FieldsOf(a1) BY <1>10 DEF Alike
  <2>2. /\ Alike(g, a1) /\ g.users = m /\ g.clients = a1.clients
        /\ g.policy = a1.policy /\ g.access = a1.access
    BY <2>1 DEF FieldsOf, Alike
  <2> HIDE DEF g
  <2>3. Alike(g, e1) BY <2>2, <1>10 DEF Alike
  <2> QED BY <2>2, <2>3, <1>8, <1>9, <1>4, <1>1, <1>2, AlikeEqual DEF Steady
<1> QED BY <1>5, <1>6, <1>11, <1>12, <1>13

\* SaveOAuthAccess.
LEMMA ShowsSaveOAuthAccess ==
    ASSUME NEW d, NEW p, Ready(d), Shows(d, p), NEW u \in Users, NEW allowed \in BOOLEAN,
           NEW t \in Nat \ {0}
    PROVE  Shows(SaveOAuthAccess(d, u, allowed, t), PG!SaveOAuthAccess(p, u, allowed, t))
<1> DEFINE a  == [d EXCEPT !.access = [d.access EXCEPT ![u] = allowed]]
           q  == [p EXCEPT !.access = IF allowed THEN p.access \cup {u} ELSE p.access \ {u}]
           A  == {x \in DOMAIN a.apps : a.apps[x].user = u}
           B  == {x \in PG!OpenRows(q.apps) : q.apps[x].user = u}
           a1 == EndAppSessions(a, A, t)
           q1 == PG!EndAppSessions(q, B, t)
<1>1. Ready(a) /\ Shows(a, q) BY ShowsEntitled
<1>2. SaveOAuthAccess(d, u, allowed, t) = RevokeAccessTokensForUser(a1, u)
  BY DEF SaveOAuthAccess
<1>3. PG!SaveOAuthAccess(p, u, allowed, t) = PG!RevokeAccessTokensForUser(q1, u)
  BY DEF PG!SaveOAuthAccess
<1> HIDE DEF a, q
<1>4. \A x \in DOMAIN a.apps : a.apps[x].ended = 0 => (x \in A <=> x \in B)
  <2>1. StoreOK(a) BY <1>1, ReadyHas
  <2>2. \A x \in DOMAIN a.apps : q.apps[x].user = a.apps[x].user BY <1>1, <2>1, Shown
  <2> QED BY <2>1, <2>2, <1>1, OpenShown
<1>5. Shows(a1, q1) /\ Ready(a1)
  <2> HIDE DEF A, B
  <2> QED BY <1>1, <1>4, ReadyHas, ShowsEndApps, CutsReady
<1> HIDE DEF a1, q1
<1>6. Shows(RevokeAccessTokensForUser(a1, u), PG!RevokeAccessTokensForUser(q1, u))
  BY <1>5, ReadyHas, ShowsRevocation
<1> QED BY <1>2, <1>3, <1>6

\* SaveClient: the new revision is written before the cascade.
LEMMA ShowsSaveClient ==
    ASSUME NEW d, NEW p, Ready(d), Shows(d, p), NEW c \in DOMAIN d.clients, NEW t \in Nat \ {0}
    PROVE  Shows(SaveClient(d, c, t), PG!SaveClient(p, c, t))
<1> DEFINE m  == Put(d.clients, c, [rev |-> d.clients[c].rev + 1])
           e  == [d EXCEPT !.clients = m]
           q  == [p EXCEPT !.clients = PG!Put(p.clients, c, [rev |-> p.clients[c].rev + 1])]
           d1 == InvalidateClientGrants(d, c, t)
           e1 == InvalidateClientGrants(e, c, t)
           g  == [d1 EXCEPT !.clients = Put(d1.clients, c, [rev |-> d1.clients[c].rev + 1])]
<1>0. FieldsOf(d) /\ Sound(d) /\ IsMap(d.clients, Clients, Client) /\ Registered(d)
  BY ReadyHas, StoreFields DEF StoreOK
<1>1. q = [p EXCEPT !.clients = m] BY SameMaps DEF Shows
<1>2. Shows(e, q)
  <2> HIDE DEF m, q
  <2> QED BY <1>1, ShowsPut
<1>3. Sound(e)
  <2>1. c \in Clients /\ d.clients[c] \in Client BY <1>0 DEF IsMap
  <2>2. [rev |-> d.clients[c].rev + 1] \in Client BY <2>1 DEF Client
  <2>3. IsMap(m, Clients, Client) BY <1>0, <2>1, <2>2, PutMap
  <2> HIDE DEF m
  <2> QED BY <2>3, <1>0, SetClients
<1>4. Alike(d, e) /\ e.clients = m /\ e.users = d.users /\ e.policy = d.policy /\ e.access = d.access
  <2> HIDE DEF m
  <2> QED BY <1>0 DEF FieldsOf, Alike
<1>5. Ready(e)
  <2>1. DOMAIN m = DOMAIN d.clients BY DEF Put
  <2> HIDE DEF e, m
  <2>2. Links(e) BY <1>4, SameLinks DEF Ready, Alike
  <2>3. OneID(e) /\ Registered(e) /\ AppsDrawn(e) /\ AppTokens(e)
    BY <1>4, <2>1 DEF Ready, Alike, OneID, Registered, AppsDrawn, AppTokens
  <2> QED BY <1>3, <2>2, <2>3 DEF Ready
<1>6. SaveClient(d, c, t) = g BY DEF SaveClient
<1>7. PG!SaveClient(p, c, t) = PG!InvalidateClientGrants(q, c, t) BY DEF PG!SaveClient
<1> HIDE DEF e, q
<1>8. Shows(e1, PG!InvalidateClientGrants(q, c, t)) BY <1>2, <1>5, ShowsInvalidate
<1>9. Steady(d, d1) BY <1>0, InvalidateClientGrantsWithers DEF Withers
<1>10. Steady(e, e1) BY <1>3, InvalidateClientGrantsWithers DEF Withers
<1>11. Alike(d1, e1) BY <1>4, AlikeClients
<1> HIDE DEF d1, e1
<1>12. g = e1
  <2>1. FieldsOf(d1) BY <1>11 DEF Alike
  <2>2. g = [d1 EXCEPT !.clients = m] BY <1>9 DEF Steady
  <2> HIDE DEF g, m
  <2>3. /\ Alike(g, d1) /\ g.clients = m /\ g.users = d1.users
        /\ g.policy = d1.policy /\ g.access = d1.access
    BY <2>1, <2>2 DEF FieldsOf, Alike
  <2>4. Alike(g, e1) BY <2>3, <1>11 DEF Alike
  <2> QED BY <2>3, <2>4, <1>9, <1>10, <1>4, AlikeEqual DEF Steady
<1> HIDE DEF g
<1> QED BY <1>6, <1>7, <1>8, <1>12

\* A policy written or deleted.
LEMMA ShowsGoverned ==
    ASSUME NEW d, NEW p, Ready(d), Shows(d, p), NEW c \in Clients, NEW x \in SUBSET PolicyGrants,
           NEW y, \A b \in Clients :
              (IF b \in DOMAIN y THEN y[b] ELSE {}) = IF b = c THEN x ELSE PG!OAuthPolicy(p, b)
    PROVE  LET e == [d EXCEPT !.policy = [d.policy EXCEPT ![c] = x]] IN
           Ready(e) /\ Shows(e, [p EXCEPT !.policies = y])
<1> DEFINE m == [d.policy EXCEPT ![c] = x]
           e == [d EXCEPT !.policy = m]
<1>0. FieldsOf(d) /\ Sound(d) /\ d.policy \in [Clients -> SUBSET PolicyGrants]
  BY ReadyHas, StoreFields DEF StoreOK
<1>1. m \in [Clients -> SUBSET PolicyGrants] BY <1>0
<1>2. \A b \in Clients : m[b] = IF b \in DOMAIN y THEN y[b] ELSE {}
  <2>1. \A b \in Clients : m[b] = IF b = c THEN x ELSE d.policy[b] BY <1>0
  <2>2. \A b \in Clients : PG!OAuthPolicy(p, b) = d.policy[b] BY DEF Shows
  <2> HIDE DEF m
  <2> QED BY <2>1, <2>2
<1>3. Sound(e) BY <1>0, <1>1, SetPolicy
<1> HIDE DEF m
<1>4. Shows(e, [p EXCEPT !.policies = y]) BY <1>2, ShowsPolicy
<1>5. ReadyAlike(d, e) BY <1>0 DEF FieldsOf, ReadyAlike
<1>6. Ready(e) BY <1>3, <1>5, ReadySame
<1> QED BY <1>4, <1>6 DEF m

\* SaveOAuthPolicy.
LEMMA ShowsSaveOAuthPolicy ==
    ASSUME NEW d, NEW p, Ready(d), Shows(d, p), NEW c \in Clients, NEW x \in SUBSET PolicyGrants,
           NEW t \in Nat \ {0}
    PROVE  Shows(SaveOAuthPolicy(d, c, x, t), PG!SaveOAuthPolicy(p, c, x, t))
<1> DEFINE e == [d EXCEPT !.policy = [d.policy EXCEPT ![c] = x]]
           y == PG!Put(p.policies, c, x)
           q == [p EXCEPT !.policies = y]
<1>1. \A b \in Clients :
         (IF b \in DOMAIN y THEN y[b] ELSE {}) = IF b = c THEN x ELSE PG!OAuthPolicy(p, b)
  BY DEF PG!Put, PG!OAuthPolicy
<1>2. Ready(e) /\ Shows(e, q)
  <2> HIDE DEF y
  <2> QED BY <1>1, ShowsGoverned
<1>3. SaveOAuthPolicy(d, c, x, t) = InvalidateClientGrants(e, c, t) BY DEF SaveOAuthPolicy
<1>4. PG!SaveOAuthPolicy(p, c, x, t) = PG!InvalidateClientGrants(q, c, t) BY DEF PG!SaveOAuthPolicy
<1> HIDE DEF e, q
<1> QED BY <1>2, <1>3, <1>4, ShowsInvalidate

\* DeleteClient.
LEMMA ShowsDeleteClient ==
    ASSUME NEW d, NEW p, Ready(d), Shows(d, p), NEW c \in Clients, NEW t \in Nat \ {0}
    PROVE  Shows(DeleteClient(d, c, t), PG!DeleteClient(p, c, t))
<1> DEFINE e  == [d EXCEPT !.policy = [d.policy EXCEPT ![c] = {}]]
           y  == PG!Drop(p.policies, {c})
           q  == [p EXCEPT !.policies = y]
           e1 == InvalidateClientGrants(e, c, t)
           q1 == PG!InvalidateClientGrants(q, c, t)
           m  == Drop(e1.clients, {c})
<1>1. \A b \in Clients :
         (IF b \in DOMAIN y THEN y[b] ELSE {}) = IF b = c THEN {} ELSE PG!OAuthPolicy(p, b)
  BY DEF PG!Drop, PG!OAuthPolicy
<1>2. Ready(e) /\ Shows(e, q)
  <2> HIDE DEF y
  <2> QED BY <1>1, ShowsGoverned
<1>3. DeleteClient(d, c, t) = [e1 EXCEPT !.clients = m] BY DEF DeleteClient
<1>4. PG!DeleteClient(p, c, t) = [q1 EXCEPT !.clients = PG!Drop(q1.clients, {c})]
  BY DEF PG!DeleteClient
<1> HIDE DEF e, q
<1>5. Shows(e1, q1) BY <1>2, ShowsInvalidate
<1> HIDE DEF e1, q1
<1>6. PG!Drop(q1.clients, {c}) = m BY <1>5, SameMaps DEF Shows
<1> HIDE DEF m
<1>7. Shows([e1 EXCEPT !.clients = m], [q1 EXCEPT !.clients = m]) BY <1>5, ShowsPut
<1> QED BY <1>3, <1>4, <1>6, <1>7

\* SaveConsent.
LEMMA ShowsSaveConsent ==
    ASSUME NEW d, NEW p, Ready(d), Shows(d, p), NEW u \in Users, NEW c \in Clients, NEW v,
           NEW t \in Nat \ {0}
    PROVE  Shows(SaveConsent(d, u, c, v, t), PG!SaveConsent(p, u, c, v, t))
<1> DEFINE A  == AppSessionsOf(d, u, c)
           B  == {a \in PG!OpenRows(p.apps) : p.apps[a].user = u /\ p.apps[a].client = c}
           d1 == EndAppSessions(d, A, t)
           p1 == PG!EndAppSessions(p, B, t)
           F  == {f \in DOMAIN d1.families :
                     d1.families[f].user = u /\ d1.families[f].client = c}
           G  == {f \in DOMAIN p1.families :
                     p1.families[f].user = u /\ p1.families[f].client = c}
           d2 == RevokeFamilies(d1, F)
           p2 == PG!RevokeRefreshFamilies(p1, PG!FamiliesMatching(p1, G))
           e  == IF v.revoked THEN d2 ELSE d
           q  == IF v.revoked THEN p2 ELSE p
<1>1. SaveConsent(d, u, c, v, t) = [e EXCEPT !.consents = Put(e.consents, <<u, c>>, v)]
  BY DEF SaveConsent
<1>2. PG!SaveConsent(p, u, c, v, t) = [q EXCEPT !.consents = PG!Put(q.consents, <<u, c>>, v)]
  BY DEF PG!SaveConsent
<1>3. StoreOK(d) /\ Registered(d) BY ReadyHas
<1>4. \A a \in DOMAIN d.apps : d.apps[a].ended = 0 => (a \in A <=> a \in B)
  <2>1. \A a \in DOMAIN d.apps : p.apps[a].user = d.apps[a].user /\ p.apps[a].client = d.apps[a].client
    BY <1>3, Shown
  <2> QED BY <2>1, <1>3, OpenShown DEF AppSessionsOf
<1>5. Shows(d1, p1) /\ Ready(d1)
  <2> HIDE DEF A, B
  <2> QED BY <1>3, <1>4, ShowsEndApps, CutsReady
<1> HIDE DEF d1, p1
<1>6. G = F BY <1>5 DEF Shows
<1>7. Shows(d2, p2) BY <1>5, <1>6, ReadyHas, ShowsMatching
<1> HIDE DEF d2, p2
<1>8. Shows(e, q) BY <1>7
<1> HIDE DEF e, q
<1>9. PG!Put(q.consents, <<u, c>>, v) = Put(e.consents, <<u, c>>, v) BY <1>8, SameMaps DEF Shows
<1>10. Shows([e EXCEPT !.consents = Put(e.consents, <<u, c>>, v)],
             [q EXCEPT !.consents = Put(e.consents, <<u, c>>, v)])
  BY <1>8, ShowsPut
<1> QED BY <1>1, <1>2, <1>9, <1>10

(***************************************************************************)
(* Pruning, and the methods that save one record.                          *)
(***************************************************************************)
\* What is owed once the records that retired are dropped: the notices left
\* are those of an age within the retention period.
LEMMA OwedRetained ==
    ASSUME NEW d, StoreOK(d), OneID(d), NEW D, Owed(d, D), NEW t \in Nat,
           NEW e, e.sessions = Drop(d.sessions, Retired(d.sessions, t)),
           e.apps = Drop(d.apps, Retired(d.apps, t))
    PROVE  Owed(e, PG!Drop(D, {i \in DOMAIN D : PG!Before(D[i].created, t)}))
<1> DEFINE O == {i \in DOMAIN D : PG!Before(D[i].created, t)}
           Q == PG!Drop(D, O)
           old(x) == x + LogoutRetention < t
<1>1. /\ \A h \in DOMAIN d.sessions : d.sessions[h].ended \in Nat
      /\ \A a \in DOMAIN d.apps : d.apps[a].ended \in Nat /\ d.apps[a].client \in Clients
  <2>1. /\ \A h \in DOMAIN d.sessions : d.sessions[h] \in Session
        /\ \A a \in DOMAIN d.apps : d.apps[a] \in AppSession
    BY Records
  <2> QED BY <2>1 DEF Session, AppSession, Time
<1>2. /\ DOMAIN D = Due(d)
      /\ \A h \in Ended(d.sessions) : D[<<"op", d.sessions[h].id>>] = [created |-> d.sessions[h].ended]
      /\ \A a \in Ended(d.apps) : \A ch \in Notices(d.apps[a].client) :
            D[<<ch, a>>] = [created |-> d.apps[a].ended]
  BY DEF Owed
<1>3. \A x \in Nat : PG!Before(x, t) <=> old(x) BY NullAssumption DEF PG!Before
<1>4. /\ Ended(e.sessions) = {h \in Ended(d.sessions) : ~old(d.sessions[h].ended)}
      /\ \A h \in Ended(e.sessions) : e.sessions[h] = d.sessions[h]
  BY DEF Ended, Drop, Retired
<1>5. /\ Ended(e.apps) = {a \in Ended(d.apps) : ~old(d.apps[a].ended)}
      /\ \A a \in Ended(e.apps) : e.apps[a] = d.apps[a]
  BY DEF Ended, Drop, Retired
<1>6. \A h \in Ended(d.sessions) :
          /\ <<"op", d.sessions[h].id>> \in DOMAIN D
          /\ <<"op", d.sessions[h].id>> \in O <=> old(d.sessions[h].ended)
  <2> TAKE h \in Ended(d.sessions)
  <2>1. <<"op", d.sessions[h].id>> \in Due(d) BY DueHas
  <2>4. D[<<"op", d.sessions[h].id>>] = [created |-> d.sessions[h].ended] BY <1>2
  <2>2. D[<<"op", d.sessions[h].id>>].created = d.sessions[h].ended BY <2>4
  <2>3. d.sessions[h].ended \in Nat BY <1>1 DEF Ended
  <2> QED BY <2>1, <2>2, <2>3, <1>2, <1>3
<1>7. \A a \in Ended(d.apps) : \A ch \in Notices(d.apps[a].client) :
          /\ <<ch, a>> \in DOMAIN D
          /\ <<ch, a>> \in O <=> old(d.apps[a].ended)
  <2> TAKE a \in Ended(d.apps)
  <2> TAKE ch \in Notices(d.apps[a].client)
  <2>1. <<ch, a>> \in Due(d) BY DueHas
  <2>4. D[<<ch, a>>] = [created |-> d.apps[a].ended] BY <1>2
  <2>2. D[<<ch, a>>].created = d.apps[a].ended BY <2>4
  <2>3. d.apps[a].ended \in Nat BY <1>1 DEF Ended
  <2> QED BY <2>1, <2>2, <2>3, <1>2, <1>3
<1>8. DOMAIN D \ O = Due(e)
  <2>1. ASSUME NEW i \in DOMAIN D \ O PROVE i \in Due(e)
    <3>1. PICK ch, x : i = <<ch, x>> BY <1>2, DuePairs
    <3>2. \/ ch = "op" /\ \E h \in Ended(d.sessions) : d.sessions[h].id = x
          \/ x \in Ended(d.apps) /\ ch \in Notices(d.apps[x].client)
      BY <2>1, <3>1, <1>2, DueHas
    <3>3. CASE ch = "op" /\ \E h \in Ended(d.sessions) : d.sessions[h].id = x
      <4>1. PICK h \in Ended(d.sessions) : d.sessions[h].id = x BY <3>3
      <4>2. h \in Ended(e.sessions) /\ e.sessions[h].id = x
        BY <4>1, <3>3, <3>1, <2>1, <1>4, <1>6
      <4> QED BY <4>2, <3>1, <3>3, DueHas
    <3>4. CASE x \in Ended(d.apps) /\ ch \in Notices(d.apps[x].client)
      <4>1. x \in Ended(e.apps) /\ e.apps[x] = d.apps[x] BY <3>4, <3>1, <2>1, <1>5, <1>7
      <4> QED BY <4>1, <3>1, <3>4, DueHas
    <3> QED BY <3>2, <3>3, <3>4
  <2>2. ASSUME NEW i \in Due(e) PROVE i \in DOMAIN D \ O
    <3>1. PICK ch, x : i = <<ch, x>> BY DuePairs
    <3>2. \/ ch = "op" /\ \E h \in Ended(e.sessions) : e.sessions[h].id = x
          \/ x \in Ended(e.apps) /\ ch \in Notices(e.apps[x].client)
      BY <3>1, DueHas
    <3> QED BY <3>1, <3>2, <1>4, <1>5, <1>6, <1>7
  <2> QED BY <2>1, <2>2
<1>9. DOMAIN Q = Due(e) /\ \A i \in Due(e) : Q[i] = D[i] BY <1>8 DEF PG!Drop
<1>10. Q = [i \in Due(e) |-> Q[i]] BY <1>8 DEF PG!Drop
<1> HIDE DEF Q
<1>11. \A h \in Ended(e.sessions) :
          Q[<<"op", e.sessions[h].id>>] = [created |-> e.sessions[h].ended]
  <2> TAKE h \in Ended(e.sessions)
  <2>1. <<"op", e.sessions[h].id>> \in Due(e) BY DueHas
  <2> QED BY <2>1, <1>9, <1>2, <1>4
<1>12. \A a \in Ended(e.apps) : \A ch \in Notices(e.apps[a].client) :
          Q[<<ch, a>>] = [created |-> e.apps[a].ended]
  <2> TAKE a \in Ended(e.apps)
  <2> TAKE ch \in Notices(e.apps[a].client)
  <2>1. <<ch, a>> \in Due(e) BY DueHas
  <2> QED BY <2>1, <1>9, <1>2, <1>5
<1> QED BY <1>10, <1>11, <1>12 DEF Owed, Q

\* Two tables of session records changed at once.
LEMMA ShowsRecords ==
    ASSUME NEW d, NEW p, Shows(d, p), NEW x, NEW y, NEW D,
           Owed([d EXCEPT !.apps = x, !.sessions = y], D)
    PROVE  Shows([d EXCEPT !.apps = x, !.sessions = y],
                 [p EXCEPT !.deliveries = D, !.apps = Table(x, PG!AppSessionNulls),
                           !.sessions = Table(y, PG!SessionNulls)])
<1> DEFINE tx1 == Table(x, PG!AppSessionNulls)
           ty == Table(y, PG!SessionNulls)
           e  == [d EXCEPT !.apps = x, !.sessions = y]
           q  == [p EXCEPT !.deliveries = D, !.apps = tx1, !.sessions = ty]
<1>0. FieldsOf(d) /\ Rows(p) BY DEF Shows
<1> HIDE DEF tx1, ty
<1>1. FieldsOf(e) /\ e.apps = x /\ e.sessions = y
  <2>1. FieldsOf([d EXCEPT !.apps = x]) /\ [d EXCEPT !.apps = x].apps = x
    BY <1>0 DEF FieldsOf
  <2>2. e = [[d EXCEPT !.apps = x] EXCEPT !.sessions = y] OBVIOUS
  <2>3. ASSUME NEW g, FieldsOf(g)
        PROVE  LET f == [g EXCEPT !.sessions = y] IN
               FieldsOf(f) /\ f.sessions = y /\ f.apps = g.apps
    BY <2>3 DEF FieldsOf
  <2> HIDE DEF e
  <2> QED BY <2>1, <2>2, <2>3
<1>2. Rows(q) /\ q.deliveries = D /\ q.apps = tx1 /\ q.sessions = ty
  <2>1. LET f == [p EXCEPT !.deliveries = D] IN Rows(f) /\ f.deliveries = D
    BY <1>0 DEF Rows
  <2>2. ASSUME NEW g, Rows(g)
        PROVE  LET f == [g EXCEPT !.apps = tx1] IN
               Rows(f) /\ f.apps = tx1 /\ f.deliveries = g.deliveries
    BY <2>2 DEF Rows
  <2>3. ASSUME NEW g, Rows(g)
        PROVE  LET f == [g EXCEPT !.sessions = ty] IN
               Rows(f) /\ f.sessions = ty /\ f.apps = g.apps /\ f.deliveries = g.deliveries
    BY <2>3 DEF Rows
  <2>4. q = [[[p EXCEPT !.deliveries = D] EXCEPT !.apps = tx1] EXCEPT !.sessions = ty] OBVIOUS
  <2> HIDE DEF q
  <2> QED BY <2>1, <2>2, <2>3, <2>4
<1>3. e.users = d.users /\ e.clients = d.clients /\ e.policy = d.policy /\ e.access = d.access
  BY <1>0 DEF FieldsOf
<1>4. e.txns = d.txns /\ e.codes = d.codes /\ e.tokens = d.tokens /\ e.families = d.families
      /\ e.refresh = d.refresh /\ e.consents = d.consents
  BY <1>0 DEF FieldsOf
<1>5. q.users = p.users /\ q.clients = p.clients /\ q.policies = p.policies /\ q.access = p.access
  BY <1>0 DEF Rows
<1>6. q.txns = p.txns /\ q.codes = p.codes /\ q.tokens = p.tokens /\ q.families = p.families
      /\ q.refresh = p.refresh /\ q.consents = p.consents /\ q.err = p.err
  BY <1>0 DEF Rows
<1>9. Owed(e, D) OBVIOUS
<1> HIDE DEF e, q
<1>7. \A c \in Clients : PG!OAuthPolicy(q, c) = e.policy[c]
  <2>1. \A c \in Clients : PG!OAuthPolicy(q, c) = PG!OAuthPolicy(p, c)
    BY <1>5 DEF PG!OAuthPolicy
  <2> QED BY <2>1, <1>3 DEF Shows
<1>8. Shows(e, q)
  BY <1>1, <1>2, <1>3, <1>4, <1>5, <1>6, <1>7, <1>9 DEF Shows, tx1, ty
<1> QED BY <1>8 DEF e, q, tx1, ty

\* PruneLogoutState.
LEMMA ShowsPruneLogoutState ==
    ASSUME NEW d, NEW p, Ready(d), Shows(d, p), NEW t \in Nat \ {0}
    PROVE  Shows(PruneLogoutState(d, t), PG!PruneLogoutState(p, t))
<1> DEFINE I  == {d.sessions[h].id : h \in {x \in DOMAIN d.sessions :
                       d.sessions[x].exp <= t /\ d.sessions[x].ended = 0}}
           J  == {p.sessions[h].id : h \in
                      {g \in PG!OpenRows(p.sessions) : p.sessions[g].exp <= t}}
           d1 == EndSessions(d, I, t)
           p1 == PG!EndSessions(p, J, t)
           x  == Drop(d1.apps, Retired(d1.apps, t))
           y  == Drop(d1.sessions, Retired(d1.sessions, t))
           D  == PG!Drop(p1.deliveries, {i \in DOMAIN p1.deliveries :
                                            PG!Before(p1.deliveries[i].created, t)})
           Old(m) == {b \in DOMAIN m : PG!Before(m[b].ended, t)}
           e  == [d1 EXCEPT !.apps = x, !.sessions = y]
<1>0. StoreOK(d) /\ Registered(d) /\ OneID(d) BY ReadyHas
<1>1. J = I
  <2>1. \A h \in DOMAIN d.sessions : p.sessions[h].id = d.sessions[h].id
                                     /\ p.sessions[h].exp = d.sessions[h].exp
    BY <1>0, Shown
  <2> QED BY <2>1, <1>0, OpenShown
<1>2. Shows(d1, p1) /\ Ready(d1)
  <2> HIDE DEF I, J
  <2> QED BY <1>0, <1>1, ShowsEndSessions, CutsReady
<1>3. PruneLogoutState(d, t) = e BY DEF PruneLogoutState, PruneSessions
<1>4. PG!PruneLogoutState(p, t) =
        [p1 EXCEPT !.deliveries = D, !.apps = PG!Drop(p1.apps, Old(p1.apps)),
                   !.sessions = PG!Drop(p1.sessions, Old(p1.sessions))]
  BY DEF PG!PruneLogoutState, PG!PruneSessions
<1> HIDE DEF d1, p1
<1>5. StoreOK(d1) /\ OneID(d1) BY <1>2, ReadyHas
<1>6. Old(p1.apps) = Retired(d1.apps, t) /\ Old(p1.sessions) = Retired(d1.sessions, t)
  <2>1. \A z \in Nat : PG!Before(z, t) <=> z + LogoutRetention < t
    BY NullAssumption DEF PG!Before
  <2>2. ~PG!Before(Null, t) BY DEF PG!Before
  <2>3. DOMAIN p1.apps = DOMAIN d1.apps /\ DOMAIN p1.sessions = DOMAIN d1.sessions
    BY <1>2, <1>5, Shown
  <2>4. /\ \A h \in DOMAIN d1.sessions : d1.sessions[h].ended \in Nat
        /\ \A a \in DOMAIN d1.apps : d1.apps[a].ended \in Nat
    <3>1. /\ \A h \in DOMAIN d1.sessions : d1.sessions[h] \in Session
          /\ \A a \in DOMAIN d1.apps : d1.apps[a] \in AppSession
      BY <1>5, Records
    <3> QED BY <3>1 DEF Session, AppSession, Time
  <2>5. \A a \in DOMAIN d1.apps :
           p1.apps[a].ended = IF d1.apps[a].ended = 0 THEN Null ELSE d1.apps[a].ended
    BY <1>2, <1>5, Shown
  <2>6. \A h \in DOMAIN d1.sessions :
           p1.sessions[h].ended = IF d1.sessions[h].ended = 0 THEN Null ELSE d1.sessions[h].ended
    BY <1>2, <1>5, Shown
  <2>7. Old(p1.apps) = Retired(d1.apps, t) BY <2>1, <2>2, <2>3, <2>4, <2>5 DEF Retired
  <2>8. Old(p1.sessions) = Retired(d1.sessions, t) BY <2>1, <2>2, <2>3, <2>4, <2>6 DEF Retired
  <2> QED BY <2>7, <2>8
<1>7. /\ PG!Drop(p1.apps, Old(p1.apps)) = Table(x, PG!AppSessionNulls)
      /\ PG!Drop(p1.sessions, Old(p1.sessions)) = Table(y, PG!SessionNulls)
  <2>1. /\ p1.apps = Table(d1.apps, PG!AppSessionNulls)
        /\ p1.sessions = Table(d1.sessions, PG!SessionNulls)
    BY <1>2 DEF Shows
  <2> HIDE DEF Old
  <2> QED BY <2>1, <1>6, TableDrop
<1>8. Owed(e, D)
  <2>1. e.apps = x /\ e.sessions = y
    <3> HIDE DEF x, y
    <3> QED BY <1>5, StoreFields DEF FieldsOf
  <2>2. Owed(d1, p1.deliveries) BY <1>2 DEF Shows
  <2> HIDE DEF e
  <2> QED BY <2>1, <2>2, <1>5, OwedRetained
<1>9. Shows(e, [p1 EXCEPT !.deliveries = D, !.apps = Table(x, PG!AppSessionNulls),
                          !.sessions = Table(y, PG!SessionNulls)])
  <2> HIDE DEF x, y, D
  <2> QED BY <1>2, <1>8, ShowsRecords
<1> HIDE DEF e, x, y, D, Old
<1> QED BY <1>3, <1>4, <1>7, <1>9

\* PruneOIDCState.
LEMMA ShowsPruneOIDCState ==
    ASSUME NEW d, NEW p, StoreOK(d), Shows(d, p), NEW t \in Nat
    PROVE  Shows(PruneOIDCState(d, t), PG!PruneOIDCState(p, t))
<1> DEFINE F  == {f \in DOMAIN d.families : d.families[f].retain <= t}
           R  == {r \in DOMAIN d.refresh : d.refresh[r].family \in F}
           X  == {x \in DOMAIN d.txns : d.txns[x].exp <= t}
           K  == {k \in DOMAIN d.codes : d.codes[k].exp <= t /\ d.codes[k].retain <= t}
           T  == {k \in DOMAIN d.tokens : d.tokens[k].exp <= t}
           fa == Drop(d.families, F)
           re == Drop(d.refresh, R)
           tr == Drop(d.txns, X)
           co == Drop(d.codes, K)
           to == Drop(d.tokens, T)
           tt == Table(tr, PG!TransactionNulls)
           tc == Table(co, PG!CodeNulls)
<1>1. PruneOIDCState(d, t) =
        [d EXCEPT !.families = fa, !.refresh = re, !.txns = tr, !.codes = co, !.tokens = to]
  BY DEF PruneOIDCState
<1>2. /\ p.families = d.families /\ p.refresh = d.refresh /\ p.tokens = d.tokens
      /\ p.txns = Table(d.txns, PG!TransactionNulls) /\ p.codes = Table(d.codes, PG!CodeNulls)
  BY DEF Shows
<1>3. X = {x \in DOMAIN p.txns : p.txns[x].exp <= t}
  <2>1. DOMAIN p.txns = DOMAIN d.txns /\ \A x \in DOMAIN d.txns : p.txns[x].exp = d.txns[x].exp
    BY Shown
  <2> QED BY <2>1
<1>4. K = {k \in {k \in DOMAIN p.codes : p.codes[k].exp <= t} : PG!Lapsed(p.codes[k], t)}
  <2>1. DOMAIN p.codes = DOMAIN d.codes BY Shown
  <2>2. \A k \in DOMAIN d.codes :
           /\ p.codes[k].exp = d.codes[k].exp
           /\ p.codes[k].retain = IF d.codes[k].retain = 0 THEN Null ELSE d.codes[k].retain
           /\ (p.codes[k].retain = Null <=> d.codes[k].retain = 0)
    BY Shown
  <2>3. \A k \in DOMAIN d.codes : d.codes[k].retain \in Nat
    <3>1. \A k \in DOMAIN d.codes : d.codes[k] \in AuthorizationCode BY Records
    <3> QED BY <3>1 DEF AuthorizationCode, Time
  <2>4. \A k \in DOMAIN d.codes : PG!Lapsed(p.codes[k], t) <=> d.codes[k].retain <= t
    BY <2>2, <2>3 DEF PG!Lapsed
  <2> QED BY <2>1, <2>2, <2>4
<1>5. /\ PG!Drop(p.families, F) = fa /\ PG!Drop(p.refresh, R) = re
      /\ PG!Drop(p.tokens, T) = to
  BY <1>2, SameMaps
<1>6. PG!Drop(p.txns, X) = tt /\ PG!Drop(p.codes, K) = tc
  <2> HIDE DEF X, K
  <2> QED BY <1>2, TableDrop
<1>7. PG!PruneOIDCState(p, t) =
        [p EXCEPT !.families = fa, !.refresh = re, !.txns = tt, !.codes = tc, !.tokens = to]
  <2>1. /\ F = {f \in DOMAIN p.families : p.families[f].retain <= t}
        /\ R = {r \in DOMAIN p.refresh : p.refresh[r].family \in F}
        /\ T = {k \in DOMAIN p.tokens : p.tokens[k].exp <= t}
    BY <1>2
  <2>2. PG!PruneOIDCState(p, t) =
          [p EXCEPT !.families = PG!Drop(p.families, F), !.refresh = PG!Drop(p.refresh, R),
                    !.txns = PG!Drop(p.txns, X), !.codes = PG!Drop(p.codes, K),
                    !.tokens = PG!Drop(p.tokens, T)]
    <3> HIDE DEF F, R, X, K, T
    <3> QED BY <2>1, <1>3, <1>4 DEF PG!PruneOIDCState
  <2> HIDE DEF F, R, X, K, T, fa, re, tt, tc, to
  <2> QED BY <2>2, <1>5, <1>6
<1> HIDE DEF fa, re, tr, co, to
<1>8. Shows([d EXCEPT !.families = fa], [p EXCEPT !.families = fa]) BY ShowsPut
<1>9. Shows([[d EXCEPT !.families = fa] EXCEPT !.refresh = re],
            [[p EXCEPT !.families = fa] EXCEPT !.refresh = re]) BY <1>8, ShowsPut
<1>10. Shows([[[d EXCEPT !.families = fa] EXCEPT !.refresh = re] EXCEPT !.txns = tr],
             [[[p EXCEPT !.families = fa] EXCEPT !.refresh = re] EXCEPT !.txns = tt])
  BY <1>9, ShowsPut
<1>11. Shows([[[[d EXCEPT !.families = fa] EXCEPT !.refresh = re] EXCEPT !.txns = tr]
                  EXCEPT !.codes = co],
             [[[[p EXCEPT !.families = fa] EXCEPT !.refresh = re] EXCEPT !.txns = tt]
                  EXCEPT !.codes = tc])
  BY <1>10, ShowsPut
<1>12. Shows([[[[[d EXCEPT !.families = fa] EXCEPT !.refresh = re] EXCEPT !.txns = tr]
                  EXCEPT !.codes = co] EXCEPT !.tokens = to],
             [[[[[p EXCEPT !.families = fa] EXCEPT !.refresh = re] EXCEPT !.txns = tt]
                  EXCEPT !.codes = tc] EXCEPT !.tokens = to])
  BY <1>11, ShowsPut
<1> HIDE DEF tt, tc
<1>13. /\ [d EXCEPT !.families = fa, !.refresh = re, !.txns = tr, !.codes = co, !.tokens = to]
            = [[[[[d EXCEPT !.families = fa] EXCEPT !.refresh = re] EXCEPT !.txns = tr]
                  EXCEPT !.codes = co] EXCEPT !.tokens = to]
       /\ [p EXCEPT !.families = fa, !.refresh = re, !.txns = tt, !.codes = tc, !.tokens = to]
            = [[[[[p EXCEPT !.families = fa] EXCEPT !.refresh = re] EXCEPT !.txns = tt]
                  EXCEPT !.codes = tc] EXCEPT !.tokens = to]
  OBVIOUS
<1> QED BY <1>1, <1>7, <1>12, <1>13

(***************************************************************************)
(* Saves.                                                                  *)
(***************************************************************************)
\* A request, a code, a token, a family; a refresh token of a family.
LEMMA ShowsSaves ==
    ASSUME NEW d, NEW p, Shows(d, p), NEW k, NEW v
    PROVE  /\ Shows([d EXCEPT !.txns = Put(d.txns, k, v)], PG!SaveAuthzTransaction(p, k, v))
           /\ Shows([d EXCEPT !.codes = Put(d.codes, k, v)], PG!SaveAuthorizationCode(p, k, v))
           /\ Shows([d EXCEPT !.tokens = Put(d.tokens, k, v)], PG!SaveAccessToken(p, k, v))
           /\ Shows([d EXCEPT !.families = Put(d.families, k, v)], PG!SaveRefreshFamily(p, k, v))
           /\ v.family \in DOMAIN d.families =>
                 Shows([d EXCEPT !.refresh = Put(d.refresh, k, v)], PG!SaveRefreshToken(p, k, v))
<1>1. /\ p.families = d.families /\ p.refresh = d.refresh /\ p.tokens = d.tokens
      /\ p.txns = Table(d.txns, PG!TransactionNulls) /\ p.codes = Table(d.codes, PG!CodeNulls)
  BY DEF Shows
<1>2. Shows([d EXCEPT !.txns = Put(d.txns, k, v)], PG!SaveAuthzTransaction(p, k, v))
  <2> DEFINE x == Put(d.txns, k, v)
  <2>1. PG!SaveAuthzTransaction(p, k, v) = [p EXCEPT !.txns = Table(x, PG!TransactionNulls)]
    BY <1>1, TablePut DEF PG!SaveAuthzTransaction
  <2> HIDE DEF x
  <2>2. Shows([d EXCEPT !.txns = x], [p EXCEPT !.txns = Table(x, PG!TransactionNulls)])
    BY ShowsPut
  <2> QED BY <2>1, <2>2 DEF x
<1>3. Shows([d EXCEPT !.codes = Put(d.codes, k, v)], PG!SaveAuthorizationCode(p, k, v))
  <2> DEFINE x == Put(d.codes, k, v)
  <2>1. PG!SaveAuthorizationCode(p, k, v) = [p EXCEPT !.codes = Table(x, PG!CodeNulls)]
    BY <1>1, TablePut DEF PG!SaveAuthorizationCode
  <2> HIDE DEF x
  <2>2. Shows([d EXCEPT !.codes = x], [p EXCEPT !.codes = Table(x, PG!CodeNulls)])
    BY ShowsPut
  <2> QED BY <2>1, <2>2 DEF x
<1>4. Shows([d EXCEPT !.tokens = Put(d.tokens, k, v)], PG!SaveAccessToken(p, k, v))
  <2> DEFINE x == Put(d.tokens, k, v)
  <2>1. PG!SaveAccessToken(p, k, v) = [p EXCEPT !.tokens = x]
    BY <1>1, SameMaps DEF PG!SaveAccessToken
  <2> HIDE DEF x
  <2>2. Shows([d EXCEPT !.tokens = x], [p EXCEPT !.tokens = x])
    BY ShowsPut
  <2> QED BY <2>1, <2>2 DEF x
<1>5. Shows([d EXCEPT !.families = Put(d.families, k, v)], PG!SaveRefreshFamily(p, k, v))
  <2> DEFINE x == Put(d.families, k, v)
  <2>1. PG!SaveRefreshFamily(p, k, v) = [p EXCEPT !.families = x]
    BY <1>1, SameMaps DEF PG!SaveRefreshFamily
  <2> HIDE DEF x
  <2>2. Shows([d EXCEPT !.families = x], [p EXCEPT !.families = x])
    BY ShowsPut
  <2> QED BY <2>1, <2>2 DEF x
<1>6. v.family \in DOMAIN d.families =>
        Shows([d EXCEPT !.refresh = Put(d.refresh, k, v)], PG!SaveRefreshToken(p, k, v))
  <2> SUFFICES ASSUME v.family \in DOMAIN d.families
               PROVE  Shows([d EXCEPT !.refresh = Put(d.refresh, k, v)], PG!SaveRefreshToken(p, k, v))
    OBVIOUS
  <2> DEFINE x == Put(d.refresh, k, v)
  <2>1. PG!SaveRefreshToken(p, k, v) = [p EXCEPT !.refresh = x]
    BY <1>1, SameMaps DEF PG!SaveRefreshToken
  <2> HIDE DEF x
  <2>2. Shows([d EXCEPT !.refresh = x], [p EXCEPT !.refresh = x])
    BY ShowsPut
  <2> QED BY <2>1, <2>2 DEF x
<1> QED BY <1>2, <1>3, <1>4, <1>5, <1>6

\* A session of an ID no other row has, open.
LEMMA ShowsSaveSession ==
    ASSUME NEW d, NEW p, StoreOK(d), Shows(d, p), NEW h, NEW v, v.ended = 0,
           h \notin Ended(d.sessions),
           \A g \in DOMAIN d.sessions \ {h} : d.sessions[g].id # v.id
    PROVE  Shows([d EXCEPT !.sessions = Put(d.sessions, h, v)], PG!SaveSession(p, h, v))
<1> DEFINE x == Put(d.sessions, h, v)
           y == Table(x, PG!SessionNulls)
           e == [d EXCEPT !.sessions = x]
<1>1. PG!Put(p.sessions, h, PG!Bind(v, PG!SessionNulls)) = y BY TablePut DEF Shows
<1>2. ~ \E g \in DOMAIN p.sessions \ {h} : p.sessions[g].id = v.id
  <2>1. DOMAIN p.sessions = DOMAIN d.sessions
        /\ \A g \in DOMAIN d.sessions : p.sessions[g].id = d.sessions[g].id
    BY Shown
  <2> QED BY <2>1
<1>3. PG!SaveSession(p, h, v) = [p EXCEPT !.sessions = y] BY <1>1, <1>2 DEF PG!SaveSession
<1>4. Owed(e, p.deliveries)
  <2>1. e.sessions = x /\ e.apps = d.apps
    <3> HIDE DEF x
    <3> QED BY StoreFields DEF FieldsOf
  <2>2. Ended(x) = Ended(d.sessions) /\ \A g \in Ended(d.sessions) : x[g] = d.sessions[g]
    BY DEF Ended, Put
  <2> HIDE DEF e, x
  <2> QED BY <2>1, <2>2, OwedSame DEF Shows
<1> HIDE DEF x
<1>5. Shows(e, [p EXCEPT !.sessions = y, !.deliveries = p.deliveries]) BY <1>4, ShowsSessions
<1> HIDE DEF y, e
<1>6. [p EXCEPT !.sessions = y, !.deliveries = p.deliveries] = [p EXCEPT !.sessions = y]
  BY DEF Shows, Rows
<1> QED BY <1>3, <1>5, <1>6 DEF e, x

\* A credential taken away while its session is open.
LEMMA ShowsRemoveSession ==
    ASSUME NEW d, NEW p, StoreOK(d), Shows(d, p), NEW h, h \notin Ended(d.sessions)
    PROVE  Shows([d EXCEPT !.sessions = Drop(d.sessions, {h})], PG!RemoveSessionCredential(p, h))
<1> DEFINE x == Drop(d.sessions, {h})
           y == Table(x, PG!SessionNulls)
           e == [d EXCEPT !.sessions = x]
<1>1. PG!RemoveSessionCredential(p, h) = [p EXCEPT !.sessions = y]
  BY TableDrop DEF Shows, PG!RemoveSessionCredential
<1>4. Owed(e, p.deliveries)
  <2>1. e.sessions = x /\ e.apps = d.apps
    <3> HIDE DEF x
    <3> QED BY StoreFields DEF FieldsOf
  <2>2. Ended(x) = Ended(d.sessions) /\ \A g \in Ended(d.sessions) : x[g] = d.sessions[g]
    BY DEF Ended, Drop
  <2> HIDE DEF e, x
  <2> QED BY <2>1, <2>2, OwedSame DEF Shows
<1> HIDE DEF x
<1>5. Shows(e, [p EXCEPT !.sessions = y, !.deliveries = p.deliveries]) BY <1>4, ShowsSessions
<1> HIDE DEF y, e
<1>6. [p EXCEPT !.sessions = y, !.deliveries = p.deliveries] = [p EXCEPT !.sessions = y]
  BY DEF Shows, Rows
<1> QED BY <1>1, <1>5, <1>6 DEF e, x

\* An app session, the only open one of its session and client.
LEMMA ShowsSaveAppSession ==
    ASSUME NEW d, NEW p, StoreOK(d), Shows(d, p), NEW a, NEW v, v.ended = 0,
           a \notin Ended(d.apps),
           \A b \in DOMAIN d.apps \ {a} :
              ~(d.apps[b].ended = 0 /\ d.apps[b].op = v.op /\ d.apps[b].client = v.client)
    PROVE  Shows([d EXCEPT !.apps = Put(d.apps, a, v)], PG!SaveAppSession(p, a, v))
<1> DEFINE x == Put(d.apps, a, v)
           y == Table(x, PG!AppSessionNulls)
           e == [d EXCEPT !.apps = x]
<1>1. PG!Put(p.apps, a, PG!Bind(v, PG!AppSessionNulls)) = y BY TablePut DEF Shows
<1>2. ~ \E b \in DOMAIN p.apps \ {a} : /\ p.apps[b].ended = Null /\ p.apps[b].op = v.op
                                       /\ p.apps[b].client = v.client
  <2>1. DOMAIN p.apps = DOMAIN d.apps
        /\ \A b \in DOMAIN d.apps : /\ (p.apps[b].ended = Null <=> d.apps[b].ended = 0)
                                    /\ p.apps[b].op = d.apps[b].op
                                    /\ p.apps[b].client = d.apps[b].client
    BY Shown
  <2> QED BY <2>1
<1>3. PG!SaveAppSession(p, a, v) = [p EXCEPT !.apps = y] BY <1>1, <1>2 DEF PG!SaveAppSession
<1>4. Owed(e, p.deliveries)
  <2>1. e.apps = x /\ e.sessions = d.sessions
    <3> HIDE DEF x
    <3> QED BY StoreFields DEF FieldsOf
  <2>2. Ended(x) = Ended(d.apps) /\ \A b \in Ended(d.apps) : x[b] = d.apps[b]
    BY DEF Ended, Put
  <2> HIDE DEF e, x
  <2> QED BY <2>1, <2>2, OwedSame DEF Shows
<1> HIDE DEF x
<1>5. Shows(e, [p EXCEPT !.apps = y, !.deliveries = p.deliveries]) BY <1>4, ShowsApps
<1> HIDE DEF y, e
<1>6. [p EXCEPT !.apps = y, !.deliveries = p.deliveries] = [p EXCEPT !.apps = y]
  BY DEF Shows, Rows
<1> QED BY <1>3, <1>5, <1>6 DEF e, x

(***************************************************************************)
(* What a script does.                                                     *)
(***************************************************************************)
\* run on what shows d, the script leaves what shows e
Does(d, s, e) ==
    /\ IsScript(s)
    /\ \A p : Shows(d, p) => Shows(e, PG!Run(p, s))

\* No call does nothing.
LEMMA DoesNothing == ASSUME NEW d PROVE Does(d, <<>>, d)
BY NoCall, RunOne DEF Does

\* A script of one call does what the call does.
LEMMA DoesCall ==
    ASSUME NEW d, NEW e, NEW c, \A p : Shows(d, p) => Shows(e, PG!Do(p, c))
    PROVE  Does(d, <<c>>, e)
<1>1. IsScript(<<c>>) BY OneCall
<1>2. ASSUME NEW p, Shows(d, p) PROVE Shows(e, PG!Run(p, <<c>>))
  <2>1. PG!Run(p, <<c>>) = PG!Call(p, c) BY RunOne
  <2>2. p.err = FALSE BY <1>2 DEF Shows
  <2>3. PG!Call(p, c) = PG!Do(p, c) BY <2>2 DEF PG!Call
  <2> QED BY <1>2, <2>1, <2>3
<1> QED BY <1>1, <1>2 DEF Does

\* Two scripts do the one and then the other.
LEMMA DoesBoth ==
    ASSUME NEW d, NEW e, NEW g, NEW s, NEW t, Does(d, s, e), Does(e, t, g)
    PROVE  Does(d, s \o t, g)
<1>1. IsScript(s) /\ IsScript(t) BY DEF Does
<1>2. IsScript(s \o t) BY <1>1, TwoScripts
<1>3. ASSUME NEW p, Shows(d, p) PROVE Shows(g, PG!Run(p, s \o t))
  <2>1. Shows(e, PG!Run(p, s)) BY <1>3 DEF Does
  <2>2. Shows(g, PG!Run(PG!Run(p, s), t)) BY <2>1 DEF Does
  <2> QED BY <1>1, <2>2, RunTwo
<1> QED BY <1>2, <1>3 DEF Does


(***************************************************************************)
(* Loops.                                                                  *)
(***************************************************************************)
\* A script built step by step does what its steps do.
LEMMA DoesSteps ==
    ASSUME NEW n \in Nat, NEW D, NEW P, NEW s, P[0] = <<>>,
           \A i \in 1..n : P[i] = P[i - 1] \o s[i] /\ Does(D[i - 1], s[i], D[i])
    PROVE  Does(D[0], P[n], D[n])
<1> DEFINE S == {i \in Nat : i <= n => Does(D[0], P[i], D[i])}
<1>1. 0 \in S BY DoesNothing
<1>2. ASSUME NEW i \in Nat, i \in S PROVE i + 1 \in S
  <2> SUFFICES ASSUME i + 1 <= n PROVE Does(D[0], P[i + 1], D[i + 1])
    OBVIOUS
  <2>1. Does(D[0], P[i], D[i]) BY <1>2
  <2>2. i + 1 \in 1..n /\ (i + 1) - 1 = i OBVIOUS
  <2>3. P[i + 1] = P[i] \o s[i + 1] /\ Does(D[i], s[i + 1], D[i + 1]) BY <2>2
  <2> QED BY <2>1, <2>3, DoesBoth
<1> HIDE DEF S
<1>3. \A i \in Nat : i \in S BY <1>1, <1>2, Numbers
<1>4. n \in S BY <1>3
<1> QED BY <1>4 DEF S

\* A finite set is listed by its sequence.
LEMMA Listed ==
    ASSUME NEW K, IsFiniteSet(K)
    PROVE  LET q == SetToSeq(K) IN
           /\ Len(q) \in Nat /\ q \in [1..Len(q) -> K] /\ q \in Seq(K)
           /\ K = {q[i] : i \in 1..Len(q)}
<1> DEFINE n == Cardinality(K)
           q == SetToSeq(K)
<1>1. n \in Nat /\ ExistsBijection(1..n, K) BY FS_CardinalityType
<1>2. PICK f : f \in Bijection(1..n, K) BY <1>1 DEF ExistsBijection
<1>3. f \in [1..n -> K] /\ IsInjective(f) BY <1>2 DEF Bijection, Injection, Surjection
<1>4. q \in [1..n -> K] /\ IsInjective(q) BY <1>3 DEF SetToSeq
<1> HIDE DEF q
<1>5. q \in Injection(1..n, K) BY <1>4 DEF Injection
<1>6. IsFiniteSet(1..n) /\ Cardinality(1..n) = n BY <1>1, FS_Interval
<1> HIDE DEF n
<1>7. q \in Surjection(1..n, K) BY <1>5, <1>6, FS_Injection DEF n
<1>8. K = {q[i] : i \in 1..n} BY <1>4, <1>7 DEF Surjection
<1>9. q \in Seq(K) /\ Len(q) = n BY <1>1, <1>4
<1> QED BY <1>1, <1>4, <1>8, <1>9 DEF q

\* One call more.
LEMMA Longer ==
    ASSUME NEW n \in Nat, NEW f
    PROVE  [j \in 1..(n + 1) |-> f[j]] = [j \in 1..n |-> f[j]] \o <<f[n + 1]>>
<1> DEFINE A == {f[j] : j \in 1..(n + 1)}
           s == [j \in 1..n |-> f[j]]
           t == <<f[n + 1]>>
           u == [j \in 1..(n + 1) |-> f[j]]
<1>1. s \in Seq(A) /\ t \in Seq(A) /\ u \in Seq(A) OBVIOUS
<1>2. Len(s) = n /\ Len(t) = 1 /\ Len(u) = n + 1 /\ t[1] = f[n + 1]
  <2>1. IsScript(s) /\ IsScript(u) BY <1>1 DEF IsScript
  <2>2. Len(s) = n BY ManyCalls
  <2>3. Len(u) = n + 1 BY ManyCalls
  <2> QED BY <2>2, <2>3
<1>3. \A j \in 1..n : s[j] = f[j] OBVIOUS
<1>4. \A j \in 1..(n + 1) : u[j] = f[j] OBVIOUS
<1> HIDE DEF s, t, u, A
<1>5. IsScript(s) /\ IsScript(t) /\ IsScript(u) BY <1>1 DEF IsScript
<1>6. /\ IsScript(s \o t) /\ Len(s \o t) = n + 1
      /\ \A j \in 1..n : (s \o t)[j] = s[j]
      /\ (s \o t)[n + 1] = t[1]
  <2>1. /\ IsScript(s \o t) /\ Len(s \o t) = Len(s) + Len(t)
        /\ \A j \in 1..Len(s) : (s \o t)[j] = s[j]
        /\ \A j \in 1..Len(t) : (s \o t)[Len(s) + j] = t[j]
    BY <1>5, TwoScripts
  <2>2. 1 \in 1..Len(t) BY <1>2
  <2>3. (s \o t)[Len(s) + 1] = t[1] BY <2>1, <2>2
  <2> QED BY <1>2, <2>1, <2>3
<1>8. ASSUME NEW j \in 1..(n + 1) PROVE (s \o t)[j] = u[j]
  <2>1. CASE j = n + 1 BY <1>2, <1>4, <1>6, <2>1
  <2>2. CASE j # n + 1
    <3>1. j \in 1..n BY <2>2
    <3> QED BY <1>3, <1>4, <1>6, <3>1
  <2> QED BY <2>1, <2>2
<1>9. \E B, C : (s \o t) \in Seq(B) /\ u \in Seq(C) BY <1>5, <1>6 DEF IsScript
<1>7. u = s \o t
  <2>1. PICK B, C : (s \o t) \in Seq(B) /\ u \in Seq(C) BY <1>9
  <2>2. (s \o t) \in Seq(B \cup C) /\ u \in Seq(B \cup C) BY <2>1
  <2> QED BY <1>2, <1>6, <1>8, <2>2
<1> QED BY <1>7 DEF s, t, u

\* A call for each of a finite set of keys, in the order they are listed.
LEMMA DoesList ==
    ASSUME NEW K, IsFiniteSet(K), NEW c, NEW G,
           \A S \in SUBSET K : \A k \in K : Does(G[S], <<c[k]>>, G[S \cup {k}])
    PROVE  LET q == SetToSeq(K) IN Does(G[{}], [i \in 1..Len(q) |-> c[q[i]]], G[K])
<1> DEFINE q == SetToSeq(K)
           n == Len(q)
           Up(i) == {q[j] : j \in 1..i}
           D == [i \in 0..n |-> G[Up(i)]]
           f == [i \in 1..n |-> c[q[i]]]
           P == [i \in 0..n |-> [j \in 1..i |-> f[j]]]
           s == [i \in 1..n |-> <<f[i]>>]
<1>1. n \in Nat /\ q \in [1..n -> K] /\ K = Up(n) BY Listed
<1> HIDE DEF q, n
<1>2. P[0] = <<>>
  <2>1. P[0] = [j \in 1..0 |-> f[j]] BY <1>1
  <2> QED BY <2>1
<1>3. ASSUME NEW i \in 1..n PROVE P[i] = P[i - 1] \o s[i]
  <2>1. i - 1 \in 0..n /\ i - 1 \in Nat /\ (i - 1) + 1 = i /\ i \in 0..n BY <1>1
  <2>2. P[i] = [j \in 1..i |-> f[j]] /\ P[i - 1] = [j \in 1..(i - 1) |-> f[j]] /\ s[i] = <<f[i]>>
    BY <2>1
  <2> HIDE DEF P, s, f
  <2> QED BY <2>1, <2>2, Longer
<1>4. ASSUME NEW i \in 1..n PROVE Does(D[i - 1], s[i], D[i])
  <2>1. i - 1 \in 0..n /\ i \in 0..n /\ q[i] \in K BY <1>1
  <2>7. \A j \in 1..i : j \in 1..(i - 1) \/ j = i BY <1>1
  <2>8. i \in 1..i /\ \A j \in 1..(i - 1) : j \in 1..i /\ j \in 1..n BY <1>1
  <2>2. Up(i) = Up(i - 1) \cup {q[i]} BY <2>7, <2>8
  <2>3. Up(i - 1) \in SUBSET K BY <1>1, <2>8
  <2>4. D[i - 1] = G[Up(i - 1)] /\ D[i] = G[Up(i - 1) \cup {q[i]}] BY <2>1, <2>2
  <2>5. s[i] = <<c[q[i]]>> OBVIOUS
  <2> HIDE DEF D, s, Up
  <2>6. Does(G[Up(i - 1)], <<c[q[i]]>>, G[Up(i - 1) \cup {q[i]}]) BY <2>1, <2>3
  <2> QED BY <2>4, <2>5, <2>6
<1>5. Does(D[0], P[n], D[n])
  <2> HIDE DEF D, P, s
  <2> QED BY <1>1, <1>2, <1>3, <1>4, DoesSteps
<1>6. P[n] = f
  <2>1. n \in 0..n BY <1>1
  <2> QED BY <2>1
<1>7. D[0] = G[{}]
  <2>1. Up(0) = {} OBVIOUS
  <2>2. 0 \in 0..n BY <1>1
  <2>3. D[0] = G[Up(0)] BY <2>2
  <2> HIDE DEF Up, D
  <2> QED BY <2>1, <2>3
<1>8. D[n] = G[K]
  <2>2. n \in 0..n BY <1>1
  <2>3. D[n] = G[Up(n)] BY <2>2
  <2> HIDE DEF Up, D
  <2> QED BY <1>1, <2>3
<1>9. Does(G[{}], f, G[K])
  <2> HIDE DEF D, P, f
  <2> QED BY <1>5, <1>6, <1>7, <1>8
<1> QED BY <1>9 DEF q, n

\* A method run on each of a finite set of keys, a record saved under each.
LEMMA DoesEach ==
    ASSUME NEW K, IsFiniteSet(K), NEW op, NEW G,
           \A S \in SUBSET K : \A k \in K : Does(G[S], Do(op, k), G[S \cup {k}])
    PROVE  Does(G[{}], DoEach(op, K), G[K])
<1> DEFINE c == [k \in K |-> CallOf(op, k, <<>>, now)]
           q == SetToSeq(K)
<1>1. \A k \in K : c[k] = CallOf(op, k, <<>>, now) OBVIOUS
<1>2. \A k \in K : Do(op, k) = <<c[k]>> BY <1>1 DEF Do, Tx, TxAt
<1>3. q \in [1..Len(q) -> K] BY Listed
<1>4. DoEach(op, K) = [i \in 1..Len(q) |-> c[q[i]]]
  <2> HIDE DEF q
  <2>1. \A i \in 1..Len(q) : c[q[i]] = CallOf(op, q[i], <<>>, now) BY <1>1, <1>3
  <2> QED BY <2>1 DEF DoEach, q
<1> HIDE DEF c
<1>5. \A S \in SUBSET K : \A k \in K : Does(G[S], <<c[k]>>, G[S \cup {k}]) BY <1>2
<1>6. Does(G[{}], [i \in 1..Len(q) |-> c[q[i]]], G[K]) BY <1>5, DoesList
<1> QED BY <1>4, <1>6

\* So it is of a loop of saves.
LEMMA DoesSave ==
    ASSUME NEW K, IsFiniteSet(K), NEW op, NEW m, NEW G,
           \A S \in SUBSET K : \A k \in K : Does(G[S], Tx(op, k, m[k]), G[S \cup {k}])
    PROVE  Does(G[{}], Save(op, m, K), G[K])
<1> DEFINE c == [k \in K |-> CallOf(op, k, m[k], now)]
           q == SetToSeq(K)
<1>1. \A k \in K : c[k] = CallOf(op, k, m[k], now) OBVIOUS
<1>2. \A k \in K : Tx(op, k, m[k]) = <<c[k]>> BY <1>1 DEF Tx, TxAt
<1>3. q \in [1..Len(q) -> K] BY Listed
<1>4. Save(op, m, K) = [i \in 1..Len(q) |-> c[q[i]]]
  <2> HIDE DEF q
  <2>1. \A i \in 1..Len(q) : c[q[i]] = CallOf(op, q[i], m[q[i]], now) BY <1>1, <1>3
  <2> QED BY <2>1 DEF Save, q
<1> HIDE DEF c
<1>5. \A S \in SUBSET K : \A k \in K : Does(G[S], <<c[k]>>, G[S \cup {k}]) BY <1>2
<1>6. Does(G[{}], [i \in 1..Len(q) |-> c[q[i]]], G[K]) BY <1>5, DoesList
<1> QED BY <1>4, <1>6

\* Scripts joined are built one by one.
LEMMA JoinedIs ==
    ASSUME NEW z, Len(z) \in Nat
    PROVE  \E P : /\ P[0] = <<>>
                  /\ \A i \in 1..Len(z) : P[i] = P[i - 1] \o z[i]
                  /\ Joined(z) = P[Len(z)]
<1> DEFINE Up(n, f) == f = [i \in 0..n |-> IF i = 0 THEN <<>> ELSE f[i - 1] \o z[i]]
           S == {n \in Nat : \E f : Up(n, f)}
<1>1. 0 \in S
  <2>1. Up(0, [i \in 0..0 |-> <<>>])
    OBVIOUS
  <2> QED BY <2>1
<1>2. ASSUME NEW n \in Nat, n \in S PROVE n + 1 \in S
  <2>1. PICK f : Up(n, f)
    BY <1>2
  <2> DEFINE g == [i \in 0..(n + 1) |-> IF i = n + 1 THEN f[n] \o z[n + 1] ELSE f[i]]
             h == [i \in 0..(n + 1) |-> IF i = 0 THEN <<>> ELSE g[i - 1] \o z[i]]
  <2>2. ASSUME NEW i \in 0..(n + 1) PROVE g[i] = h[i]
    <3>1. CASE i = n + 1
      <4>1. g[i] = f[n] \o z[n + 1] /\ g[n] = f[n] /\ i # 0 /\ i - 1 = n
        BY <3>1
      <4> QED BY <3>1, <4>1
    <3>2. CASE i = 0
      <4>1. g[i] = f[0] /\ f[0] = <<>>
        BY <2>1, <3>2
      <4> QED BY <3>2, <4>1
    <3>3. CASE i # 0 /\ i # n + 1
      <4>1. i \in 0..n /\ i - 1 \in 0..n /\ i - 1 # n + 1 /\ i - 1 \in 0..(n + 1)
        BY <3>3
      <4>2. g[i] = f[i] /\ g[i - 1] = f[i - 1]
        BY <3>3, <4>1
      <4>3. f[i] = f[i - 1] \o z[i]
        BY <2>1, <3>3, <4>1
      <4> QED BY <3>3, <4>2, <4>3
    <3> QED BY <3>1, <3>2, <3>3
  <2>3. g = h
    <3> HIDE DEF Up
    <3> QED BY <2>2
  <2>4. Up(n + 1, g)
    <3> HIDE DEF g
    <3> QED BY <2>3
  <2> HIDE DEF Up
  <2> QED BY <2>4
<1> HIDE DEF S
<1>3. \A n \in Nat : n \in S
  BY <1>1, <1>2, Numbers
<1>4. \E f : Up(Len(z), f)
  BY <1>3 DEF S
<1>5. Joined(z) = (CHOOSE f : Up(Len(z), f))[Len(z)] BY DEF Joined
<1>6. PICK f : Up(Len(z), f) /\ Joined(z) = f[Len(z)]
  <2> HIDE DEF Up
  <2> QED BY <1>4, <1>5
<1>7. f[0] = <<>> /\ \A i \in 1..Len(z) : f[i] = f[i - 1] \o z[i] BY <1>6
<1> QED BY <1>6, <1>7

\* A script for each of a finite set of keys.
LEMMA DoesJoined ==
    ASSUME NEW K, IsFiniteSet(K), NEW s, NEW G,
           \A S \in SUBSET K : \A k \in K : Does(G[S], s[k], G[S \cup {k}])
    PROVE  LET q == SetToSeq(K) IN Does(G[{}], Joined([i \in 1..Len(q) |-> s[q[i]]]), G[K])
<1> DEFINE q == SetToSeq(K)
           n == Len(q)
           Up(i) == {q[j] : j \in 1..i}
           D == [i \in 0..n |-> G[Up(i)]]
           z == [i \in 1..n |-> s[q[i]]]
<1>1. n \in Nat /\ q \in [1..n -> K] /\ K = Up(n) BY Listed
<1> HIDE DEF q, n
<1>2. Len(z) = n BY <1>1, ManyCalls
<1>3. PICK P : /\ P[0] = <<>>
               /\ \A i \in 1..n : P[i] = P[i - 1] \o z[i]
               /\ Joined(z) = P[n]
  <2> HIDE DEF z
  <2> QED BY <1>1, <1>2, JoinedIs
<1>4. ASSUME NEW i \in 1..n PROVE Does(D[i - 1], z[i], D[i])
  <2>1. i - 1 \in 0..n /\ i \in 0..n /\ q[i] \in K BY <1>1
  <2>7. \A j \in 1..i : j \in 1..(i - 1) \/ j = i BY <1>1
  <2>8. i \in 1..i /\ \A j \in 1..(i - 1) : j \in 1..i /\ j \in 1..n BY <1>1
  <2>2. Up(i) = Up(i - 1) \cup {q[i]} BY <2>7, <2>8
  <2>3. Up(i - 1) \in SUBSET K BY <1>1, <2>8
  <2>4. D[i - 1] = G[Up(i - 1)] /\ D[i] = G[Up(i - 1) \cup {q[i]}] BY <2>1, <2>2
  <2>5. z[i] = s[q[i]] OBVIOUS
  <2> HIDE DEF D, z, Up
  <2>6. Does(G[Up(i - 1)], s[q[i]], G[Up(i - 1) \cup {q[i]}]) BY <2>1, <2>3
  <2> QED BY <2>4, <2>5, <2>6
<1>5. Does(D[0], P[n], D[n])
  <2> HIDE DEF D, z
  <2> QED BY <1>1, <1>3, <1>4, DoesSteps
<1>7. D[0] = G[{}]
  <2>1. Up(0) = {} OBVIOUS
  <2>2. 0 \in 0..n BY <1>1
  <2>3. D[0] = G[Up(0)] BY <2>2
  <2> HIDE DEF Up, D
  <2> QED BY <2>1, <2>3
<1>8. D[n] = G[K]
  <2>2. n \in 0..n BY <1>1
  <2>3. D[n] = G[Up(n)] BY <2>2
  <2> HIDE DEF Up, D
  <2> QED BY <1>1, <2>3
<1>9. Does(G[{}], Joined(z), G[K])
  <2> HIDE DEF D, z
  <2> QED BY <1>3, <1>5, <1>7, <1>8
<1> QED BY <1>9 DEF q, n

(***************************************************************************)
(* What each method does, called on a ready state.                         *)
(***************************************************************************)
\* A method that does what its operator says.
LEMMA DoesOne ==
    ASSUME NEW d, NEW e, NEW op, NEW k, NEW v, NEW t,
           \A p : Shows(d, p) => Shows(e, PG!Do(p, CallOf(op, k, v, t)))
    PROVE  Does(d, TxAt(op, k, v, t), e)
BY DoesCall DEF TxAt

\* Ends, revocations and pruning.
LEMMA CutsDo ==
    ASSUME NEW d, Ready(d), NEW t \in Nat \ {0}, NEW v
    PROVE  /\ \A k : Does(d, TxAt("EndSession", k, v, t), EndSession(d, k, t))
           /\ \A k : Does(d, TxAt("EndAppSession", k, v, t), EndAppSessions(d, {k}, t))
           /\ \A k : Does(d, TxAt("RevokeAccessToken", k, v, t), RevokeAccessToken(d, k))
           /\ \A k \in DOMAIN d.families :
                 Does(d, TxAt("RevokeRefreshFamily", k, v, t), RevokeRefreshFamily(d, k))
           /\ \A k : Does(d, TxAt("RevokeAccessTokensForUser", k, v, t),
                          RevokeAccessTokensForUser(d, k))
           /\ \A k : Does(d, TxAt("RevokeAccessTokensForCode", k, v, t),
                          RevokeAccessTokensForCode(d, k))
           /\ \A k : Does(d, TxAt("DeleteUserSessions", k, v, t), DeleteUserSessions(d, k, t))
           /\ \A k : Does(d, TxAt("PruneLogoutState", k, v, t), PruneLogoutState(d, t))
           /\ \A k : Does(d, TxAt("PruneOIDCState", k, v, t), PruneOIDCState(d, t))
<1>1. StoreOK(d) /\ Registered(d) /\ OneID(d) /\ Tied(d) BY ReadyHas
<1>2. ASSUME NEW k PROVE Does(d, TxAt("EndSession", k, v, t), EndSession(d, k, t))
  <2>1. ASSUME NEW p, Shows(d, p)
        PROVE  Shows(EndSession(d, k, t), PG!Do(p, CallOf("EndSession", k, v, t)))
    <3>1. Shows(EndSession(d, k, t), PG!EndSessions(p, {k}, t))
      BY <1>1, <2>1, ShowsEndSessions DEF EndSession
    <3>2. PG!Do(p, CallOf("EndSession", k, v, t)) = PG!EndSessions(p, {k}, t)
      BY DEF PG!Do, CallOf
    <3> QED BY <3>1, <3>2
  <2> QED BY <2>1, DoesOne
<1>3. ASSUME NEW k PROVE Does(d, TxAt("EndAppSession", k, v, t), EndAppSessions(d, {k}, t))
  <2>1. ASSUME NEW p, Shows(d, p)
        PROVE  Shows(EndAppSessions(d, {k}, t), PG!Do(p, CallOf("EndAppSession", k, v, t)))
    <3>1. Shows(EndAppSessions(d, {k}, t), PG!EndAppSessions(p, {k}, t))
      BY <1>1, <2>1, ShowsEndApps
    <3>2. PG!Do(p, CallOf("EndAppSession", k, v, t)) = PG!EndAppSessions(p, {k}, t)
      BY DEF PG!Do, CallOf
    <3> QED BY <3>1, <3>2
  <2> QED BY <2>1, DoesOne
<1>4. ASSUME NEW k PROVE Does(d, TxAt("RevokeAccessToken", k, v, t), RevokeAccessToken(d, k))
  <2>1. ASSUME NEW p, Shows(d, p)
        PROVE  Shows(RevokeAccessToken(d, k), PG!Do(p, CallOf("RevokeAccessToken", k, v, t)))
    <3>1. Shows(RevokeAccessToken(d, k), PG!RevokeAccessToken(p, k))
      BY <1>1, <2>1, ShowsRevocation
    <3>2. PG!Do(p, CallOf("RevokeAccessToken", k, v, t)) = PG!RevokeAccessToken(p, k)
      BY DEF PG!Do, CallOf
    <3> QED BY <3>1, <3>2
  <2> QED BY <2>1, DoesOne
<1>5. ASSUME NEW k \in DOMAIN d.families
      PROVE  Does(d, TxAt("RevokeRefreshFamily", k, v, t), RevokeRefreshFamily(d, k))
  <2>1. ASSUME NEW p, Shows(d, p)
        PROVE  Shows(RevokeRefreshFamily(d, k), PG!Do(p, CallOf("RevokeRefreshFamily", k, v, t)))
    <3>1. Shows(RevokeRefreshFamily(d, k), PG!RevokeRefreshFamily(p, k))
      BY <1>1, <2>1, ShowsFamilies DEF RevokeRefreshFamily, PG!RevokeRefreshFamily
    <3>2. PG!Do(p, CallOf("RevokeRefreshFamily", k, v, t)) = PG!RevokeRefreshFamily(p, k)
      BY DEF PG!Do, CallOf
    <3> QED BY <3>1, <3>2
  <2> QED BY <2>1, DoesOne
<1>6. ASSUME NEW k
      PROVE  Does(d, TxAt("RevokeAccessTokensForUser", k, v, t), RevokeAccessTokensForUser(d, k))
  <2>1. ASSUME NEW p, Shows(d, p)
        PROVE  Shows(RevokeAccessTokensForUser(d, k), PG!Do(p, CallOf("RevokeAccessTokensForUser", k, v, t)))
    <3>1. Shows(RevokeAccessTokensForUser(d, k), PG!RevokeAccessTokensForUser(p, k))
      BY <1>1, <2>1, ShowsRevocation
    <3>2. PG!Do(p, CallOf("RevokeAccessTokensForUser", k, v, t)) = PG!RevokeAccessTokensForUser(p, k)
      BY DEF PG!Do, CallOf
    <3> QED BY <3>1, <3>2
  <2> QED BY <2>1, DoesOne
<1>7. ASSUME NEW k
      PROVE  Does(d, TxAt("RevokeAccessTokensForCode", k, v, t), RevokeAccessTokensForCode(d, k))
  <2>1. ASSUME NEW p, Shows(d, p)
        PROVE  Shows(RevokeAccessTokensForCode(d, k), PG!Do(p, CallOf("RevokeAccessTokensForCode", k, v, t)))
    <3>1. Shows(RevokeAccessTokensForCode(d, k), PG!RevokeAccessTokensForCode(p, k))
      BY <1>1, <2>1, ShowsRevocation
    <3>2. PG!Do(p, CallOf("RevokeAccessTokensForCode", k, v, t)) = PG!RevokeAccessTokensForCode(p, k)
      BY DEF PG!Do, CallOf
    <3> QED BY <3>1, <3>2
  <2> QED BY <2>1, DoesOne
<1>8. ASSUME NEW k PROVE Does(d, TxAt("DeleteUserSessions", k, v, t), DeleteUserSessions(d, k, t))
  <2>1. ASSUME NEW p, Shows(d, p)
        PROVE  Shows(DeleteUserSessions(d, k, t), PG!Do(p, CallOf("DeleteUserSessions", k, v, t)))
    <3>1. Shows(DeleteUserSessions(d, k, t), PG!DeleteUserSessions(p, k, t))
      BY <2>1, ShowsDeleteUserSessions
    <3>2. PG!Do(p, CallOf("DeleteUserSessions", k, v, t)) = PG!DeleteUserSessions(p, k, t)
      BY DEF PG!Do, CallOf
    <3> QED BY <3>1, <3>2
  <2> QED BY <2>1, DoesOne
<1>9. ASSUME NEW k PROVE Does(d, TxAt("PruneLogoutState", k, v, t), PruneLogoutState(d, t))
  <2>1. ASSUME NEW p, Shows(d, p)
        PROVE  Shows(PruneLogoutState(d, t), PG!Do(p, CallOf("PruneLogoutState", k, v, t)))
    <3>1. Shows(PruneLogoutState(d, t), PG!PruneLogoutState(p, t))
      BY <2>1, ShowsPruneLogoutState
    <3>2. PG!Do(p, CallOf("PruneLogoutState", k, v, t)) = PG!PruneLogoutState(p, t)
      BY DEF PG!Do, CallOf
    <3> QED BY <3>1, <3>2
  <2> QED BY <2>1, DoesOne
<1>10. ASSUME NEW k PROVE Does(d, TxAt("PruneOIDCState", k, v, t), PruneOIDCState(d, t))
  <2>1. ASSUME NEW p, Shows(d, p)
        PROVE  Shows(PruneOIDCState(d, t), PG!Do(p, CallOf("PruneOIDCState", k, v, t)))
    <3>1. Shows(PruneOIDCState(d, t), PG!PruneOIDCState(p, t))
      BY <1>1, <2>1, ShowsPruneOIDCState
    <3>2. PG!Do(p, CallOf("PruneOIDCState", k, v, t)) = PG!PruneOIDCState(p, t)
      BY DEF PG!Do, CallOf
    <3> QED BY <3>1, <3>2
  <2> QED BY <2>1, DoesOne
<1> QED BY <1>2, <1>3, <1>4, <1>5, <1>6, <1>7, <1>8, <1>9, <1>10

\* Account, client, policy and consent changes.
LEMMA ChangesDo ==
    ASSUME NEW d, Ready(d), NEW t \in Nat \ {0}, NEW v
    PROVE  /\ \A u \in Users, new \in User :
                 Does(d, TxAt("SaveUser", u, new, t), SaveUser(d, u, new, t))
           /\ \A u \in Users : Does(d, TxAt("DeleteUser", u, v, t), DeleteUser(d, u, t))
           /\ \A c \in DOMAIN d.clients : Does(d, TxAt("SaveClient", c, v, t), SaveClient(d, c, t))
           /\ \A c \in Clients : Does(d, TxAt("DeleteClient", c, v, t), DeleteClient(d, c, t))
           /\ \A c \in Clients, x \in SUBSET PolicyGrants :
                 Does(d, TxAt("SaveOAuthPolicy", c, x, t), SaveOAuthPolicy(d, c, x, t))
           /\ \A u \in Users, a \in BOOLEAN :
                 Does(d, TxAt("SaveOAuthAccess", u, a, t), SaveOAuthAccess(d, u, a, t))
           /\ \A u \in Users, c \in Clients : \A new :
                 Does(d, TxAt("SaveConsent", <<u, c>>, new, t), SaveConsent(d, u, c, new, t))
<1>1. ASSUME NEW u \in Users, NEW new \in User
      PROVE  Does(d, TxAt("SaveUser", u, new, t), SaveUser(d, u, new, t))
  <2>1. ASSUME NEW p, Shows(d, p)
        PROVE  Shows(SaveUser(d, u, new, t), PG!Do(p, CallOf("SaveUser", u, new, t)))
    <3>1. Shows(SaveUser(d, u, new, t), PG!SaveUser(p, u, new, t))
      BY <2>1, ShowsSaveUser
    <3>2. PG!Do(p, CallOf("SaveUser", u, new, t)) = PG!SaveUser(p, u, new, t)
      BY DEF PG!Do, CallOf
    <3> QED BY <3>1, <3>2
  <2> QED BY <2>1, DoesOne
<1>2. ASSUME NEW u \in Users PROVE Does(d, TxAt("DeleteUser", u, v, t), DeleteUser(d, u, t))
  <2>1. ASSUME NEW p, Shows(d, p)
        PROVE  Shows(DeleteUser(d, u, t), PG!Do(p, CallOf("DeleteUser", u, v, t)))
    <3>1. Shows(DeleteUser(d, u, t), PG!DeleteUser(p, u, t))
      BY <2>1, ShowsDeleteUser
    <3>2. PG!Do(p, CallOf("DeleteUser", u, v, t)) = PG!DeleteUser(p, u, t)
      BY DEF PG!Do, CallOf
    <3> QED BY <3>1, <3>2
  <2> QED BY <2>1, DoesOne
<1>3. ASSUME NEW c \in DOMAIN d.clients
      PROVE  Does(d, TxAt("SaveClient", c, v, t), SaveClient(d, c, t))
  <2>1. ASSUME NEW p, Shows(d, p)
        PROVE  Shows(SaveClient(d, c, t), PG!Do(p, CallOf("SaveClient", c, v, t)))
    <3>1. Shows(SaveClient(d, c, t), PG!SaveClient(p, c, t))
      BY <2>1, ShowsSaveClient
    <3>2. PG!Do(p, CallOf("SaveClient", c, v, t)) = PG!SaveClient(p, c, t)
      BY DEF PG!Do, CallOf
    <3> QED BY <3>1, <3>2
  <2> QED BY <2>1, DoesOne
<1>4. ASSUME NEW c \in Clients PROVE Does(d, TxAt("DeleteClient", c, v, t), DeleteClient(d, c, t))
  <2>1. ASSUME NEW p, Shows(d, p)
        PROVE  Shows(DeleteClient(d, c, t), PG!Do(p, CallOf("DeleteClient", c, v, t)))
    <3>1. Shows(DeleteClient(d, c, t), PG!DeleteClient(p, c, t))
      BY <2>1, ShowsDeleteClient
    <3>2. PG!Do(p, CallOf("DeleteClient", c, v, t)) = PG!DeleteClient(p, c, t)
      BY DEF PG!Do, CallOf
    <3> QED BY <3>1, <3>2
  <2> QED BY <2>1, DoesOne
<1>5. ASSUME NEW c \in Clients, NEW x \in SUBSET PolicyGrants
      PROVE  Does(d, TxAt("SaveOAuthPolicy", c, x, t), SaveOAuthPolicy(d, c, x, t))
  <2>1. ASSUME NEW p, Shows(d, p)
        PROVE  Shows(SaveOAuthPolicy(d, c, x, t), PG!Do(p, CallOf("SaveOAuthPolicy", c, x, t)))
    <3>1. Shows(SaveOAuthPolicy(d, c, x, t), PG!SaveOAuthPolicy(p, c, x, t))
      BY <2>1, ShowsSaveOAuthPolicy
    <3>2. PG!Do(p, CallOf("SaveOAuthPolicy", c, x, t)) = PG!SaveOAuthPolicy(p, c, x, t)
      BY DEF PG!Do, CallOf
    <3> QED BY <3>1, <3>2
  <2> QED BY <2>1, DoesOne
<1>6. ASSUME NEW u \in Users, NEW a \in BOOLEAN
      PROVE  Does(d, TxAt("SaveOAuthAccess", u, a, t), SaveOAuthAccess(d, u, a, t))
  <2>1. ASSUME NEW p, Shows(d, p)
        PROVE  Shows(SaveOAuthAccess(d, u, a, t), PG!Do(p, CallOf("SaveOAuthAccess", u, a, t)))
    <3>1. Shows(SaveOAuthAccess(d, u, a, t), PG!SaveOAuthAccess(p, u, a, t))
      BY <2>1, ShowsSaveOAuthAccess
    <3>2. PG!Do(p, CallOf("SaveOAuthAccess", u, a, t)) = PG!SaveOAuthAccess(p, u, a, t)
      BY DEF PG!Do, CallOf
    <3> QED BY <3>1, <3>2
  <2> QED BY <2>1, DoesOne
<1>7. ASSUME NEW u \in Users, NEW c \in Clients, NEW new
      PROVE  Does(d, TxAt("SaveConsent", <<u, c>>, new, t), SaveConsent(d, u, c, new, t))
  <2>1. ASSUME NEW p, Shows(d, p)
        PROVE  Shows(SaveConsent(d, u, c, new, t), PG!Do(p, CallOf("SaveConsent", <<u, c>>, new, t)))
    <3>1. Shows(SaveConsent(d, u, c, new, t), PG!SaveConsent(p, u, c, new, t))
      BY <2>1, ShowsSaveConsent
    <3>2. PG!Do(p, CallOf("SaveConsent", <<u, c>>, new, t)) = PG!SaveConsent(p, u, c, new, t)
      BY DEF PG!Do, CallOf
    <3> QED BY <3>1, <3>2
  <2> QED BY <2>1, DoesOne
<1> QED BY <1>1, <1>2, <1>3, <1>4, <1>5, <1>6, <1>7

(***************************************************************************)
(* New records.                                                            *)
(***************************************************************************)
\* Saves of records.
LEMMA SavesDo ==
    ASSUME NEW d, NEW k, NEW v, NEW t
    PROVE  /\ Does(d, TxAt("SaveAuthzTransaction", k, v, t), [d EXCEPT !.txns = Put(d.txns, k, v)])
           /\ Does(d, TxAt("SaveAuthorizationCode", k, v, t), [d EXCEPT !.codes = Put(d.codes, k, v)])
           /\ Does(d, TxAt("SaveAccessToken", k, v, t), [d EXCEPT !.tokens = Put(d.tokens, k, v)])
           /\ Does(d, TxAt("SaveRefreshFamily", k, v, t),
                   [d EXCEPT !.families = Put(d.families, k, v)])
           /\ /\ v.family \in DOMAIN d.families
              /\ k \in DOMAIN d.refresh => d.refresh[k].family = v.family
              => Does(d, TxAt("SaveRefreshToken", k, v, t), [d EXCEPT !.refresh = Put(d.refresh, k, v)])
<1>1. ASSUME NEW p, Shows(d, p)
      PROVE  /\ Shows([d EXCEPT !.txns = Put(d.txns, k, v)], PG!SaveAuthzTransaction(p, k, v))
             /\ Shows([d EXCEPT !.codes = Put(d.codes, k, v)], PG!SaveAuthorizationCode(p, k, v))
             /\ Shows([d EXCEPT !.tokens = Put(d.tokens, k, v)], PG!SaveAccessToken(p, k, v))
             /\ Shows([d EXCEPT !.families = Put(d.families, k, v)], PG!SaveRefreshFamily(p, k, v))
             /\ v.family \in DOMAIN d.families =>
                   Shows([d EXCEPT !.refresh = Put(d.refresh, k, v)], PG!SaveRefreshToken(p, k, v))
  BY <1>1, ShowsSaves
<1>2. ASSUME NEW p
      PROVE  /\ PG!Do(p, CallOf("SaveAuthzTransaction", k, v, t)) = PG!SaveAuthzTransaction(p, k, v)
             /\ PG!Do(p, CallOf("SaveAuthorizationCode", k, v, t)) = PG!SaveAuthorizationCode(p, k, v)
             /\ PG!Do(p, CallOf("SaveAccessToken", k, v, t)) = PG!SaveAccessToken(p, k, v)
             /\ PG!Do(p, CallOf("SaveRefreshFamily", k, v, t)) = PG!SaveRefreshFamily(p, k, v)
             /\ PG!Do(p, CallOf("SaveRefreshToken", k, v, t)) = PG!SaveRefreshToken(p, k, v)
  BY DEF PG!Do, CallOf
<1>3. Does(d, TxAt("SaveAuthzTransaction", k, v, t), [d EXCEPT !.txns = Put(d.txns, k, v)])
  BY <1>1, <1>2, DoesOne
<1>4. Does(d, TxAt("SaveAuthorizationCode", k, v, t), [d EXCEPT !.codes = Put(d.codes, k, v)])
  BY <1>1, <1>2, DoesOne
<1>5. Does(d, TxAt("SaveAccessToken", k, v, t), [d EXCEPT !.tokens = Put(d.tokens, k, v)])
  BY <1>1, <1>2, DoesOne
<1>6. Does(d, TxAt("SaveRefreshFamily", k, v, t), [d EXCEPT !.families = Put(d.families, k, v)])
  BY <1>1, <1>2, DoesOne
<1>7. ASSUME v.family \in DOMAIN d.families
      PROVE  Does(d, TxAt("SaveRefreshToken", k, v, t), [d EXCEPT !.refresh = Put(d.refresh, k, v)])
  BY <1>1, <1>2, <1>7, DoesOne
<1> QED BY <1>3, <1>4, <1>5, <1>6, <1>7

\* Drawing keys is no matter of the stores.
LEMMA DrawDoes ==
    ASSUME NEW d, NEW s, NEW e, Does(d, s, e), NEW x
    PROVE  Does(d, s, [e EXCEPT !.next = x])
<1>1. \A p : Shows(e, p) => Shows([e EXCEPT !.next = x], p)
  BY ShowsPut
<1> QED BY <1>1 DEF Does

\* New records.
LEMMA AddsDo ==
    ASSUME NEW d, NEW v, NEW t
    PROVE  /\ Does(d, TxAt("SaveAuthzTransaction", d.next["txn"], v, t), AddTxn(d, v))
           /\ Does(d, TxAt("SaveAuthorizationCode", d.next["code"], v, t), AddCode(d, v))
           /\ Does(d, TxAt("SaveAccessToken", d.next["token"], v, t), AddToken(d, v))
           /\ Does(d, TxAt("SaveRefreshFamily", d.next["family"], v, t), AddFamily(d, v))
           /\ /\ v.family \in DOMAIN d.families
              /\ d.next["refresh"] \notin DOMAIN d.refresh
              => Does(d, TxAt("SaveRefreshToken", d.next["refresh"], v, t), AddRefresh(d, v))
<1> DEFINE x(kind) == [d.next EXCEPT ![kind] = d.next[kind] + 1]
<1>1. /\ AddTxn(d, v) = [[d EXCEPT !.txns = Put(d.txns, d.next["txn"], v)] EXCEPT !.next = x("txn")]
      /\ AddCode(d, v) = [[d EXCEPT !.codes = Put(d.codes, d.next["code"], v)] EXCEPT !.next = x("code")]
      /\ AddToken(d, v)
           = [[d EXCEPT !.tokens = Put(d.tokens, d.next["token"], v)] EXCEPT !.next = x("token")]
      /\ AddFamily(d, v)
           = [[d EXCEPT !.families = Put(d.families, d.next["family"], v)] EXCEPT !.next = x("family")]
      /\ AddRefresh(d, v)
           = [[d EXCEPT !.refresh = Put(d.refresh, d.next["refresh"], v)] EXCEPT !.next = x("refresh")]
  BY DEF AddTxn, AddCode, AddToken, AddFamily, AddRefresh, Draw
<1> HIDE DEF x
<1>2. Does(d, TxAt("SaveAuthzTransaction", d.next["txn"], v, t), AddTxn(d, v))
  <2> DEFINE g == [d EXCEPT !.txns = Put(d.txns, d.next["txn"], v)]
  <2>1. Does(d, TxAt("SaveAuthzTransaction", d.next["txn"], v, t), g) BY SavesDo
  <2> HIDE DEF g
  <2>2. Does(d, TxAt("SaveAuthzTransaction", d.next["txn"], v, t), [g EXCEPT !.next = x("txn")])
    BY <2>1, DrawDoes
  <2> QED BY <1>1, <2>2 DEF g
<1>3. Does(d, TxAt("SaveAuthorizationCode", d.next["code"], v, t), AddCode(d, v))
  <2> DEFINE g == [d EXCEPT !.codes = Put(d.codes, d.next["code"], v)]
  <2>1. Does(d, TxAt("SaveAuthorizationCode", d.next["code"], v, t), g) BY SavesDo
  <2> HIDE DEF g
  <2>2. Does(d, TxAt("SaveAuthorizationCode", d.next["code"], v, t), [g EXCEPT !.next = x("code")])
    BY <2>1, DrawDoes
  <2> QED BY <1>1, <2>2 DEF g
<1>4. Does(d, TxAt("SaveAccessToken", d.next["token"], v, t), AddToken(d, v))
  <2> DEFINE g == [d EXCEPT !.tokens = Put(d.tokens, d.next["token"], v)]
  <2>1. Does(d, TxAt("SaveAccessToken", d.next["token"], v, t), g) BY SavesDo
  <2> HIDE DEF g
  <2>2. Does(d, TxAt("SaveAccessToken", d.next["token"], v, t), [g EXCEPT !.next = x("token")])
    BY <2>1, DrawDoes
  <2> QED BY <1>1, <2>2 DEF g
<1>5. Does(d, TxAt("SaveRefreshFamily", d.next["family"], v, t), AddFamily(d, v))
  <2> DEFINE g == [d EXCEPT !.families = Put(d.families, d.next["family"], v)]
  <2>1. Does(d, TxAt("SaveRefreshFamily", d.next["family"], v, t), g) BY SavesDo
  <2> HIDE DEF g
  <2>2. Does(d, TxAt("SaveRefreshFamily", d.next["family"], v, t), [g EXCEPT !.next = x("family")])
    BY <2>1, DrawDoes
  <2> QED BY <1>1, <2>2 DEF g
<1>6. ASSUME v.family \in DOMAIN d.families, d.next["refresh"] \notin DOMAIN d.refresh
      PROVE  Does(d, TxAt("SaveRefreshToken", d.next["refresh"], v, t), AddRefresh(d, v))
  <2> DEFINE g == [d EXCEPT !.refresh = Put(d.refresh, d.next["refresh"], v)]
  <2>1. Does(d, TxAt("SaveRefreshToken", d.next["refresh"], v, t), g) BY <1>6, SavesDo
  <2> HIDE DEF g
  <2>2. Does(d, TxAt("SaveRefreshToken", d.next["refresh"], v, t), [g EXCEPT !.next = x("refresh")])
    BY <2>1, DrawDoes
  <2> QED BY <1>1, <2>2 DEF g
<1> QED BY <1>2, <1>3, <1>4, <1>5, <1>6

\* A sign-in that keeps its session ID moves the session to a new credential; another opens a session.
LEMMA SignInsDo ==
    ASSUME NEW d, StoreOK(d), OneID(d), NEW h, NEW v, v.ended = 0, h \notin DOMAIN d.sessions,
           NEW t, NEW w
    PROVE  /\ (\A g \in DOMAIN d.sessions : d.sessions[g].id # v.id) =>
                 Does(d, TxAt("SaveSession", h, v, t), [d EXCEPT !.sessions = Put(d.sessions, h, v)])
           /\ \A o \in DOMAIN d.sessions :
                 d.sessions[o].ended = 0 /\ d.sessions[o].id = v.id =>
                 Does(d, TxAt("RemoveSessionCredential", o, w, t) \o TxAt("SaveSession", h, v, t),
                      [d EXCEPT !.sessions = Put(Drop(d.sessions, {o}), h, v)])
<1>1. ASSUME NEW e, StoreOK(e), h \notin DOMAIN e.sessions,
             \A g \in DOMAIN e.sessions : e.sessions[g].id # v.id
      PROVE  Does(e, TxAt("SaveSession", h, v, t), [e EXCEPT !.sessions = Put(e.sessions, h, v)])
  <2>1. h \notin Ended(e.sessions) BY <1>1 DEF Ended
  <2>2. ASSUME NEW p, Shows(e, p)
        PROVE  Shows([e EXCEPT !.sessions = Put(e.sessions, h, v)],
                     PG!Do(p, CallOf("SaveSession", h, v, t)))
    <3>1. Shows([e EXCEPT !.sessions = Put(e.sessions, h, v)], PG!SaveSession(p, h, v))
      BY <1>1, <2>1, <2>2, ShowsSaveSession
    <3>2. PG!Do(p, CallOf("SaveSession", h, v, t)) = PG!SaveSession(p, h, v)
      BY DEF PG!Do, CallOf
    <3> QED BY <3>1, <3>2
  <2> QED BY <2>2, DoesOne
<1>2. ASSUME NEW o \in DOMAIN d.sessions, d.sessions[o].ended = 0, d.sessions[o].id = v.id
      PROVE  Does(d, TxAt("RemoveSessionCredential", o, w, t) \o TxAt("SaveSession", h, v, t),
                      [d EXCEPT !.sessions = Put(Drop(d.sessions, {o}), h, v)])
  <2> DEFINE x == Drop(d.sessions, {o})
             e == [d EXCEPT !.sessions = x]
  <2>1. o \notin Ended(d.sessions) BY <1>2 DEF Ended
  <2>2. ASSUME NEW p, Shows(d, p)
        PROVE  Shows(e, PG!Do(p, CallOf("RemoveSessionCredential", o, w, t)))
    <3>1. Shows(e, PG!RemoveSessionCredential(p, o))
      BY <2>1, <2>2, ShowsRemoveSession
    <3>2. PG!Do(p, CallOf("RemoveSessionCredential", o, w, t)) = PG!RemoveSessionCredential(p, o)
      BY DEF PG!Do, CallOf
    <3> QED BY <3>1, <3>2
  <2>3. Does(d, TxAt("RemoveSessionCredential", o, w, t), e) BY <2>2, DoesOne
  <2>4. IsMap(x, Id \ {0}, Session) BY DEF StoreOK, IsMap, Drop
  <2>5. StoreOK(e)
    <3> HIDE DEF x
    <3> QED BY <2>4 DEF StoreOK
  <2>6. e.sessions = x
    <3> HIDE DEF x
    <3> QED BY DEF StoreOK
  <2>7. h \notin DOMAIN x /\ \A g \in DOMAIN x : x[g].id # v.id
    BY <1>2 DEF Drop, OneID
  <2> HIDE DEF x, e
  <2>8. Does(e, TxAt("SaveSession", h, v, t), [e EXCEPT !.sessions = Put(e.sessions, h, v)])
    BY <1>1, <2>5, <2>6, <2>7
  <2>9. [e EXCEPT !.sessions = Put(e.sessions, h, v)] = [d EXCEPT !.sessions = Put(x, h, v)]
    BY <2>6 DEF e
  <2> QED BY <2>3, <2>8, <2>9, DoesBoth DEF x
<1>3. (\A g \in DOMAIN d.sessions : d.sessions[g].id # v.id) =>
        Does(d, TxAt("SaveSession", h, v, t), [d EXCEPT !.sessions = Put(d.sessions, h, v)])
  BY <1>1
<1> QED BY <1>2, <1>3

\* Saved as it is, an open session stays as it is, and so does an open app session.
LEMMA SameAgain ==
    ASSUME NEW d, StoreOK(d), OneID(d), NEW t
    PROVE  /\ \A h \in DOMAIN d.sessions : d.sessions[h].ended = 0 =>
                 Does(d, TxAt("SaveSession", h, d.sessions[h], t), d)
           /\ \A a \in DOMAIN d.apps : OneApp(d) /\ d.apps[a].ended = 0 =>
                 Does(d, TxAt("SaveAppSession", a, d.apps[a], t), d)
<1>0. \A m, k : k \in DOMAIN m /\ m = [x \in DOMAIN m |-> m[x]] => Put(m, k, m[k]) = m
  BY DEF Put
<1>1. ASSUME NEW h \in DOMAIN d.sessions, d.sessions[h].ended = 0
      PROVE  Does(d, TxAt("SaveSession", h, d.sessions[h], t), d)
  <2>1. Put(d.sessions, h, d.sessions[h]) = d.sessions
    BY <1>0 DEF StoreOK, IsMap
  <2>2. [d EXCEPT !.sessions = d.sessions] = d BY DEF StoreOK
  <2>3. ASSUME NEW p, Shows(d, p)
        PROVE  Shows(d, PG!Do(p, CallOf("SaveSession", h, d.sessions[h], t)))
    <3>1. /\ h \notin Ended(d.sessions)
          /\ \A g \in DOMAIN d.sessions \ {h} : d.sessions[g].id # d.sessions[h].id
      BY <1>1 DEF Ended, OneID
    <3>2. Shows([d EXCEPT !.sessions = Put(d.sessions, h, d.sessions[h])],
                PG!SaveSession(p, h, d.sessions[h]))
      BY <1>1, <2>3, <3>1, ShowsSaveSession
    <3>3. PG!Do(p, CallOf("SaveSession", h, d.sessions[h], t)) = PG!SaveSession(p, h, d.sessions[h])
      BY DEF PG!Do, CallOf
    <3> QED BY <2>1, <2>2, <3>2, <3>3
  <2> QED BY <2>3, DoesOne
<1>2. ASSUME NEW a \in DOMAIN d.apps, OneApp(d), d.apps[a].ended = 0
      PROVE  Does(d, TxAt("SaveAppSession", a, d.apps[a], t), d)
  <2>1. Put(d.apps, a, d.apps[a]) = d.apps
    BY <1>0 DEF StoreOK, IsMap
  <2>2. [d EXCEPT !.apps = d.apps] = d BY DEF StoreOK
  <2>3. ASSUME NEW p, Shows(d, p)
        PROVE  Shows(d, PG!Do(p, CallOf("SaveAppSession", a, d.apps[a], t)))
    <3>1. /\ a \notin Ended(d.apps)
          /\ \A b \in DOMAIN d.apps \ {a} :
              ~(d.apps[b].ended = 0 /\ d.apps[b].op = d.apps[a].op
                  /\ d.apps[b].client = d.apps[a].client)
      BY <1>2 DEF Ended, OneApp
    <3>2. Shows([d EXCEPT !.apps = Put(d.apps, a, d.apps[a])],
                PG!SaveAppSession(p, a, d.apps[a]))
      BY <1>2, <2>3, <3>1, ShowsSaveAppSession
    <3>3. PG!Do(p, CallOf("SaveAppSession", a, d.apps[a], t)) = PG!SaveAppSession(p, a, d.apps[a])
      BY DEF PG!Do, CallOf
    <3> QED BY <2>1, <2>2, <3>2, <3>3
  <2> QED BY <2>3, DoesOne
<1> QED BY <1>1, <1>2

\* A new app session of a session and client that has none open.
LEMMA AddAppDoes ==
    ASSUME NEW d, StoreOK(d), AppsDrawn(d), NEW v, v.ended = 0,
           LiveApps(d, v.op, v.client) = {}, NEW t
    PROVE  Does(d, TxAt("SaveAppSession", d.next["app"], v, t), AddApp(d, v))
<1> DEFINE a == d.next["app"]
           e == [d EXCEPT !.apps = Put(d.apps, a, v)]
<1>1. AddApp(d, v) = [e EXCEPT !.next = [d.next EXCEPT !["app"] = d.next["app"] + 1]]
  BY DEF AddApp, Draw
<1>2. a \notin DOMAIN d.apps
  <2>1. a \in Nat BY DEF StoreOK, Kinds
  <2>2. a \in DOMAIN d.apps => a < a BY DEF AppsDrawn
  <2> QED BY <2>1, <2>2
<1> HIDE DEF a
<1>3. ASSUME NEW p, Shows(d, p) PROVE Shows(e, PG!Do(p, CallOf("SaveAppSession", a, v, t)))
  <2>1. /\ a \notin Ended(d.apps)
        /\ \A b \in DOMAIN d.apps \ {a} :
              ~(d.apps[b].ended = 0 /\ d.apps[b].op = v.op /\ d.apps[b].client = v.client)
    BY <1>2 DEF Ended, LiveApps
  <2>2. Shows(e, PG!SaveAppSession(p, a, v)) BY <1>3, <2>1, ShowsSaveAppSession
  <2>3. PG!Do(p, CallOf("SaveAppSession", a, v, t)) = PG!SaveAppSession(p, a, v)
    BY DEF PG!Do, CallOf
  <2> QED BY <2>2, <2>3
<1>4. Does(d, TxAt("SaveAppSession", a, v, t), e) BY <1>3, DoesOne
<1> HIDE DEF e
<1> QED BY <1>1, <1>4, DrawDoes DEF a

(***************************************************************************)
(* A loop of calls is one operator on a set.                               *)
(***************************************************************************)
\* Two states with the same fields are one state.
LEMMA SameFields ==
    ASSUME NEW d, NEW e, FieldsOf(d), FieldsOf(e),
           e.users = d.users, e.clients = d.clients, e.policy = d.policy, e.access = d.access,
           e.sessions = d.sessions, e.apps = d.apps, e.txns = d.txns, e.codes = d.codes,
           e.tokens = d.tokens, e.families = d.families, e.refresh = d.refresh,
           e.consents = d.consents, e.next = d.next
    PROVE  e = d
BY DEF FieldsOf

\* Revoking records twice is revoking the records of both sets; none is nothing.
LEMMA RevokeUnion ==
    ASSUME NEW m, NEW S, NEW T
    PROVE  /\ Revoke(Revoke(m, S), T) = Revoke(m, S \cup T)
           /\ m = [x \in DOMAIN m |-> m[x]] => Revoke(m, {}) = m
           /\ DOMAIN Revoke(m, S) = DOMAIN m
<1>1. \A v : [[v EXCEPT !.revoked = TRUE] EXCEPT !.revoked = TRUE] = [v EXCEPT !.revoked = TRUE]
  OBVIOUS
<1>2. \A x \in DOMAIN m : Revoke(Revoke(m, S), T)[x] = Revoke(m, S \cup T)[x]
  BY <1>1 DEF Revoke
<1> QED BY <1>2 DEF Revoke

\* Ending records of two sets, those open only.
LEMMA EndUnion ==
    ASSUME NEW m, NEW S, NEW T, S \cap T = {}, NEW t
    PROVE  /\ End(End(m, S, t), T, t) = End(m, S \cup T, t)
           /\ m = [x \in DOMAIN m |-> m[x]] => End(m, {}, t) = m
           /\ DOMAIN End(m, S, t) = DOMAIN m
<1>1. \A x \in DOMAIN m : End(End(m, S, t), T, t)[x] = End(m, S \cup T, t)[x]
  BY DEF End
<1> QED BY <1>1 DEF End

\* A revoked record is the record with the mark.
LEMMA RevokedParts ==
    ASSUME NEW d, StoreOK(d), NEW S
    PROVE  /\ \A k \in DOMAIN d.tokens :
                 /\ Revoke(d.tokens, S)[k].family = d.tokens[k].family
                 /\ Revoke(d.tokens, S)[k].app = d.tokens[k].app
                 /\ Revoke(d.tokens, S)[k].op = d.tokens[k].op
           /\ \A k \in DOMAIN d.families :
                 /\ Revoke(d.families, S)[k].user = d.families[k].user
                 /\ Revoke(d.families, S)[k].op = d.families[k].op
                 /\ Revoke(d.families, S)[k].app = d.families[k].app
           /\ \A k \in DOMAIN d.codes :
                 /\ Revoke(d.codes, S)[k].op = d.codes[k].op
                 /\ Revoke(d.codes, S)[k].client = d.codes[k].client
           /\ \A k \in DOMAIN d.txns :
                 /\ Revoke(d.txns, S)[k].op = d.txns[k].op
                 /\ Revoke(d.txns, S)[k].client = d.txns[k].client
<1>1. /\ \A k \in DOMAIN d.tokens : d.tokens[k] \in AccessToken
      /\ \A k \in DOMAIN d.families : d.families[k] \in RefreshFamily
      /\ \A k \in DOMAIN d.codes : d.codes[k] \in AuthorizationCode
      /\ \A k \in DOMAIN d.txns : d.txns[k] \in AuthzTransaction
  BY Records
<1>7. \A k \in DOMAIN d.tokens :
         /\ Revoke(d.tokens, S)[k].family = d.tokens[k].family
         /\ Revoke(d.tokens, S)[k].app = d.tokens[k].app
         /\ Revoke(d.tokens, S)[k].op = d.tokens[k].op
  <2> SUFFICES ASSUME NEW k \in DOMAIN d.tokens
               PROVE  Revoke(d.tokens, S)[k].family = d.tokens[k].family /\ Revoke(d.tokens, S)[k].app = d.tokens[k].app /\ Revoke(d.tokens, S)[k].op = d.tokens[k].op
    OBVIOUS
  <2> DEFINE w == [d.tokens[k] EXCEPT !.revoked = TRUE]
             v == Revoke(d.tokens, S)[k]
  <2>1. w.family = d.tokens[k].family /\ w.app = d.tokens[k].app /\ w.op = d.tokens[k].op
    BY <1>1, RevokedRecords
  <2>2. v = d.tokens[k] \/ v = w
    BY DEF Revoke
  <2> HIDE DEF v, w
  <2>3. v.family = d.tokens[k].family /\ v.app = d.tokens[k].app /\ v.op = d.tokens[k].op
    BY <2>1, <2>2
  <2> QED BY <2>3 DEF v
<1>8. \A k \in DOMAIN d.families :
         /\ Revoke(d.families, S)[k].user = d.families[k].user
         /\ Revoke(d.families, S)[k].op = d.families[k].op
         /\ Revoke(d.families, S)[k].app = d.families[k].app
  <2> SUFFICES ASSUME NEW k \in DOMAIN d.families
               PROVE  Revoke(d.families, S)[k].user = d.families[k].user /\ Revoke(d.families, S)[k].op = d.families[k].op /\ Revoke(d.families, S)[k].app = d.families[k].app
    OBVIOUS
  <2> DEFINE w == [d.families[k] EXCEPT !.revoked = TRUE]
             v == Revoke(d.families, S)[k]
  <2>1. w.user = d.families[k].user /\ w.op = d.families[k].op /\ w.app = d.families[k].app
    BY <1>1, RevokedRecords
  <2>2. v = d.families[k] \/ v = w
    BY DEF Revoke
  <2> HIDE DEF v, w
  <2>3. v.user = d.families[k].user /\ v.op = d.families[k].op /\ v.app = d.families[k].app
    BY <2>1, <2>2
  <2> QED BY <2>3 DEF v
<1>9. \A k \in DOMAIN d.codes :
         /\ Revoke(d.codes, S)[k].op = d.codes[k].op
         /\ Revoke(d.codes, S)[k].client = d.codes[k].client
  <2> SUFFICES ASSUME NEW k \in DOMAIN d.codes
               PROVE  Revoke(d.codes, S)[k].op = d.codes[k].op /\ Revoke(d.codes, S)[k].client = d.codes[k].client
    OBVIOUS
  <2> DEFINE w == [d.codes[k] EXCEPT !.revoked = TRUE]
             v == Revoke(d.codes, S)[k]
  <2>1. w.op = d.codes[k].op /\ w.client = d.codes[k].client
    BY <1>1, RevokedRecords
  <2>2. v = d.codes[k] \/ v = w
    BY DEF Revoke
  <2> HIDE DEF v, w
  <2>3. v.op = d.codes[k].op /\ v.client = d.codes[k].client
    BY <2>1, <2>2
  <2> QED BY <2>3 DEF v
<1>10. \A k \in DOMAIN d.txns :
         /\ Revoke(d.txns, S)[k].op = d.txns[k].op
         /\ Revoke(d.txns, S)[k].client = d.txns[k].client
  <2> SUFFICES ASSUME NEW k \in DOMAIN d.txns
               PROVE  Revoke(d.txns, S)[k].op = d.txns[k].op /\ Revoke(d.txns, S)[k].client = d.txns[k].client
    OBVIOUS
  <2> DEFINE w == [d.txns[k] EXCEPT !.revoked = TRUE]
             v == Revoke(d.txns, S)[k]
  <2>1. w.op = d.txns[k].op /\ w.client = d.txns[k].client
    BY <1>1, RevokedRecords
  <2>2. v = d.txns[k] \/ v = w
    BY DEF Revoke
  <2> HIDE DEF v, w
  <2>3. v.op = d.txns[k].op /\ v.client = d.txns[k].client
    BY <2>1, <2>2
  <2> QED BY <2>3 DEF v
<1> QED BY <1>7, <1>8, <1>9, <1>10

\* Refresh families, one after the other.
LEMMA FamiliesUnion ==
    ASSUME NEW d, StoreOK(d), NEW S, NEW k
    PROVE  /\ RevokeRefreshFamily(RevokeFamilies(d, S), k) = RevokeFamilies(d, S \cup {k})
           /\ RevokeFamilies(d, {}) = d
<1>0. \A T : \A x \in DOMAIN d.tokens : Revoke(d.tokens, T)[x].family = d.tokens[x].family
  <2> SUFFICES ASSUME NEW T, NEW x \in DOMAIN d.tokens
               PROVE  Revoke(d.tokens, T)[x].family = d.tokens[x].family
    OBVIOUS
  <2> QED BY RevokedParts, ZenonT(90)
<1> DEFINE fa(K) == Revoke(d.families, K)
           to(K) == {x \in DOMAIN d.tokens : d.tokens[x].family \in K \cap DOMAIN d.families}
           e == RevokeFamilies(d, S)
           tt(K) == {x \in DOMAIN e.tokens : e.tokens[x].family \in K \cap DOMAIN e.families}
<1>1. FieldsOf(d)
  BY StoreFields
<1>2. \A K : RevokeFamilies(d, K) = [[d EXCEPT !.families = fa(K)] EXCEPT !.tokens = Revoke(d.tokens, to(K))]
  BY DEF RevokeFamilies
<1>3. e.families = fa(S) /\ e.tokens = Revoke(d.tokens, to(S)) /\ FieldsOf(e)
  <2> HIDE DEF fa, to
  <2> QED BY <1>1, <1>2 DEF FieldsOf
<1>4. RevokeRefreshFamily(e, k) = [[e EXCEPT !.families = Revoke(e.families, {k})]
                                     EXCEPT !.tokens = Revoke(e.tokens, tt({k}))]
  BY DEF RevokeRefreshFamily, RevokeFamilies
<1>5. Revoke(e.families, {k}) = fa(S \cup {k})
  BY <1>3, RevokeUnion
<1>6. tt({k}) = to({k})
  <2>1. DOMAIN e.tokens = DOMAIN d.tokens /\ DOMAIN e.families = DOMAIN d.families
    BY <1>3 DEF Revoke
  <2>2. \A x \in DOMAIN d.tokens : e.tokens[x].family = d.tokens[x].family
    <3> HIDE DEF e, to
    <3> QED BY <1>3, <1>0
  <2> HIDE DEF e
  <2> QED BY <2>1, <2>2
<1>7. Revoke(e.tokens, tt({k})) = Revoke(d.tokens, to(S \cup {k}))
  <2>1. to(S) \cup to({k}) = to(S \cup {k})
    OBVIOUS
  <2>2. e.tokens = Revoke(d.tokens, to(S))
    BY <1>3
  <2>3. Revoke(e.tokens, tt({k})) = Revoke(e.tokens, to({k}))
    BY <1>6
  <2> DEFINE X == to(S) Y == to({k}) Z == to(S \cup {k})
  <2>4. X \cup Y = Z /\ e.tokens = Revoke(d.tokens, X) /\ Revoke(e.tokens, tt({k})) = Revoke(e.tokens, Y)
    BY <2>1, <2>2, <2>3
  <2> HIDE DEF X, Y, Z, tt, e
  <2>5. Revoke(e.tokens, tt({k})) = Revoke(d.tokens, Z)
    BY <2>4, RevokeUnion
  <2> QED BY <2>5 DEF Z
<1>8. e = [[d EXCEPT !.families = fa(S)] EXCEPT !.tokens = Revoke(d.tokens, to(S))]
  BY <1>2
<1>9. RevokeRefreshFamily(e, k) = RevokeFamilies(d, S \cup {k})
  <2> DEFINE a == fa(S \cup {k})
             b == Revoke(d.tokens, to(S \cup {k}))
             a0 == fa(S)
             b0 == Revoke(d.tokens, to(S))
  <2>1. RevokeRefreshFamily(e, k) = [[e EXCEPT !.families = a] EXCEPT !.tokens = b]
    BY <1>4, <1>5, <1>7
  <2>2. RevokeFamilies(d, S \cup {k}) = [[d EXCEPT !.families = a] EXCEPT !.tokens = b]
    BY <1>2
  <2>3. e = [[d EXCEPT !.families = a0] EXCEPT !.tokens = b0]
    BY <1>8
  <2> HIDE DEF a, b, a0, b0, e
  <2>4. [[[[d EXCEPT !.families = a0] EXCEPT !.tokens = b0] EXCEPT !.families = a] EXCEPT !.tokens = b]
          = [[d EXCEPT !.families = a] EXCEPT !.tokens = b]
    OBVIOUS
  <2> QED BY <2>1, <2>2, <2>3, <2>4
<1>10. RevokeFamilies(d, {}) = d
  <2>1. fa({}) = d.families
    BY RevokeUnion DEF StoreOK, IsMap
  <2>2. to({}) = {} /\ Revoke(d.tokens, {}) = d.tokens
    BY RevokeUnion DEF StoreOK, IsMap
  <2>4. RevokeFamilies(d, {}) = [[d EXCEPT !.families = fa({})] EXCEPT !.tokens = Revoke(d.tokens, to({}))]
    BY <1>2
  <2>5. Revoke(d.tokens, to({})) = d.tokens
    BY <2>2
  <2> HIDE DEF fa, to
  <2>3. RevokeFamilies(d, {}) = [[d EXCEPT !.families = d.families] EXCEPT !.tokens = d.tokens]
    BY <2>1, <2>4, <2>5
  <2> QED BY <2>3, <1>1 DEF FieldsOf
<1> QED BY <1>9, <1>10

\* RevokeRefreshFamily in a loop.
LEMMA FamiliesDo ==
    ASSUME NEW d, Ready(d), now \in Nat \ {0}, NEW K, K \subseteq DOMAIN d.families, IsFiniteSet(K)
    PROVE  Does(d, DoEach("RevokeRefreshFamily", K), RevokeFamilies(d, K))
<1> DEFINE G == [S \in SUBSET K |-> RevokeFamilies(d, S)]
<1>1. StoreOK(d)
  BY ReadyHas
<1>2. ASSUME NEW S \in SUBSET K, NEW k \in K
      PROVE  Does(G[S], Do("RevokeRefreshFamily", k), G[S \cup {k}])
  <2>1. Ready(RevokeFamilies(d, S))
    BY CutsReady
  <2>2. k \in DOMAIN RevokeFamilies(d, S).families
    BY <1>1, StoreFields DEF RevokeFamilies, FieldsOf, Revoke
  <2>3. Does(RevokeFamilies(d, S), TxAt("RevokeRefreshFamily", k, <<>>, now),
             RevokeRefreshFamily(RevokeFamilies(d, S), k))
    BY <2>1, <2>2, CutsDo
  <2> QED BY <2>3, <1>1, FamiliesUnion DEF Do, Tx
<1>3. Does(G[{}], DoEach("RevokeRefreshFamily", K), G[K])
  <2> HIDE DEF G
  <2> QED BY <1>2, DoesEach
<1> QED BY <1>1, <1>3, FamiliesUnion

(***************************************************************************)
(* The methods that end app sessions, on a set of them.                    *)
(***************************************************************************)
\* So for each kind.
LEMMA TokenParts ==
    ASSUME NEW d, StoreOK(d), NEW S, NEW k \in DOMAIN d.tokens
    PROVE  LET v == Revoke(d.tokens, S)[k] IN
           v.family = d.tokens[k].family /\ v.app = d.tokens[k].app /\ v.op = d.tokens[k].op
<1> DEFINE w == [d.tokens[k] EXCEPT !.revoked = TRUE]
           v == Revoke(d.tokens, S)[k]
<1>1. d.tokens[k] \in AccessToken
  BY Records
<1>2. w.family = d.tokens[k].family /\ w.app = d.tokens[k].app /\ w.op = d.tokens[k].op
  BY <1>1, RevokedRecords
<1>3. v = d.tokens[k] \/ v = w
  BY DEF Revoke
<1> HIDE DEF v, w
<1>4. v.family = d.tokens[k].family /\ v.app = d.tokens[k].app /\ v.op = d.tokens[k].op
  BY <1>2, <1>3
<1> QED BY <1>4 DEF v

\* A revoked authorization code keeps its session and its client,
LEMMA CodeParts ==
    ASSUME NEW d, StoreOK(d), NEW S, NEW k \in DOMAIN d.codes
    PROVE  LET v == Revoke(d.codes, S)[k] IN v.op = d.codes[k].op /\ v.client = d.codes[k].client
BY RevokedParts, ZenonT(90)

\* and so does a revoked request.
LEMMA TxnParts ==
    ASSUME NEW d, StoreOK(d), NEW S, NEW k \in DOMAIN d.txns
    PROVE  LET v == Revoke(d.txns, S)[k] IN v.op = d.txns[k].op /\ v.client = d.txns[k].client
BY RevokedParts, ZenonT(90)

\* the app sessions that ending those of a set ends
Ending(d, A) == {a \in A \cap DOMAIN d.apps : d.apps[a].ended = 0}

\* The fields after EndAppSession on a set of app sessions.
LEMMA AppEndFields ==
    ASSUME NEW d, FieldsOf(d), NEW A, NEW t
    PROVE  LET e == EndAppSessions(d, A, t) E == Ending(d, A) IN
           /\ FieldsOf(e)
           /\ e.users = d.users /\ e.clients = d.clients /\ e.policy = d.policy
           /\ e.access = d.access /\ e.sessions = d.sessions /\ e.families = d.families
           /\ e.refresh = d.refresh /\ e.consents = d.consents /\ e.next = d.next
           /\ e.apps = End(d.apps, E, t)
           /\ e.tokens = Revoke(d.tokens, {k \in DOMAIN d.tokens :
                           d.tokens[k].app \in E /\ d.tokens[k].family = 0})
           /\ e.codes = Revoke(d.codes, CutOf(d, E, d.codes))
           /\ e.txns = Revoke(d.txns, CutOf(d, E, d.txns))
<1> DEFINE E == Ending(d, A)
           aa == End(d.apps, E, t)
           to == Revoke(d.tokens, {k \in DOMAIN d.tokens :
                           d.tokens[k].app \in E /\ d.tokens[k].family = 0})
           ko == Revoke(d.codes, CutOf(d, E, d.codes))
           xo == Revoke(d.txns, CutOf(d, E, d.txns))
           e == EndAppSessions(d, A, t)
<1>1. e = [[[[d EXCEPT !.apps = aa] EXCEPT !.tokens = to] EXCEPT !.codes = ko] EXCEPT !.txns = xo]
  BY EndAppSteps DEF Ending
<1> HIDE DEF E, aa, to, ko, xo, e
<1>2. /\ FieldsOf(e)
      /\ e.users = d.users /\ e.clients = d.clients /\ e.policy = d.policy
      /\ e.access = d.access /\ e.sessions = d.sessions /\ e.families = d.families
      /\ e.refresh = d.refresh /\ e.consents = d.consents /\ e.next = d.next
      /\ e.apps = aa /\ e.tokens = to /\ e.codes = ko /\ e.txns = xo
  BY <1>1 DEF FieldsOf
<1> QED BY <1>2 DEF e, E, aa, to, ko, xo

\* EndAppSession, one app session after the other.
LEMMA AppEndsUnion ==
    ASSUME NEW d, StoreOK(d), NEW S, NEW K, NEW t \in Nat \ {0}
    PROVE  EndAppSessions(EndAppSessions(d, S, t), K, t) = EndAppSessions(d, S \cup K, t)
<1> DEFINE T == S \cup K
           e == EndAppSessions(d, S, t)
           g == EndAppSessions(d, T, t)
           h == EndAppSessions(e, K, t)
           E == Ending(d, S) F == Ending(e, K) W == Ending(d, T)
           to(X, m) == {x \in DOMAIN m : m[x].app \in X /\ m[x].family = 0}
<1>1. FieldsOf(d) /\ FieldsOf(e)
  BY StoreFields, AppEndFields
<1>2. \A a \in DOMAIN d.apps : \A A : /\ End(d.apps, A, t)[a].op = d.apps[a].op
                                      /\ End(d.apps, A, t)[a].client = d.apps[a].client
                                      /\ End(d.apps, A, t)[a].ended = IF a \in A THEN t ELSE d.apps[a].ended
  <2> SUFFICES ASSUME NEW a \in DOMAIN d.apps, NEW A
               PROVE  /\ End(d.apps, A, t)[a].op = d.apps[a].op
                      /\ End(d.apps, A, t)[a].client = d.apps[a].client
                      /\ End(d.apps, A, t)[a].ended = IF a \in A THEN t ELSE d.apps[a].ended
    OBVIOUS
  <2>1. d.apps[a] \in AppSession
    BY Records
  <2> QED BY <2>1 DEF End, AppSession
<1>13. /\ FieldsOf(e)
       /\ e.users = d.users /\ e.clients = d.clients /\ e.policy = d.policy
       /\ e.access = d.access /\ e.sessions = d.sessions /\ e.families = d.families
       /\ e.refresh = d.refresh /\ e.consents = d.consents /\ e.next = d.next
       /\ e.apps = End(d.apps, E, t)
       /\ e.tokens = Revoke(d.tokens, to(E, d.tokens))
       /\ e.codes = Revoke(d.codes, CutOf(d, E, d.codes))
       /\ e.txns = Revoke(d.txns, CutOf(d, E, d.txns))
  BY <1>1, AppEndFields
<1>3. e.apps = End(d.apps, E, t) /\ DOMAIN e.apps = DOMAIN d.apps
  <2> HIDE DEF e, E, to
  <2> QED BY <1>13 DEF End
<1>4. W = E \cup F /\ E \cap F = {}
  <2>1. \A a \in DOMAIN d.apps : e.apps[a].ended = IF a \in E THEN t ELSE d.apps[a].ended
    <3> HIDE DEF E, e
    <3> QED BY <1>2, <1>3
  <2> HIDE DEF e
  <2> QED BY <2>1, <1>3 DEF Ending
<1>5. /\ e.tokens = Revoke(d.tokens, to(E, d.tokens))
      /\ e.codes = Revoke(d.codes, CutOf(d, E, d.codes))
      /\ e.txns = Revoke(d.txns, CutOf(d, E, d.txns))
  BY <1>13
<1>6. to(F, e.tokens) = to(F, d.tokens)
  <2> DEFINE R == to(E, d.tokens)
  <2>1. e.tokens = Revoke(d.tokens, R)
    BY <1>5
  <2> HIDE DEF R, e, F
  <2>2. DOMAIN e.tokens = DOMAIN d.tokens
    BY <2>1 DEF Revoke
  <2>3. \A x \in DOMAIN d.tokens : Revoke(d.tokens, R)[x].app = d.tokens[x].app
                                   /\ Revoke(d.tokens, R)[x].family = d.tokens[x].family
    BY TokenParts
  <2> QED BY <2>1, <2>2, <2>3
<1>7. F \subseteq DOMAIN d.apps /\ \A a \in F : e.apps[a].op = d.apps[a].op /\ e.apps[a].client = d.apps[a].client
  <2>1. F \subseteq DOMAIN d.apps
    BY <1>3 DEF Ending
  <2> HIDE DEF F, E, e
  <2> QED BY <2>1, <1>2, <1>3
<1>8. CutOf(e, F, e.codes) = CutOf(d, F, d.codes)
  <2> DEFINE R == CutOf(d, E, d.codes)
  <2>1. e.codes = Revoke(d.codes, R)
    BY <1>5
  <2> HIDE DEF R, e, F
  <2>2. DOMAIN e.codes = DOMAIN d.codes
    BY <2>1 DEF Revoke
  <2>3. \A x \in DOMAIN d.codes : Revoke(d.codes, R)[x].op = d.codes[x].op
                                   /\ Revoke(d.codes, R)[x].client = d.codes[x].client
    BY CodeParts
  <2> QED BY <2>1, <2>2, <2>3, <1>7 DEF CutOf
<1>9. CutOf(e, F, e.txns) = CutOf(d, F, d.txns)
  <2> DEFINE R == CutOf(d, E, d.txns)
  <2>1. e.txns = Revoke(d.txns, R)
    BY <1>5
  <2> HIDE DEF R, e, F
  <2>2. DOMAIN e.txns = DOMAIN d.txns
    BY <2>1 DEF Revoke
  <2>3. \A x \in DOMAIN d.txns : Revoke(d.txns, R)[x].op = d.txns[x].op
                                   /\ Revoke(d.txns, R)[x].client = d.txns[x].client
    BY TxnParts
  <2> QED BY <2>1, <2>2, <2>3, <1>7 DEF CutOf
<1>10. /\ CutOf(d, E, d.codes) \cup CutOf(d, F, d.codes) = CutOf(d, W, d.codes)
       /\ CutOf(d, E, d.txns) \cup CutOf(d, F, d.txns) = CutOf(d, W, d.txns)
       /\ to(E, d.tokens) \cup to(F, d.tokens) = to(W, d.tokens)
  <2> HIDE DEF E, F, W
  <2> QED BY <1>4 DEF CutOf
<1>11. /\ FieldsOf(h)
       /\ h.users = e.users /\ h.clients = e.clients /\ h.policy = e.policy
       /\ h.access = e.access /\ h.sessions = e.sessions /\ h.families = e.families
       /\ h.refresh = e.refresh /\ h.consents = e.consents /\ h.next = e.next
       /\ h.apps = End(e.apps, F, t)
       /\ h.tokens = Revoke(e.tokens, to(F, e.tokens))
       /\ h.codes = Revoke(e.codes, CutOf(e, F, e.codes))
       /\ h.txns = Revoke(e.txns, CutOf(e, F, e.txns))
  <2> HIDE DEF e
  <2> QED BY <1>1, AppEndFields
<1>12. /\ FieldsOf(g)
       /\ g.users = d.users /\ g.clients = d.clients /\ g.policy = d.policy
       /\ g.access = d.access /\ g.sessions = d.sessions /\ g.families = d.families
       /\ g.refresh = d.refresh /\ g.consents = d.consents /\ g.next = d.next
       /\ g.apps = End(d.apps, W, t)
       /\ g.tokens = Revoke(d.tokens, to(W, d.tokens))
       /\ g.codes = Revoke(d.codes, CutOf(d, W, d.codes))
       /\ g.txns = Revoke(d.txns, CutOf(d, W, d.txns))
  <2> HIDE DEF T
  <2> QED BY <1>1, AppEndFields
<1> HIDE DEF T, e, g, h, E, F, W, to
<1>14. h.apps = g.apps
  BY <1>3, <1>4, <1>11, <1>12, EndUnion
<1>15. h.tokens = g.tokens
  <2>1. h.tokens = Revoke(Revoke(d.tokens, to(E, d.tokens)), to(F, d.tokens))
    BY <1>5, <1>6, <1>11
  <2> QED BY <2>1, <1>10, <1>12, RevokeUnion
<1>16. h.codes = g.codes
  <2>1. h.codes = Revoke(Revoke(d.codes, CutOf(d, E, d.codes)), CutOf(d, F, d.codes))
    BY <1>5, <1>8, <1>11
  <2> QED BY <2>1, <1>10, <1>12, RevokeUnion
<1>17. h.txns = g.txns
  <2>1. h.txns = Revoke(Revoke(d.txns, CutOf(d, E, d.txns)), CutOf(d, F, d.txns))
    BY <1>5, <1>9, <1>11
  <2> QED BY <2>1, <1>10, <1>12, RevokeUnion
<1>18. h = g
  BY <1>11, <1>12, <1>13, <1>14, <1>15, <1>16, <1>17, SameFields
<1> QED BY <1>18 DEF h, g, e, T

\* Ending none.
LEMMA AppEndsNone ==
    ASSUME NEW d, StoreOK(d), NEW A, Ending(d, A) = {}, NEW t
    PROVE  EndAppSessions(d, A, t) = d
<1> DEFINE e == EndAppSessions(d, A, t)
           E == Ending(d, A)
           to == {k \in DOMAIN d.tokens : d.tokens[k].app \in E /\ d.tokens[k].family = 0}
<1>1. FieldsOf(d)
  BY StoreFields
<1>2. CutOf(d, {}, d.codes) = {} /\ CutOf(d, {}, d.txns) = {}
  BY DEF CutOf
<1>3. E = {} /\ to = {}
  OBVIOUS
<1>8. /\ FieldsOf(e)
      /\ e.users = d.users /\ e.clients = d.clients /\ e.policy = d.policy
      /\ e.access = d.access /\ e.sessions = d.sessions /\ e.families = d.families
      /\ e.refresh = d.refresh /\ e.consents = d.consents /\ e.next = d.next
      /\ e.apps = End(d.apps, E, t)
      /\ e.tokens = Revoke(d.tokens, to)
      /\ e.codes = Revoke(d.codes, CutOf(d, E, d.codes))
      /\ e.txns = Revoke(d.txns, CutOf(d, E, d.txns))
  BY <1>1, AppEndFields
<1> HIDE DEF e, E, to
<1>4. /\ e.apps = End(d.apps, {}, t) /\ e.tokens = Revoke(d.tokens, {})
      /\ e.codes = Revoke(d.codes, {}) /\ e.txns = Revoke(d.txns, {})
  BY <1>2, <1>3, <1>8
<1>5. /\ d.apps = [x \in DOMAIN d.apps |-> d.apps[x]]
      /\ d.tokens = [x \in DOMAIN d.tokens |-> d.tokens[x]]
      /\ d.codes = [x \in DOMAIN d.codes |-> d.codes[x]]
      /\ d.txns = [x \in DOMAIN d.txns |-> d.txns[x]]
  BY DEF StoreOK, IsMap
<1>6. End(d.apps, {}, t) = d.apps
  BY <1>5 DEF End
<1>7. e.apps = d.apps /\ e.tokens = d.tokens /\ e.codes = d.codes /\ e.txns = d.txns
  BY <1>4, <1>5, <1>6, RevokeUnion
<1>9. e = d
  BY <1>1, <1>7, <1>8, SameFields
<1> QED BY <1>9 DEF e

\* EndAppSession in a loop.
LEMMA AppsDo ==
    ASSUME NEW d, Ready(d), now \in Nat \ {0}, NEW K, IsFiniteSet(K)
    PROVE  Does(d, DoEach("EndAppSession", K), EndAppSessions(d, K, now))
<1> DEFINE G == [S \in SUBSET K |-> EndAppSessions(d, S, now)]
<1>1. StoreOK(d)
  BY ReadyHas
<1>2. ASSUME NEW S \in SUBSET K, NEW k \in K
      PROVE  Does(G[S], Do("EndAppSession", k), G[S \cup {k}])
  <2>1. Ready(EndAppSessions(d, S, now))
    BY CutsReady
  <2>3. Does(EndAppSessions(d, S, now), TxAt("EndAppSession", k, <<>>, now),
             EndAppSessions(EndAppSessions(d, S, now), {k}, now))
    BY <2>1, CutsDo
  <2>4. EndAppSessions(EndAppSessions(d, S, now), {k}, now) = EndAppSessions(d, S \cup {k}, now)
    <3> DEFINE A == {k}
    <3> HIDE DEF A
    <3>1. EndAppSessions(EndAppSessions(d, S, now), A, now) = EndAppSessions(d, S \cup A, now)
      BY <1>1, AppEndsUnion
    <3> QED BY <3>1 DEF A
  <2> QED BY <2>3, <2>4 DEF Do, Tx
<1>3. Does(G[{}], DoEach("EndAppSession", K), G[K])
  <2> HIDE DEF G
  <2> QED BY <1>2, DoesEach
<1>4. EndAppSessions(d, {}, now) = d
  <2>1. Ending(d, {}) = {}
    BY DEF Ending
  <2> QED BY <1>1, <2>1, AppEndsNone
<1> QED BY <1>3, <1>4

\* The fields after EndSession on a set of session IDs.
LEMMA EndFields ==
    ASSUME NEW d, StoreOK(d), NEW I, NEW t \in Nat \ {0}
    PROVE  LET e == EndSessions(d, I, t) J == EndingIDs(d, I) E == Ending(d, Under(d.apps, J)) IN
           /\ FieldsOf(e)
           /\ e.users = d.users /\ e.clients = d.clients /\ e.policy = d.policy
           /\ e.access = d.access /\ e.families = d.families
           /\ e.refresh = d.refresh /\ e.consents = d.consents /\ e.next = d.next
           /\ e.sessions = End(d.sessions, ToEnd(d, I), t)
           /\ e.apps = End(d.apps, E, t)
           /\ e.tokens = Revoke(d.tokens, {k \in DOMAIN d.tokens :
                           d.tokens[k].app \in E /\ d.tokens[k].family = 0})
           /\ e.codes = Revoke(d.codes, Under(d.codes, J))
           /\ e.txns = Revoke(d.txns, Under(d.txns, J))
<1> DEFINE J == EndingIDs(d, I)
           A == Under(d.apps, J)
           E == Ending(d, A)
           se == End(d.sessions, ToEnd(d, I), t)
           d0 == SessionsEnded(d, I, t)
           d1 == AppsEnded(d, I, t)
           to(X, m) == {k \in DOMAIN m : m[k].app \in X /\ m[k].family = 0}
           e == EndSessions(d, I, t)
           tr == Revoke(d1.txns, Under(d1.txns, J))
           co == Revoke(d1.codes, Under(d1.codes, J))
<1>1. FieldsOf(d)
  BY StoreFields
<1>2. /\ FieldsOf(d0)
      /\ d0.users = d.users /\ d0.clients = d.clients /\ d0.policy = d.policy
      /\ d0.access = d.access /\ d0.families = d.families
      /\ d0.refresh = d.refresh /\ d0.consents = d.consents /\ d0.next = d.next
      /\ d0.sessions = se
      /\ d0.apps = d.apps /\ d0.tokens = d.tokens /\ d0.codes = d.codes /\ d0.txns = d.txns
  <2> HIDE DEF se
  <2>1. d0 = [d EXCEPT !.sessions = se]
    BY DEF SessionsEnded, se
  <2> HIDE DEF d0
  <2> QED BY <2>1, <1>1 DEF FieldsOf
<1>3. d1 = EndAppSessions(d0, A, t)
  BY DEF AppsEnded
<1>4. Ending(d0, A) = E
  <2> HIDE DEF d0, A
  <2> QED BY <1>2 DEF Ending
<1>5. /\ FieldsOf(d1)
      /\ d1.users = d0.users /\ d1.clients = d0.clients /\ d1.policy = d0.policy
      /\ d1.access = d0.access /\ d1.sessions = d0.sessions /\ d1.families = d0.families
      /\ d1.refresh = d0.refresh /\ d1.consents = d0.consents /\ d1.next = d0.next
      /\ d1.apps = End(d0.apps, E, t)
      /\ d1.tokens = Revoke(d0.tokens, to(E, d0.tokens))
      /\ d1.codes = Revoke(d0.codes, CutOf(d0, E, d0.codes))
      /\ d1.txns = Revoke(d0.txns, CutOf(d0, E, d0.txns))
  <2> DEFINE F == Ending(d0, A)
             g == EndAppSessions(d0, A, t)
  <2> HIDE DEF d0, A
  <2>1. /\ FieldsOf(g)
      /\ g.users = d0.users /\ g.clients = d0.clients /\ g.policy = d0.policy
      /\ g.access = d0.access /\ g.sessions = d0.sessions /\ g.families = d0.families
      /\ g.refresh = d0.refresh /\ g.consents = d0.consents /\ g.next = d0.next
      /\ g.apps = End(d0.apps, F, t)
      /\ g.tokens = Revoke(d0.tokens, to(F, d0.tokens))
      /\ g.codes = Revoke(d0.codes, CutOf(d0, F, d0.codes))
      /\ g.txns = Revoke(d0.txns, CutOf(d0, F, d0.txns))
    BY <1>2, AppEndFields
  <2>2. d1 = g /\ F = E
    BY <1>3, <1>4
  <2> HIDE DEF F, g, d1, E, to
  <2> QED BY <2>1, <2>2
<1>6. /\ CutOf(d0, E, d0.codes) \cup Under(d.codes, J) = Under(d.codes, J)
      /\ CutOf(d0, E, d0.txns) \cup Under(d.txns, J) = Under(d.txns, J)
  <2>1. \A a \in E : d0.apps[a].op \in J
    <3> HIDE DEF d0, J
    <3> QED BY <1>2 DEF Ending, Under
  <2> HIDE DEF d0, J, E
  <2> QED BY <1>2, <2>1 DEF CutOf, Under
<1>7. Under(d1.codes, J) = Under(d.codes, J) /\ Under(d1.txns, J) = Under(d.txns, J)
  <2> DEFINE R == CutOf(d0, E, d0.codes)
             Q == CutOf(d0, E, d0.txns)
  <2>1. d1.codes = Revoke(d.codes, R) /\ d1.txns = Revoke(d.txns, Q)
    <3> HIDE DEF d0, d1, E
    <3> QED BY <1>2, <1>5
  <2> HIDE DEF d0, d1, E, R, Q, J
  <2>2. DOMAIN d1.codes = DOMAIN d.codes /\ DOMAIN d1.txns = DOMAIN d.txns
    BY <2>1 DEF Revoke
  <2>3. \A x \in DOMAIN d.codes : Revoke(d.codes, R)[x].op = d.codes[x].op
    BY CodeParts
  <2>4. \A x \in DOMAIN d.txns : Revoke(d.txns, Q)[x].op = d.txns[x].op
    BY TxnParts
  <2> QED BY <2>1, <2>2, <2>3, <2>4 DEF Under
<1>8. co = Revoke(d.codes, Under(d.codes, J)) /\ tr = Revoke(d.txns, Under(d.txns, J))
  <2> HIDE DEF d0, d1, E, J
  <2>1. /\ co = Revoke(Revoke(d.codes, CutOf(d0, E, d0.codes)), Under(d.codes, J))
        /\ tr = Revoke(Revoke(d.txns, CutOf(d0, E, d0.txns)), Under(d.txns, J))
    BY <1>2, <1>5, <1>7
  <2> HIDE DEF co, tr
  <2> QED BY <2>1, <1>6, RevokeUnion
<1>9. e = [[d1 EXCEPT !.txns = tr] EXCEPT !.codes = co]
  BY <1>1, EndSessionSteps
<1> HIDE DEF d0, d1, e, co, tr, se, E, J, to
<1>10. /\ FieldsOf(e)
       /\ e.users = d1.users /\ e.clients = d1.clients /\ e.policy = d1.policy
       /\ e.access = d1.access /\ e.sessions = d1.sessions /\ e.families = d1.families
       /\ e.refresh = d1.refresh /\ e.consents = d1.consents /\ e.next = d1.next
       /\ e.apps = d1.apps /\ e.tokens = d1.tokens /\ e.codes = co /\ e.txns = tr
  BY <1>5, <1>9 DEF FieldsOf
<1>11. /\ FieldsOf(e)
       /\ e.users = d.users /\ e.clients = d.clients /\ e.policy = d.policy
       /\ e.access = d.access /\ e.families = d.families
       /\ e.refresh = d.refresh /\ e.consents = d.consents /\ e.next = d.next
       /\ e.sessions = se
       /\ e.apps = End(d.apps, E, t)
       /\ e.tokens = Revoke(d.tokens, to(E, d.tokens))
       /\ e.codes = Revoke(d.codes, Under(d.codes, J))
       /\ e.txns = Revoke(d.txns, Under(d.txns, J))
  BY <1>2, <1>5, <1>8, <1>10
<1> QED BY <1>11 DEF e, se, E, J, to

\* EndSession, one session ID after the other.
LEMMA EndsUnion ==
    ASSUME NEW d, Sound(d), NEW S, NEW k, NEW t \in Nat \ {0}
    PROVE  EndSession(EndSessions(d, S, t), k, t) = EndSessions(d, S \cup {k}, t)
<1> DEFINE T == S \cup {k}
           e == EndSessions(d, S, t)
           g == EndSessions(d, T, t)
           h == EndSessions(e, {k}, t)
           H == ToEnd(d, S) H2 == ToEnd(e, {k}) HT == ToEnd(d, T)
           J == EndingIDs(d, S) J2 == EndingIDs(e, {k}) JT == EndingIDs(d, T)
           E == Ending(d, Under(d.apps, J))
           F == Ending(e, Under(e.apps, J2))
           W == Ending(d, Under(d.apps, JT))
           to(X, m) == {x \in DOMAIN m : m[x].app \in X /\ m[x].family = 0}
<1>1. StoreOK(e) /\ StoreOK(d)
  BY EndSessionsSound DEF Sound
<1>2. /\ FieldsOf(e)
      /\ e.users = d.users /\ e.clients = d.clients /\ e.policy = d.policy
      /\ e.access = d.access /\ e.families = d.families
      /\ e.refresh = d.refresh /\ e.consents = d.consents /\ e.next = d.next
      /\ e.sessions = End(d.sessions, H, t)
      /\ e.apps = End(d.apps, E, t)
      /\ e.tokens = Revoke(d.tokens, to(E, d.tokens))
      /\ e.codes = Revoke(d.codes, Under(d.codes, J))
      /\ e.txns = Revoke(d.txns, Under(d.txns, J))
  BY <1>1, EndFields
<1>3. /\ FieldsOf(g)
      /\ g.users = d.users /\ g.clients = d.clients /\ g.policy = d.policy
      /\ g.access = d.access /\ g.families = d.families
      /\ g.refresh = d.refresh /\ g.consents = d.consents /\ g.next = d.next
      /\ g.sessions = End(d.sessions, HT, t)
      /\ g.apps = End(d.apps, W, t)
      /\ g.tokens = Revoke(d.tokens, to(W, d.tokens))
      /\ g.codes = Revoke(d.codes, Under(d.codes, JT))
      /\ g.txns = Revoke(d.txns, Under(d.txns, JT))
  <2> HIDE DEF T
  <2> QED BY <1>1, EndFields, ZenonT(60)
<1>4. /\ FieldsOf(h)
      /\ h.users = e.users /\ h.clients = e.clients /\ h.policy = e.policy
      /\ h.access = e.access /\ h.families = e.families
      /\ h.refresh = e.refresh /\ h.consents = e.consents /\ h.next = e.next
      /\ h.sessions = End(e.sessions, H2, t)
      /\ h.apps = End(e.apps, F, t)
      /\ h.tokens = Revoke(e.tokens, to(F, e.tokens))
      /\ h.codes = Revoke(e.codes, Under(e.codes, J2))
      /\ h.txns = Revoke(e.txns, Under(e.txns, J2))
  <2> DEFINE I == {k}
  <2> HIDE DEF e, I
  <2>1. LET K2 == EndingIDs(e, I) X == Ending(e, Under(e.apps, K2)) f == EndSessions(e, I, t) IN
        /\ FieldsOf(f)
        /\ f.users = e.users /\ f.clients = e.clients /\ f.policy = e.policy
        /\ f.access = e.access /\ f.families = e.families
        /\ f.refresh = e.refresh /\ f.consents = e.consents /\ f.next = e.next
        /\ f.sessions = End(e.sessions, ToEnd(e, I), t)
        /\ f.apps = End(e.apps, X, t)
        /\ f.tokens = Revoke(e.tokens, to(X, e.tokens))
        /\ f.codes = Revoke(e.codes, Under(e.codes, K2))
        /\ f.txns = Revoke(e.txns, Under(e.txns, K2))
    BY <1>1, EndFields
  <2> QED BY <2>1 DEF I
<1>5. /\ \A x \in DOMAIN d.sessions : \A A :
            LET v == End(d.sessions, A, t)[x] w == d.sessions[x] IN
            v.id = w.id /\ v.ended = IF x \in A THEN t ELSE w.ended
      /\ \A x \in DOMAIN d.apps : \A A :
            LET v == End(d.apps, A, t)[x] w == d.apps[x] IN
            v.op = w.op /\ v.ended = IF x \in A THEN t ELSE w.ended
  <2>1. ASSUME NEW x \in DOMAIN d.sessions, NEW A
        PROVE  LET v == End(d.sessions, A, t)[x] w == d.sessions[x] IN
               v.id = w.id /\ v.ended = IF x \in A THEN t ELSE w.ended
    <3>1. d.sessions[x] \in Session
      BY <1>1, Records
    <3> QED BY <3>1 DEF End, Session
  <2>2. ASSUME NEW x \in DOMAIN d.apps, NEW A
        PROVE  LET v == End(d.apps, A, t)[x] w == d.apps[x] IN
               v.op = w.op /\ v.ended = IF x \in A THEN t ELSE w.ended
    <3>1. d.apps[x] \in AppSession
      BY <1>1, Records
    <3> QED BY <3>1 DEF End, AppSession
  <2> QED BY <2>1, <2>2
<1> HIDE DEF e, E, H, J
<1>6. /\ DOMAIN e.sessions = DOMAIN d.sessions /\ DOMAIN e.apps = DOMAIN d.apps
      /\ \A x \in DOMAIN d.sessions : /\ e.sessions[x].id = d.sessions[x].id
                                      /\ e.sessions[x].ended = IF x \in H THEN t ELSE d.sessions[x].ended
      /\ \A x \in DOMAIN d.apps : /\ e.apps[x].op = d.apps[x].op
                                  /\ e.apps[x].ended = IF x \in E THEN t ELSE d.apps[x].ended
  <2>1. DOMAIN e.sessions = DOMAIN d.sessions /\ DOMAIN e.apps = DOMAIN d.apps
    BY <1>2 DEF End
  <2> QED BY <1>2, <1>5, <2>1
<1>7. HT = H \cup H2 /\ H \cap H2 = {} /\ H2 \subseteq DOMAIN d.sessions
  BY <1>6 DEF ToEnd, H
<1>8. JT = J \cup J2
  <2>1. /\ JT = {d.sessions[x].id : x \in HT}
        /\ J = {d.sessions[x].id : x \in H}
        /\ J2 = {e.sessions[x].id : x \in H2}
    BY DEF EndingIDs, H, J
  <2>2. \A x \in H2 : e.sessions[x].id = d.sessions[x].id
    BY <1>6, <1>7
  <2> HIDE DEF HT, H2, JT, J2
  <2>3. J2 = {d.sessions[x].id : x \in H2}
    BY <2>1, <2>2
  <2> QED BY <2>1, <2>3, <1>7
<1> HIDE DEF H2, J2, JT, HT
<1>9. W = E \cup F /\ E \cap F = {}
  <2>1. Under(e.apps, J2) = Under(d.apps, J2)
    BY <1>6 DEF Under
  <2>2. W = {a \in DOMAIN d.apps : d.apps[a].op \in JT /\ d.apps[a].ended = 0}
    BY DEF Ending, Under
  <2>3. E = {a \in DOMAIN d.apps : d.apps[a].op \in J /\ d.apps[a].ended = 0}
    BY DEF Ending, Under, E
  <2>4. F = {a \in DOMAIN d.apps : d.apps[a].op \in J2 /\ d.apps[a].ended = 0 /\ a \notin E}
    BY <1>6 DEF Ending, Under
  <2> HIDE DEF W, F
  <2> QED BY <2>2, <2>3, <2>4, <1>8
<1>10. to(F, e.tokens) = to(F, d.tokens)
  <2> DEFINE R == to(E, d.tokens)
  <2>1. e.tokens = Revoke(d.tokens, R)
    BY <1>2
  <2> HIDE DEF R, F
  <2>2. DOMAIN e.tokens = DOMAIN d.tokens
    BY <2>1 DEF Revoke
  <2>3. \A x \in DOMAIN d.tokens : Revoke(d.tokens, R)[x].app = d.tokens[x].app
                                   /\ Revoke(d.tokens, R)[x].family = d.tokens[x].family
    BY <1>1, TokenParts
  <2> QED BY <2>1, <2>2, <2>3
<1>11. Under(e.codes, J2) = Under(d.codes, J2) /\ Under(e.txns, J2) = Under(d.txns, J2)
  <2> DEFINE R == Under(d.codes, J)
             Q == Under(d.txns, J)
  <2>1. e.codes = Revoke(d.codes, R) /\ e.txns = Revoke(d.txns, Q)
    BY <1>2
  <2> HIDE DEF R, Q
  <2>2. DOMAIN e.codes = DOMAIN d.codes /\ DOMAIN e.txns = DOMAIN d.txns
    BY <2>1 DEF Revoke
  <2>3. \A x \in DOMAIN d.codes : Revoke(d.codes, R)[x].op = d.codes[x].op
    BY <1>1, CodeParts
  <2>4. \A x \in DOMAIN d.txns : Revoke(d.txns, Q)[x].op = d.txns[x].op
    BY <1>1, TxnParts
  <2> QED BY <2>1, <2>2, <2>3, <2>4 DEF Under
<1>12. /\ Under(d.codes, J) \cup Under(d.codes, J2) = Under(d.codes, JT)
       /\ Under(d.txns, J) \cup Under(d.txns, J2) = Under(d.txns, JT)
       /\ to(E, d.tokens) \cup to(F, d.tokens) = to(W, d.tokens)
  <2> HIDE DEF F, W
  <2> QED BY <1>8, <1>9 DEF Under
<1> HIDE DEF g, h, F, W, to, T
<1>13. h.sessions = g.sessions
  BY <1>2, <1>3, <1>4, <1>7, EndUnion
<1>14. h.apps = g.apps
  BY <1>2, <1>3, <1>4, <1>9, EndUnion
<1>15. h.tokens = g.tokens
  <2>1. h.tokens = Revoke(Revoke(d.tokens, to(E, d.tokens)), to(F, d.tokens))
    BY <1>2, <1>4, <1>10
  <2> QED BY <2>1, <1>3, <1>12, RevokeUnion
<1>16. h.codes = g.codes
  <2>1. h.codes = Revoke(Revoke(d.codes, Under(d.codes, J)), Under(d.codes, J2))
    BY <1>2, <1>4, <1>11
  <2> QED BY <2>1, <1>3, <1>12, RevokeUnion
<1>17. h.txns = g.txns
  <2>1. h.txns = Revoke(Revoke(d.txns, Under(d.txns, J)), Under(d.txns, J2))
    BY <1>2, <1>4, <1>11
  <2> QED BY <2>1, <1>3, <1>12, RevokeUnion
<1>18. h = g
  BY <1>2, <1>3, <1>4, <1>13, <1>14, <1>15, <1>16, <1>17, SameFields
<1> QED BY <1>18 DEF h, g, e, T, EndSession

\* Ending no session that is open.
LEMMA EndsNone ==
    ASSUME NEW d, StoreOK(d), NEW I, ToEnd(d, I) = {}, NEW t \in Nat \ {0}
    PROVE  EndSessions(d, I, t) = d
<1> DEFINE e == EndSessions(d, I, t)
           J == EndingIDs(d, I)
           E == Ending(d, Under(d.apps, J))
           to == {k \in DOMAIN d.tokens : d.tokens[k].app \in E /\ d.tokens[k].family = 0}
<1>1. /\ FieldsOf(e)
      /\ e.users = d.users /\ e.clients = d.clients /\ e.policy = d.policy
      /\ e.access = d.access /\ e.families = d.families
      /\ e.refresh = d.refresh /\ e.consents = d.consents /\ e.next = d.next
      /\ e.sessions = End(d.sessions, ToEnd(d, I), t)
      /\ e.apps = End(d.apps, E, t)
      /\ e.tokens = Revoke(d.tokens, to)
      /\ e.codes = Revoke(d.codes, Under(d.codes, J))
      /\ e.txns = Revoke(d.txns, Under(d.txns, J))
  BY EndFields, ZenonT(30)
<1>2. J = {}
  BY DEF EndingIDs
<1>3. E = {} /\ Under(d.codes, J) = {} /\ Under(d.txns, J) = {} /\ to = {}
  <2> HIDE DEF J
  <2> QED BY <1>2 DEF Ending, Under
<1> HIDE DEF e, E, to, J
<1>4. /\ e.sessions = End(d.sessions, {}, t) /\ e.apps = End(d.apps, {}, t)
      /\ e.tokens = Revoke(d.tokens, {}) /\ e.codes = Revoke(d.codes, {})
      /\ e.txns = Revoke(d.txns, {})
  BY <1>1, <1>3
<1>5. /\ d.sessions = [x \in DOMAIN d.sessions |-> d.sessions[x]]
      /\ d.apps = [x \in DOMAIN d.apps |-> d.apps[x]]
      /\ d.tokens = [x \in DOMAIN d.tokens |-> d.tokens[x]]
      /\ d.codes = [x \in DOMAIN d.codes |-> d.codes[x]]
      /\ d.txns = [x \in DOMAIN d.txns |-> d.txns[x]]
  BY DEF StoreOK, IsMap
<1>6. End(d.apps, {}, t) = d.apps /\ End(d.sessions, {}, t) = d.sessions
  BY <1>5 DEF End
<1>7. /\ e.apps = d.apps /\ e.sessions = d.sessions
      /\ e.tokens = d.tokens /\ e.codes = d.codes /\ e.txns = d.txns
  BY <1>4, <1>5, <1>6, RevokeUnion
<1>8. FieldsOf(d)
  BY StoreFields
<1>9. e = d
  BY <1>1, <1>7, <1>8, SameFields
<1> QED BY <1>9 DEF e

\* EndSession in a loop.
LEMMA SessionsDo ==
    ASSUME NEW d, Ready(d), now \in Nat \ {0}, NEW K, IsFiniteSet(K)
    PROVE  Does(d, DoEach("EndSession", K), EndSessions(d, K, now))
<1> DEFINE G == [S \in SUBSET K |-> EndSessions(d, S, now)]
<1>1. Sound(d) /\ StoreOK(d)
  BY ReadyHas
<1>2. ASSUME NEW S \in SUBSET K, NEW k \in K
      PROVE  Does(G[S], Do("EndSession", k), G[S \cup {k}])
  <2>1. Ready(EndSessions(d, S, now))
    BY CutsReady
  <2>3. Does(EndSessions(d, S, now), TxAt("EndSession", k, <<>>, now),
             EndSession(EndSessions(d, S, now), k, now))
    BY <2>1, CutsDo
  <2>4. EndSession(EndSessions(d, S, now), k, now) = EndSessions(d, S \cup {k}, now)
    BY <1>1, EndsUnion
  <2> QED BY <2>3, <2>4 DEF Do, Tx
<1>3. Does(G[{}], DoEach("EndSession", K), G[K])
  <2> HIDE DEF G
  <2> QED BY <1>2, DoesEach
<1>4. EndSessions(d, {}, now) = d
  <2>1. ToEnd(d, {}) = {}
    BY DEF ToEnd
  <2> QED BY <1>1, <2>1, EndsNone
<1> QED BY <1>3, <1>4

(***************************************************************************)
(* Tokens, requests and codes revoked in a loop.                           *)
(***************************************************************************)
\* RevokeAccessToken, on any state.
LEMMA TokenDoes ==
    ASSUME NEW d, NEW k, NEW v, NEW t
    PROVE  Does(d, TxAt("RevokeAccessToken", k, v, t), RevokeAccessToken(d, k))
<1>1. ASSUME NEW p, Shows(d, p)
      PROVE  Shows(RevokeAccessToken(d, k), PG!Do(p, CallOf("RevokeAccessToken", k, v, t)))
  <2> DEFINE x == Revoke(d.tokens, {k})
  <2>1. PG!Do(p, CallOf("RevokeAccessToken", k, v, t)) = PG!RevokeAccessToken(p, k)
    BY DEF PG!Do, CallOf
  <2>2. PG!Revoke(p.tokens, {k}) = x
    BY <1>1, SameMaps DEF Shows
  <2>3. PG!RevokeAccessToken(p, k) = [p EXCEPT !.tokens = x]
    BY <2>2 DEF PG!RevokeAccessToken
  <2> HIDE DEF x
  <2>4. Shows([d EXCEPT !.tokens = x], [p EXCEPT !.tokens = x])
    BY <1>1, ShowsPut
  <2> QED BY <2>1, <2>3, <2>4 DEF RevokeAccessToken, x
<1> QED BY <1>1, DoesOne

\* RevokeAccessToken in a loop.
LEMMA TokensDo ==
    ASSUME NEW d, FieldsOf(d), d.tokens = [x \in DOMAIN d.tokens |-> d.tokens[x]],
           NEW K, IsFiniteSet(K)
    PROVE  Does(d, DoEach("RevokeAccessToken", K), [d EXCEPT !.tokens = Revoke(d.tokens, K)])
<1> DEFINE T(S) == Revoke(d.tokens, S)
           G == [S \in SUBSET K |-> [d EXCEPT !.tokens = T(S)]]
<1>2. ASSUME NEW S \in SUBSET K, NEW k \in K
      PROVE  Does(G[S], Do("RevokeAccessToken", k), G[S \cup {k}])
  <2> DEFINE e == [d EXCEPT !.tokens = T(S)]
             r == RevokeAccessToken(e, k)
  <2>1. Does(e, TxAt("RevokeAccessToken", k, <<>>, now), r)
    <3> HIDE DEF e
    <3> QED BY TokenDoes
  <2>2. e.tokens = T(S)
    <3> HIDE DEF T
    <3> QED BY DEF FieldsOf
  <2>3. Revoke(e.tokens, {k}) = T(S \cup {k})
    <3> HIDE DEF e
    <3> QED BY <2>2, RevokeUnion
  <2>4. r = [e EXCEPT !.tokens = T(S \cup {k})]
    <3> HIDE DEF e, T
    <3> QED BY <2>3 DEF RevokeAccessToken
  <2>5. r = [d EXCEPT !.tokens = T(S \cup {k})]
    <3> HIDE DEF T, r
    <3> QED BY <2>4
  <2> HIDE DEF T, r
  <2>6. Does([d EXCEPT !.tokens = T(S)], Do("RevokeAccessToken", k), [d EXCEPT !.tokens = T(S \cup {k})])
    BY <2>1, <2>5 DEF Do, Tx
  <2> QED BY <2>6
<1>3. Does(G[{}], DoEach("RevokeAccessToken", K), G[K])
  <2> HIDE DEF G
  <2> QED BY <1>2, DoesEach
<1>4. T({}) = d.tokens
  BY RevokeUnion
<1>5. [d EXCEPT !.tokens = T({})] = d
  <2> HIDE DEF T
  <2> QED BY <1>4 DEF FieldsOf
<1> HIDE DEF T
<1>6. G[{}] = d /\ G[K] = [d EXCEPT !.tokens = T(K)]
  BY <1>5
<1> HIDE DEF G
<1> QED BY <1>3, <1>6 DEF T

\* Putting a record back with the mark is marking it.
LEMMA PutMark ==
    ASSUME NEW m, NEW S, NEW k \in DOMAIN m, NEW v, v = [m[k] EXCEPT !.revoked = TRUE]
    PROVE  Put(Revoke(m, S), k, v) = Revoke(m, S \cup {k})
<1>1. DOMAIN Put(Revoke(m, S), k, v) = DOMAIN m /\ DOMAIN Revoke(m, S \cup {k}) = DOMAIN m
  BY DEF Put, Revoke
<1>2. \A x \in DOMAIN m : Put(Revoke(m, S), k, v)[x] = Revoke(m, S \cup {k})[x]
  BY DEF Put, Revoke
<1> QED BY <1>1, <1>2 DEF Put, Revoke

\* Transactions saved with the mark, in a loop.
LEMMA TxnsDo ==
    ASSUME NEW d, FieldsOf(d), d.txns = [x \in DOMAIN d.txns |-> d.txns[x]],
           NEW K, IsFiniteSet(K), K \subseteq DOMAIN d.txns,
           NEW m, \A k \in K : m[k] = [d.txns[k] EXCEPT !.revoked = TRUE]
    PROVE  Does(d, Save("SaveAuthzTransaction", m, K), [d EXCEPT !.txns = Revoke(d.txns, K)])
<1> DEFINE T(S) == Revoke(d.txns, S)
           G == [S \in SUBSET K |-> [d EXCEPT !.txns = T(S)]]
<1>2. ASSUME NEW S \in SUBSET K, NEW k \in K
      PROVE  Does(G[S], Tx("SaveAuthzTransaction", k, m[k]), G[S \cup {k}])
  <2> DEFINE e == [d EXCEPT !.txns = T(S)]
             r == [e EXCEPT !.txns = Put(e.txns, k, m[k])]
  <2>1. Does(e, TxAt("SaveAuthzTransaction", k, m[k], now), r)
    <3> HIDE DEF e
    <3> QED BY SavesDo
  <2>2. e.txns = T(S)
    <3> HIDE DEF T
    <3> QED BY DEF FieldsOf
  <2>3. Put(e.txns, k, m[k]) = T(S \cup {k})
    <3> DEFINE v == m[k]
    <3>1. k \in DOMAIN d.txns /\ v = [d.txns[k] EXCEPT !.revoked = TRUE]
      BY <1>2
    <3> HIDE DEF v
    <3>2. Put(Revoke(d.txns, S), k, v) = Revoke(d.txns, S \cup {k})
      <4> DEFINE g == d.txns
      <4>1. k \in DOMAIN g /\ v = [g[k] EXCEPT !.revoked = TRUE]
        BY <3>1
      <4> HIDE DEF g
      <4>2. Put(Revoke(g, S), k, v) = Revoke(g, S \cup {k})
        BY <4>1, PutMark
      <4> QED BY <4>2 DEF g
    <3> HIDE DEF e
    <3>3. Put(e.txns, k, v) = T(S \cup {k})
      BY <2>2, <3>2
    <3> QED BY <3>3 DEF v
  <2>4. r = [e EXCEPT !.txns = T(S \cup {k})]
    <3> HIDE DEF e, T
    <3> QED BY <2>3
  <2>5. r = [d EXCEPT !.txns = T(S \cup {k})]
    <3> HIDE DEF T, r
    <3> QED BY <2>4
  <2> HIDE DEF T, r
  <2>6. Does([d EXCEPT !.txns = T(S)], Tx("SaveAuthzTransaction", k, m[k]), [d EXCEPT !.txns = T(S \cup {k})])
    BY <2>1, <2>5 DEF Tx
  <2> QED BY <2>6
<1>3. Does(G[{}], Save("SaveAuthzTransaction", m, K), G[K])
  <2> HIDE DEF G
  <2> QED BY <1>2, DoesSave
<1>4. T({}) = d.txns
  BY RevokeUnion
<1>5. [d EXCEPT !.txns = T({})] = d
  <2> HIDE DEF T
  <2> QED BY <1>4 DEF FieldsOf
<1> HIDE DEF T
<1>6. G[{}] = d /\ G[K] = [d EXCEPT !.txns = T(K)]
  BY <1>5
<1> HIDE DEF G
<1> QED BY <1>3, <1>6 DEF T

\* Codes saved with the mark, in a loop.
LEMMA CodesDo ==
    ASSUME NEW d, FieldsOf(d), d.codes = [x \in DOMAIN d.codes |-> d.codes[x]],
           NEW K, IsFiniteSet(K), K \subseteq DOMAIN d.codes,
           NEW m, \A k \in K : m[k] = [d.codes[k] EXCEPT !.revoked = TRUE]
    PROVE  Does(d, Save("SaveAuthorizationCode", m, K), [d EXCEPT !.codes = Revoke(d.codes, K)])
<1> DEFINE T(S) == Revoke(d.codes, S)
           G == [S \in SUBSET K |-> [d EXCEPT !.codes = T(S)]]
<1>2. ASSUME NEW S \in SUBSET K, NEW k \in K
      PROVE  Does(G[S], Tx("SaveAuthorizationCode", k, m[k]), G[S \cup {k}])
  <2> DEFINE e == [d EXCEPT !.codes = T(S)]
             r == [e EXCEPT !.codes = Put(e.codes, k, m[k])]
  <2>1. Does(e, TxAt("SaveAuthorizationCode", k, m[k], now), r)
    <3> HIDE DEF e
    <3> QED BY SavesDo
  <2>2. e.codes = T(S)
    <3> HIDE DEF T
    <3> QED BY DEF FieldsOf
  <2>3. Put(e.codes, k, m[k]) = T(S \cup {k})
    <3> DEFINE v == m[k]
    <3>1. k \in DOMAIN d.codes /\ v = [d.codes[k] EXCEPT !.revoked = TRUE]
      BY <1>2
    <3> HIDE DEF v
    <3>2. Put(Revoke(d.codes, S), k, v) = Revoke(d.codes, S \cup {k})
      <4> DEFINE g == d.codes
      <4>1. k \in DOMAIN g /\ v = [g[k] EXCEPT !.revoked = TRUE]
        BY <3>1
      <4> HIDE DEF g
      <4>2. Put(Revoke(g, S), k, v) = Revoke(g, S \cup {k})
        BY <4>1, PutMark
      <4> QED BY <4>2 DEF g
    <3> HIDE DEF e
    <3>3. Put(e.codes, k, v) = T(S \cup {k})
      BY <2>2, <3>2
    <3> QED BY <3>3 DEF v
  <2>4. r = [e EXCEPT !.codes = T(S \cup {k})]
    <3> HIDE DEF e, T
    <3> QED BY <2>3
  <2>5. r = [d EXCEPT !.codes = T(S \cup {k})]
    <3> HIDE DEF T, r
    <3> QED BY <2>4
  <2> HIDE DEF T, r
  <2>6. Does([d EXCEPT !.codes = T(S)], Tx("SaveAuthorizationCode", k, m[k]), [d EXCEPT !.codes = T(S \cup {k})])
    BY <2>1, <2>5 DEF Tx
  <2> QED BY <2>6
<1>3. Does(G[{}], Save("SaveAuthorizationCode", m, K), G[K])
  <2> HIDE DEF G
  <2> QED BY <1>2, DoesSave
<1>4. T({}) = d.codes
  BY RevokeUnion
<1>5. [d EXCEPT !.codes = T({})] = d
  <2> HIDE DEF T
  <2> QED BY <1>4 DEF FieldsOf
<1> HIDE DEF T
<1>6. G[{}] = d /\ G[K] = [d EXCEPT !.codes = T(K)]
  BY <1>5
<1> HIDE DEF G
<1> QED BY <1>3, <1>6 DEF T

\* Keys that were drawn are finitely many.
LEMMA FewDrawn ==
    ASSUME NEW n \in Nat, NEW S, \A x \in S : x \in Nat /\ x < n
    PROVE  IsFiniteSet(S)
<1>1. IsFiniteSet(0..n) BY FS_Interval
<1>2. S \subseteq 0..n OBVIOUS
<1> QED BY <1>1, <1>2, FS_Subset

\* A state whose keys were all drawn holds finitely many records.
LEMMA Finitely ==
    ASSUME NEW d, StoreOK(d), AllDrawn(d)
    PROVE  /\ \A K : K \subseteq DOMAIN d.sessions => IsFiniteSet(K)
           /\ \A K : K \subseteq DOMAIN d.apps => IsFiniteSet(K)
           /\ \A K : K \subseteq DOMAIN d.txns => IsFiniteSet(K)
           /\ \A K : K \subseteq DOMAIN d.codes => IsFiniteSet(K)
           /\ \A K : K \subseteq DOMAIN d.tokens => IsFiniteSet(K)
           /\ \A K : K \subseteq DOMAIN d.families => IsFiniteSet(K)
<1>1. \A kind \in Kinds : d.next[kind] \in Nat BY Counters
<1>2. /\ d.next["session"] \in Nat /\ d.next["app"] \in Nat /\ d.next["txn"] \in Nat
      /\ d.next["code"] \in Nat /\ d.next["token"] \in Nat /\ d.next["family"] \in Nat
  BY <1>1 DEF Kinds
<1>3. /\ \A x \in DOMAIN d.sessions : x \in Nat /\ x < d.next["session"]
      /\ \A x \in DOMAIN d.apps : x \in Nat /\ x < d.next["app"]
      /\ \A x \in DOMAIN d.txns : x \in Nat /\ x < d.next["txn"]
      /\ \A x \in DOMAIN d.codes : x \in Nat /\ x < d.next["code"]
      /\ \A x \in DOMAIN d.tokens : x \in Nat /\ x < d.next["token"]
      /\ \A x \in DOMAIN d.families : x \in Nat /\ x < d.next["family"]
  BY Counters DEF AllDrawn
<1>4. \A K : K \subseteq DOMAIN d.sessions => IsFiniteSet(K)
  <2> TAKE K
  <2> HAVE K \subseteq DOMAIN d.sessions
  <2>1. \A x \in K : x \in Nat /\ x < d.next["session"] BY <1>3
  <2> QED BY <1>2, <2>1, FewDrawn
<1>5. \A K : K \subseteq DOMAIN d.apps => IsFiniteSet(K)
  <2> TAKE K
  <2> HAVE K \subseteq DOMAIN d.apps
  <2>1. \A x \in K : x \in Nat /\ x < d.next["app"] BY <1>3
  <2> QED BY <1>2, <2>1, FewDrawn
<1>6. \A K : K \subseteq DOMAIN d.txns => IsFiniteSet(K)
  <2> TAKE K
  <2> HAVE K \subseteq DOMAIN d.txns
  <2>1. \A x \in K : x \in Nat /\ x < d.next["txn"] BY <1>3
  <2> QED BY <1>2, <2>1, FewDrawn
<1>7. \A K : K \subseteq DOMAIN d.codes => IsFiniteSet(K)
  <2> TAKE K
  <2> HAVE K \subseteq DOMAIN d.codes
  <2>1. \A x \in K : x \in Nat /\ x < d.next["code"] BY <1>3
  <2> QED BY <1>2, <2>1, FewDrawn
<1>8. \A K : K \subseteq DOMAIN d.tokens => IsFiniteSet(K)
  <2> TAKE K
  <2> HAVE K \subseteq DOMAIN d.tokens
  <2>1. \A x \in K : x \in Nat /\ x < d.next["token"] BY <1>3
  <2> QED BY <1>2, <2>1, FewDrawn
<1>9. \A K : K \subseteq DOMAIN d.families => IsFiniteSet(K)
  <2> TAKE K
  <2> HAVE K \subseteq DOMAIN d.families
  <2>1. \A x \in K : x \in Nat /\ x < d.next["family"] BY <1>3
  <2> QED BY <1>2, <2>1, FewDrawn
<1> QED BY <1>4, <1>5, <1>6, <1>7, <1>8, <1>9

\* Pruning needs the types alone.
LEMMA PruneDoes ==
    ASSUME NEW d, StoreOK(d), NEW k, NEW v, NEW t \in Nat
    PROVE  Does(d, TxAt("PruneOIDCState", k, v, t), PruneOIDCState(d, t))
<1>1. ASSUME NEW p, Shows(d, p)
      PROVE  Shows(PruneOIDCState(d, t), PG!Do(p, CallOf("PruneOIDCState", k, v, t)))
  <2>1. Shows(PruneOIDCState(d, t), PG!PruneOIDCState(p, t)) BY <1>1, ShowsPruneOIDCState
  <2>2. PG!Do(p, CallOf("PruneOIDCState", k, v, t)) = PG!PruneOIDCState(p, t)
    BY DEF PG!Do, CallOf
  <2> QED BY <2>1, <2>2
<1> QED BY <1>1, DoesOne

\* the tokens in date that were exchanged for the codes S
Descend(d, S) == {t \in DOMAIN d.tokens : d.tokens[t].code \in S /\ now < d.tokens[t].exp}
CodesCut(d, S) == [d EXCEPT !.codes = Revoke(d.codes, S), !.tokens = Revoke(d.tokens, Descend(d, S))]

\* What CodesCut leaves in each field.
LEMMA CodesCutFields ==
    ASSUME NEW d, FieldsOf(d), NEW S
    PROVE  LET e == CodesCut(d, S) IN
           /\ FieldsOf(e)
           /\ e.codes = Revoke(d.codes, S) /\ e.tokens = Revoke(d.tokens, Descend(d, S))
           /\ e.users = d.users /\ e.clients = d.clients /\ e.policy = d.policy
           /\ e.access = d.access /\ e.sessions = d.sessions /\ e.apps = d.apps
           /\ e.txns = d.txns /\ e.families = d.families /\ e.refresh = d.refresh
           /\ e.consents = d.consents /\ e.next = d.next
<1> DEFINE co == Revoke(d.codes, S)
           to == Revoke(d.tokens, Descend(d, S))
<1> HIDE DEF co, to
<1> DEFINE y == [d EXCEPT !.codes = co]
           e == [y EXCEPT !.tokens = to]
<1>1. /\ FieldsOf(y)
      /\ y.codes = co /\ y.tokens = d.tokens
      /\ y.users = d.users /\ y.clients = d.clients /\ y.policy = d.policy
      /\ y.access = d.access /\ y.sessions = d.sessions /\ y.apps = d.apps
      /\ y.txns = d.txns /\ y.families = d.families /\ y.refresh = d.refresh
      /\ y.consents = d.consents /\ y.next = d.next
  BY DEF FieldsOf
<1>2. e = [d EXCEPT !.codes = co, !.tokens = to] OBVIOUS
<1> HIDE DEF y
<1>3. /\ FieldsOf(e)
      /\ e.codes = y.codes /\ e.tokens = to
      /\ e.users = y.users /\ e.clients = y.clients /\ e.policy = y.policy
      /\ e.access = y.access /\ e.sessions = y.sessions /\ e.apps = y.apps
      /\ e.txns = y.txns /\ e.families = y.families /\ e.refresh = y.refresh
      /\ e.consents = y.consents /\ e.next = y.next
  BY <1>1 DEF FieldsOf
<1> HIDE DEF e
<1> QED BY <1>1, <1>2, <1>3 DEF CodesCut, co, to

\* A code saved with the mark, then its tokens revoked, adds it to the codes cut.
LEMMA CodeDoes ==
    ASSUME NEW d, StoreOK(d), NEW S, NEW k \in DOMAIN d.codes, IsFiniteSet(Descend(d, {k})),
           NEW v, v = [d.codes[k] EXCEPT !.revoked = TRUE]
    PROVE  Does(CodesCut(d, S),
                Tx("SaveAuthorizationCode", k, v) \o DoEach("RevokeAccessToken", Descend(d, {k})),
                CodesCut(d, S \cup {k}))
<1> DEFINE e == CodesCut(d, S)
           g == [e EXCEPT !.codes = Put(e.codes, k, v)]
           T == Descend(d, {k})
           h == [g EXCEPT !.tokens = Revoke(g.tokens, T)]
           z == CodesCut(d, S \cup {k})
<1>0. FieldsOf(d) BY DEF StoreOK, FieldsOf
<1>1. /\ FieldsOf(e)
      /\ e.codes = Revoke(d.codes, S) /\ e.tokens = Revoke(d.tokens, Descend(d, S))
      /\ e.users = d.users /\ e.clients = d.clients /\ e.policy = d.policy
      /\ e.access = d.access /\ e.sessions = d.sessions /\ e.apps = d.apps
      /\ e.txns = d.txns /\ e.families = d.families /\ e.refresh = d.refresh
      /\ e.consents = d.consents /\ e.next = d.next
  BY <1>0, CodesCutFields
<1> DEFINE W == S \cup {k}
<1> HIDE DEF W
<1>2. LET y == CodesCut(d, W) IN
      /\ FieldsOf(y)
      /\ y.codes = Revoke(d.codes, W) /\ y.tokens = Revoke(d.tokens, Descend(d, W))
      /\ y.users = d.users /\ y.clients = d.clients /\ y.policy = d.policy
      /\ y.access = d.access /\ y.sessions = d.sessions /\ y.apps = d.apps
      /\ y.txns = d.txns /\ y.families = d.families /\ y.refresh = d.refresh
      /\ y.consents = d.consents /\ y.next = d.next
  BY <1>0, CodesCutFields
<1>3. /\ FieldsOf(z)
      /\ z.codes = Revoke(d.codes, W) /\ z.tokens = Revoke(d.tokens, Descend(d, W))
      /\ z.users = d.users /\ z.clients = d.clients /\ z.policy = d.policy
      /\ z.access = d.access /\ z.sessions = d.sessions /\ z.apps = d.apps
      /\ z.txns = d.txns /\ z.families = d.families /\ z.refresh = d.refresh
      /\ z.consents = d.consents /\ z.next = d.next
  BY <1>2 DEF W
<1>4. Put(Revoke(d.codes, S), k, v) = Revoke(d.codes, S \cup {k})
  <2> DEFINE m == d.codes
  <2>1. k \in DOMAIN m /\ v = [m[k] EXCEPT !.revoked = TRUE] OBVIOUS
  <2> HIDE DEF m
  <2>2. Put(Revoke(m, S), k, v) = Revoke(m, S \cup {k}) BY <2>1, PutMark
  <2> QED BY <2>2 DEF m
<1>5. Put(e.codes, k, v) = Revoke(d.codes, W)
  <2> HIDE DEF e
  <2> QED BY <1>1, <1>4 DEF W
<1>6. Does(e, Tx("SaveAuthorizationCode", k, v), g)
  <2> HIDE DEF e
  <2> QED BY SavesDo DEF Tx
<1> HIDE DEF e, T
<1>7. /\ FieldsOf(g)
      /\ g.codes = Revoke(d.codes, W) /\ g.tokens = e.tokens
      /\ g.users = e.users /\ g.clients = e.clients /\ g.policy = e.policy
      /\ g.access = e.access /\ g.sessions = e.sessions /\ g.apps = e.apps
      /\ g.txns = e.txns /\ g.families = e.families /\ g.refresh = e.refresh
      /\ g.consents = e.consents /\ g.next = e.next
  <2> DEFINE co == Put(e.codes, k, v)
  <2> HIDE DEF co
  <2>1. LET y == [e EXCEPT !.codes = co] IN
      /\ FieldsOf(y) /\ y.codes = co /\ y.tokens = e.tokens
      /\ y.users = e.users /\ y.clients = e.clients /\ y.policy = e.policy
      /\ y.access = e.access /\ y.sessions = e.sessions /\ y.apps = e.apps
      /\ y.txns = e.txns /\ y.families = e.families /\ y.refresh = e.refresh
      /\ y.consents = e.consents /\ y.next = e.next
    BY <1>1 DEF FieldsOf
  <2> QED BY <2>1, <1>5 DEF co
<1>8. g.tokens = [x \in DOMAIN g.tokens |-> g.tokens[x]]
  <2> HIDE DEF g
  <2>1. g.tokens = Revoke(d.tokens, Descend(d, S)) BY <1>1, <1>7
  <2> QED BY <2>1 DEF Revoke
<1>9. IsFiniteSet(T) BY DEF T
<1> HIDE DEF g
<1>10. Does(g, DoEach("RevokeAccessToken", T), h)
  BY <1>7, <1>8, <1>9, TokensDo
<1>11. Revoke(g.tokens, T) = Revoke(d.tokens, Descend(d, W))
  <2>1. Descend(d, S) \cup T = Descend(d, W) BY DEF T, W, Descend
  <2>2. Revoke(Revoke(d.tokens, Descend(d, S)), T) = Revoke(d.tokens, Descend(d, S) \cup T)
    BY RevokeUnion
  <2> QED BY <1>1, <1>7, <2>1, <2>2
<1>12. /\ FieldsOf(h)
      /\ h.codes = g.codes /\ h.tokens = Revoke(d.tokens, Descend(d, W))
      /\ h.users = g.users /\ h.clients = g.clients /\ h.policy = g.policy
      /\ h.access = g.access /\ h.sessions = g.sessions /\ h.apps = g.apps
      /\ h.txns = g.txns /\ h.families = g.families /\ h.refresh = g.refresh
      /\ h.consents = g.consents /\ h.next = g.next
  <2> DEFINE to == Revoke(g.tokens, T)
  <2> HIDE DEF to
  <2>1. LET y == [g EXCEPT !.tokens = to] IN
      /\ FieldsOf(y) /\ y.codes = g.codes /\ y.tokens = to
      /\ y.users = g.users /\ y.clients = g.clients /\ y.policy = g.policy
      /\ y.access = g.access /\ y.sessions = g.sessions /\ y.apps = g.apps
      /\ y.txns = g.txns /\ y.families = g.families /\ y.refresh = g.refresh
      /\ y.consents = g.consents /\ y.next = g.next
    BY <1>7 DEF FieldsOf
  <2> QED BY <2>1, <1>11 DEF to
<1> HIDE DEF h, z
<1>13. h = z BY <1>1, <1>3, <1>7, <1>12, SameFields
<1>14. Does(e, Tx("SaveAuthorizationCode", k, v) \o DoEach("RevokeAccessToken", T), h)
  BY <1>6, <1>10, DoesBoth
<1> QED BY <1>13, <1>14 DEF e, T, z

\* revokeCode on every code of K.
LEMMA RevokeCodesDo ==
    ASSUME NEW d, StoreOK(d), IsFiniteSet(DOMAIN d.codes), IsFiniteSet(DOMAIN d.tokens), NEW K,
           \A k \in ActiveCodes(d, K) : db'.codes[k] = [d.codes[k] EXCEPT !.revoked = TRUE]
    PROVE  Does(d, RevokeCodesScript(d, K), RevokeCodes(d, K))
<1> DEFINE A == ActiveCodes(d, K)
           s == [k \in A |-> RevokeCodeScript(d, k)]
           G == [S \in SUBSET A |-> CodesCut(d, S)]
<1>1. A \subseteq DOMAIN d.codes BY DEF ActiveCodes
<1>2. IsFiniteSet(A) BY <1>1, FS_Subset
<1> HIDE DEF A
<1>3. ASSUME NEW S \in SUBSET A, NEW k \in A
      PROVE  Does(G[S], s[k], G[S \cup {k}])
  <2> DEFINE v == db'.codes[k]
  <2>1. k \in DOMAIN d.codes /\ v = [d.codes[k] EXCEPT !.revoked = TRUE] BY <1>1 DEF A
  <2>2. Descend(d, {k}) \subseteq DOMAIN d.tokens BY DEF Descend
  <2>3. IsFiniteSet(Descend(d, {k})) BY <2>2, FS_Subset
  <2> HIDE DEF v
  <2>4. Does(CodesCut(d, S),
             Tx("SaveAuthorizationCode", k, v) \o DoEach("RevokeAccessToken", Descend(d, {k})),
             CodesCut(d, S \cup {k}))
    BY <2>1, <2>3, CodeDoes
  <2>5. {t \in DOMAIN d.tokens : d.tokens[t].code = k /\ now < d.tokens[t].exp} = Descend(d, {k})
    BY DEF Descend
  <2>6. s[k] = Tx("SaveAuthorizationCode", k, v) \o DoEach("RevokeAccessToken", Descend(d, {k}))
    BY <2>5 DEF RevokeCodeScript, v
  <2>7. G[S] = CodesCut(d, S) /\ G[S \cup {k}] = CodesCut(d, S \cup {k}) OBVIOUS
  <2> QED BY <2>4, <2>6, <2>7
<1> DEFINE q == SetToSeq(A)
<1>4. Does(G[{}], Joined([i \in 1..Len(q) |-> s[q[i]]]), G[A])
  <2> HIDE DEF s, G
  <2> QED BY <1>2, <1>3, DoesJoined
<1>5. q \in [1..Len(q) -> A] BY <1>2, Listed
<1>6. [i \in 1..Len(q) |-> s[q[i]]] = [i \in 1..Len(q) |-> RevokeCodeScript(d, q[i])]
  <2> HIDE DEF q
  <2> QED BY <1>5
<1>7. RevokeCodesScript(d, K) = Joined([i \in 1..Len(q) |-> s[q[i]]])
  BY <1>6 DEF RevokeCodesScript, A
<1>8. G[{}] = CodesCut(d, {}) /\ G[A] = CodesCut(d, A) OBVIOUS
<1>9. CodesCut(d, {}) = d
  <2> DEFINE e == CodesCut(d, {})
  <2>0. FieldsOf(d) BY DEF StoreOK, FieldsOf
  <2>1. /\ FieldsOf(e)
        /\ e.codes = Revoke(d.codes, {}) /\ e.tokens = Revoke(d.tokens, Descend(d, {}))
        /\ e.users = d.users /\ e.clients = d.clients /\ e.policy = d.policy
        /\ e.access = d.access /\ e.sessions = d.sessions /\ e.apps = d.apps
        /\ e.txns = d.txns /\ e.families = d.families /\ e.refresh = d.refresh
        /\ e.consents = d.consents /\ e.next = d.next
    BY <2>0, CodesCutFields
  <2>2. Descend(d, {}) = {} BY DEF Descend
  <2>3. d.codes = [x \in DOMAIN d.codes |-> d.codes[x]] /\ d.tokens = [x \in DOMAIN d.tokens |-> d.tokens[x]]
    BY DEF StoreOK, IsMap
  <2>4. e.codes = d.codes /\ e.tokens = d.tokens BY <2>1, <2>2, <2>3, RevokeUnion
  <2> HIDE DEF e
  <2>5. e = d BY <2>0, <2>1, <2>4, SameFields
  <2> QED BY <2>5 DEF e
<1>10. CodesCut(d, A) = RevokeCodes(d, K) BY DEF CodesCut, Descend, RevokeCodes, A
<1> HIDE DEF G, q, s
<1> QED BY <1>4, <1>7, <1>8, <1>9, <1>10

\* The script depends on the codes and the tokens alone.
LEMMA SameScript ==
    ASSUME NEW d, NEW e, e.codes = d.codes, e.tokens = d.tokens, NEW K
    PROVE  /\ ActiveCodes(e, K) = ActiveCodes(d, K)
           /\ RevokeCodesScript(e, K) = RevokeCodesScript(d, K)
<1>1. ActiveCodes(e, K) = ActiveCodes(d, K) BY DEF ActiveCodes
<1>2. \A k : RevokeCodeScript(e, k) = RevokeCodeScript(d, k) BY DEF RevokeCodeScript
<1> QED BY <1>1, <1>2 DEF RevokeCodesScript
=============================================================================
