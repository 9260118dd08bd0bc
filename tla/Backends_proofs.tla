-------------------------- MODULE Backends_proofs ---------------------------
(***************************************************************************)
(* For every choice of the constants: what PostgreSQL returns of the       *)
(* records is what the file store returns, after any number of requests,   *)
(* and it owes a notification for exactly the ends that are recorded.      *)
(*                                                                         *)
(* The inductive invariant is BInv: the provider's invariants (GInv,       *)
(* Tally), what the stores' methods rely on besides (Extra), and Shows(db, *)
(* pg).  A step runs the handler on the provider's records and its script  *)
(* on the tables; there is a lemma for each handler that the script does   *)
(* in PostgreSQL what the handler does to the records (Answered).  Every   *)
(* step is one of the provider (StepShows), so what is proved of it holds  *)
(* of the three stores together.                                           *)
(***************************************************************************)
EXTENDS Stores_proofs

(***************************************************************************)
(* Each handler's script does in PostgreSQL what the handler does.         *)
(***************************************************************************)
\* what the records say over and above the provider's invariants
Extra(d) == OneID(d) /\ Registered(d) /\ AppTokens(d)
Here == GInv /\ Tally(db) /\ Extra(db)

\* the last script does what the step did, and the records still say so
Answered == Does(db, tx', db') /\ Extra(db')

\* The file store's state is ready for every call.
LEMMA ReadyNow ==
    ASSUME Here
    PROVE  /\ Ready(db) /\ StoreOK(db) /\ Sound(db) /\ FieldsOf(db) /\ AllDrawn(db)
           /\ now \in Nat \ {0} /\ OneID(db) /\ OneApp(db)
<1>1. Sound(db) /\ now \in Nat \ {0} BY DEF Here, GInv, Inv
<1>2. Links(db) /\ AllDrawn(db) BY DEF Here, GInv, Kept
<1>3. AppsDrawn(db) BY <1>2 DEF AllDrawn, AppsDrawn
<1>4. OneID(db) /\ Registered(db) /\ AppTokens(db) BY DEF Here, Extra
<1>5. StoreOK(db) BY <1>1 DEF Sound
<1>6. FieldsOf(db) BY <1>5 DEF StoreOK, FieldsOf
<1>7. OneApp(db) BY DEF Here, Tally
<1> QED BY <1>1, <1>2, <1>3, <1>4, <1>5, <1>6, <1>7 DEF Ready

\* A ready state has what is extra.
LEMMA ReadyExtra == ASSUME NEW d, Ready(d) PROVE Extra(d)
BY DEF Ready, Extra

\* A script that does a ready state is an answer.
LEMMA AnsweredBy ==
    ASSUME NEW e, db' = e, Ready(e), NEW s, tx' = s, Does(db, s, e)
    PROVE  Answered
BY ReadyExtra DEF Answered

\* What is extra, when nothing was added.
LEMMA ExtraFades ==
    ASSUME Here, Withers(db, db'), Settles(db, db')
    PROVE  Extra(db')
BY ReadyNow, ReadyWithers, ReadyExtra

\* The session IDs in use are finitely many.
LEMMA FewIDs ==
    ASSUME Here, NEW K, \A id \in K : \E h \in DOMAIN db.sessions : id = db.sessions[h].id
    PROVE  IsFiniteSet(K)
<1>1. db.next["session"] \in Nat BY ReadyNow, Counters DEF Kinds
<1>2. \A h \in DOMAIN db.sessions : db.sessions[h] \in Session BY ReadyNow, Records
<1>3. \A h \in DOMAIN db.sessions : db.sessions[h].id \in Nat BY <1>2 DEF Session, Id
<1>4. \A h \in DOMAIN db.sessions : db.sessions[h].id < db.next["session"]
  BY DEF Here, Tally, IdsDrawn
<1>5. \A id \in K : id \in Nat /\ id < db.next["session"] BY <1>3, <1>4
<1> QED BY <1>1, <1>5, FewDrawn

\* One device signs out.
LEMMA LogoutAnswered ==
    ASSUME Here, NEW h, Logout(h), Calls(LogoutScript(h))
    PROVE  Answered
<1> DEFINE i == db.sessions[h].id
           e == EndSession(db, i, now)
<1>1. db' = e BY DEF Logout
<1>2. tx' = TxAt("EndSession", i, <<>>, now) BY DEF Calls, LogoutScript, Do, Tx
<1> HIDE DEF i
<1>3. Does(db, TxAt("EndSession", i, <<>>, now), e) BY ReadyNow, CutsDo
<1>4. Ready(e) BY ReadyNow, CutsReady DEF EndSession
<1> HIDE DEF e
<1> QED BY <1>1, <1>2, <1>3, <1>4, AnsweredBy

\* The sweep.
LEMMA SweepAnswered ==
    ASSUME Here, Sweep, Calls(Do("PruneLogoutState", 0))
    PROVE  Answered
<1> DEFINE e == PruneLogoutState(db, now)
<1>1. db' = e BY DEF Sweep
<1>2. tx' = TxAt("PruneLogoutState", 0, <<>>, now) BY DEF Calls, Do, Tx
<1>3. Does(db, TxAt("PruneLogoutState", 0, <<>>, now), e) BY ReadyNow, CutsDo
<1>4. Ready(e) BY ReadyNow, CutsReady
<1> HIDE DEF e
<1> QED BY <1>1, <1>2, <1>3, <1>4, AnsweredBy

\* An end leaves the families alone.
LEMMA EndsKeepFamilies ==
    ASSUME NEW d, StoreOK(d), NEW I, NEW t \in Nat \ {0}
    PROVE  EndSessions(d, I, t).families = d.families /\ EndAppSessions(d, I, t).families = d.families
<1>1. FieldsOf(d) BY DEF StoreOK, FieldsOf
<1>2. EndAppSessions(d, I, t).families = d.families
  <2>1. LET e == EndAppSessions(d, I, t) E == Ending(d, I) IN
           /\ FieldsOf(e)
           /\ e.users = d.users /\ e.clients = d.clients /\ e.policy = d.policy
           /\ e.access = d.access /\ e.sessions = d.sessions /\ e.families = d.families
           /\ e.refresh = d.refresh /\ e.consents = d.consents /\ e.next = d.next
           /\ e.apps = End(d.apps, E, t)
           /\ e.tokens = Revoke(d.tokens, {k \in DOMAIN d.tokens :
                           d.tokens[k].app \in E /\ d.tokens[k].family = 0})
           /\ e.codes = Revoke(d.codes, CutOf(d, E, d.codes))
           /\ e.txns = Revoke(d.txns, CutOf(d, E, d.txns))
    BY <1>1, AppEndFields
  <2> QED BY <2>1
<1>3. EndSessions(d, I, t).families = d.families BY EndFields, ZenonT(60)
<1> QED BY <1>2, <1>3

\* One device is signed out, with or without its refresh families.
LEMMA EndOPSessionAnswered ==
    ASSUME Here, NEW id, NEW offline \in BOOLEAN, EndOPSession(id, offline),
           Calls(EndOPSessionScript(id, offline))
    PROVE  Answered
<1> DEFINE e == EndSession(db, id, now)
           F == {f \in DOMAIN e.families : e.families[f].op = id}
           K == IF offline THEN {f \in DOMAIN db.families : db.families[f].op = id} ELSE {}
           g == RevokeFamilies(e, K)
<1>1. Does(db, Do("EndSession", id), e) BY ReadyNow, CutsDo DEF Do, Tx
<1>2. Ready(e) BY ReadyNow, CutsReady DEF EndSession
<1>3. StoreOK(e) BY <1>2, ReadyHas
<1>4. e.families = db.families BY ReadyNow, EndsKeepFamilies DEF EndSession
<1>5. db' = (IF offline THEN RevokeFamilies(e, F) ELSE e) BY DEF EndOPSession
<1>6. tx' = Do("EndSession", id) \o DoEach("RevokeRefreshFamily", K)
  BY DEF Calls, EndOPSessionScript
<1> HIDE DEF e
<1>7. K \subseteq DOMAIN e.families BY <1>4
<1>8. K \subseteq DOMAIN db.families OBVIOUS
<1>9. IsFiniteSet(K)
  <2> HIDE DEF K
  <2> QED BY <1>8, ReadyNow, Finitely
<1>10. db' = g
  <2>1. CASE offline
    <3>1. F = K BY <1>4, <2>1
    <3> QED BY <1>5, <2>1, <3>1
  <2>2. CASE ~offline
    <3>1. K = {} BY <2>2
    <3>2. RevokeFamilies(e, {}) = e BY <1>3, FamiliesUnion
    <3> QED BY <1>5, <2>2, <3>1, <3>2
  <2> QED BY <2>1, <2>2
<1> HIDE DEF K
<1>11. Does(e, DoEach("RevokeRefreshFamily", K), g) BY <1>2, <1>7, <1>9, ReadyNow, FamiliesDo
<1>12. Ready(g) BY <1>2, CutsReady
<1> HIDE DEF g
<1>13. Does(db, tx', g) BY <1>1, <1>6, <1>11, DoesBoth
<1> QED BY <1>10, <1>12, <1>13, AnsweredBy

\* One application is signed out, with or without its refresh families.
LEMMA EndAppSessionAnswered ==
    ASSUME Here, NEW a, NEW offline \in BOOLEAN, EndAppSession(a, offline),
           Calls(EndAppSessionScript(a, offline))
    PROVE  Answered
<1> DEFINE e == EndAppSessions(db, {a}, now)
           F == {f \in DOMAIN e.families : e.families[f].app = a}
           K == IF offline THEN {f \in DOMAIN db.families : db.families[f].app = a} ELSE {}
           g == RevokeFamilies(e, K)
<1>1. Does(db, Do("EndAppSession", a), e) BY ReadyNow, CutsDo DEF Do, Tx
<1>2. Ready(e) BY ReadyNow, CutsReady
<1>3. StoreOK(e) BY <1>2, ReadyHas
<1>4. e.families = db.families BY ReadyNow, EndsKeepFamilies
<1>5. db' = (IF offline THEN RevokeFamilies(e, F) ELSE e) BY DEF EndAppSession
<1>6. tx' = Do("EndAppSession", a) \o DoEach("RevokeRefreshFamily", K)
  BY DEF Calls, EndAppSessionScript
<1> HIDE DEF e
<1>7. K \subseteq DOMAIN e.families BY <1>4
<1>8. K \subseteq DOMAIN db.families OBVIOUS
<1>9. IsFiniteSet(K)
  <2> HIDE DEF K
  <2> QED BY <1>8, ReadyNow, Finitely
<1>10. db' = g
  <2>1. CASE offline
    <3>1. F = K BY <1>4, <2>1
    <3> QED BY <1>5, <2>1, <3>1
  <2>2. CASE ~offline
    <3>1. K = {} BY <2>2
    <3>2. RevokeFamilies(e, {}) = e BY <1>3, FamiliesUnion
    <3> QED BY <1>5, <2>2, <3>1, <3>2
  <2> QED BY <2>1, <2>2
<1> HIDE DEF K
<1>11. Does(e, DoEach("RevokeRefreshFamily", K), g) BY <1>2, <1>7, <1>9, ReadyNow, FamiliesDo
<1>12. Ready(g) BY <1>2, CutsReady
<1> HIDE DEF g
<1>13. Does(db, tx', g) BY <1>1, <1>6, <1>11, DoesBoth
<1> QED BY <1>10, <1>12, <1>13, AnsweredBy

\* A user's devices are signed out, all or all but one.
LEMMA EndUserSessionsAnswered ==
    ASSUME Here, NEW u, NEW keep, NEW offline \in BOOLEAN, EndUserSessions(u, keep, offline),
           Calls(EndUserSessionsScript(u, keep, offline))
    PROVE  Answered
<1> DEFINE K == SessionsOf(db, u) \ {keep}
           e == EndSessions(db, K, now)
           g == RevokeAccessTokensForUser(e, u)
<1>1. IsFiniteSet(K)
  <2>1. \A id \in K : \E h \in DOMAIN db.sessions : id = db.sessions[h].id BY DEF SessionsOf
  <2> HIDE DEF K
  <2> QED BY <2>1, ReadyNow, FewIDs
<1>2. db' = (IF offline THEN g ELSE e) BY DEF EndUserSessions
<1>3. tx' = DoEach("EndSession", K) \o (IF offline THEN Do("RevokeAccessTokensForUser", u) ELSE <<>>)
  BY DEF Calls, EndUserSessionsScript
<1> HIDE DEF K
<1>4. Does(db, DoEach("EndSession", K), e) BY <1>1, ReadyNow, SessionsDo
<1>5. Ready(e) BY ReadyNow, CutsReady
<1> HIDE DEF e
<1>6. Does(e, Do("RevokeAccessTokensForUser", u), g) BY <1>5, ReadyNow, CutsDo DEF Do, Tx
<1>7. Ready(g) BY <1>5, CutsReady
<1>8. Does(e, <<>>, e) BY DoesNothing
<1> HIDE DEF g
<1>9. CASE offline
  <2>1. Does(db, tx', g) BY <1>3, <1>4, <1>6, <1>9, DoesBoth
  <2> QED BY <1>2, <1>7, <1>9, <2>1, AnsweredBy
<1>10. CASE ~offline
  <2>1. Does(db, tx', e) BY <1>3, <1>4, <1>8, <1>10, DoesBoth
  <2> QED BY <1>2, <1>5, <1>10, <2>1, AnsweredBy
<1> QED BY <1>9, <1>10

(***************************************************************************)
(* A user's grants at one application, withdrawn.                          *)
(***************************************************************************)
Mine(m, u, c) == {x \in DOMAIN m : m[x].user = u /\ m[x].client = c}

\* Revoking and ending records leave them the same user's and client's.
LEMMA StillMine ==
    ASSUME NEW d, StoreOK(d), NEW u, NEW c, NEW S, NEW t
    PROVE  /\ Mine(Revoke(d.txns, S), u, c) = Mine(d.txns, u, c)
           /\ Mine(Revoke(d.codes, S), u, c) = Mine(d.codes, u, c)
           /\ Mine(Revoke(d.tokens, S), u, c) = Mine(d.tokens, u, c)
           /\ Mine(End(d.apps, S, t), u, c) = Mine(d.apps, u, c)
<1>1. /\ \A x \in DOMAIN d.txns : d.txns[x] \in AuthzTransaction
      /\ \A x \in DOMAIN d.codes : d.codes[x] \in AuthorizationCode
      /\ \A x \in DOMAIN d.tokens : d.tokens[x] \in AccessToken
      /\ \A x \in DOMAIN d.apps : d.apps[x] \in AppSession
  BY Records
<1>2. \A x \in DOMAIN d.txns : /\ Revoke(d.txns, S)[x].user = d.txns[x].user
                               /\ Revoke(d.txns, S)[x].client = d.txns[x].client
  BY <1>1, RevokedRecords DEF Revoke
<1>3. \A x \in DOMAIN d.codes : /\ Revoke(d.codes, S)[x].user = d.codes[x].user
                                /\ Revoke(d.codes, S)[x].client = d.codes[x].client
  BY <1>1, RevokedRecords DEF Revoke
<1>4. \A x \in DOMAIN d.tokens : /\ Revoke(d.tokens, S)[x].user = d.tokens[x].user
                                 /\ Revoke(d.tokens, S)[x].client = d.tokens[x].client
  BY <1>1, RevokedRecords DEF Revoke
<1>5. \A x \in DOMAIN d.apps : /\ End(d.apps, S, t)[x].user = d.apps[x].user
                               /\ End(d.apps, S, t)[x].client = d.apps[x].client
  <2>1. \A v \in AppSession : LET w == [v EXCEPT !.ended = t] IN w.user = v.user /\ w.client = v.client
    BY DEF AppSession
  <2> QED BY <1>1, <2>1 DEF End
<1>6. Mine(Revoke(d.txns, S), u, c) = Mine(d.txns, u, c)
  <2>1. DOMAIN Revoke(d.txns, S) = DOMAIN d.txns BY DEF Revoke
  <2> QED BY <1>2, <2>1 DEF Mine
<1>7. Mine(Revoke(d.codes, S), u, c) = Mine(d.codes, u, c)
  <2>1. DOMAIN Revoke(d.codes, S) = DOMAIN d.codes BY DEF Revoke
  <2> QED BY <1>3, <2>1 DEF Mine
<1>8. Mine(Revoke(d.tokens, S), u, c) = Mine(d.tokens, u, c)
  <2>1. DOMAIN Revoke(d.tokens, S) = DOMAIN d.tokens BY DEF Revoke
  <2> QED BY <1>4, <2>1 DEF Mine
<1>9. Mine(End(d.apps, S, t), u, c) = Mine(d.apps, u, c)
  <2>1. DOMAIN End(d.apps, S, t) = DOMAIN d.apps BY DEF End
  <2> QED BY <1>5, <2>1 DEF Mine
<1> QED BY <1>6, <1>7, <1>8, <1>9

\* What ending app sessions leaves in some fields.
LEMMA AppsOver ==
    ASSUME NEW d, FieldsOf(d), NEW A, NEW t
    PROVE  LET e == EndAppSessions(d, A, t) IN
           /\ FieldsOf(e) /\ e.consents = d.consents /\ e.families = d.families
           /\ \E E : e.apps = End(d.apps, E, t)
           /\ \E X : e.txns = Revoke(d.txns, X)
           /\ \E Y : e.codes = Revoke(d.codes, Y)
           /\ \E Z : e.tokens = Revoke(d.tokens, Z)
<1> DEFINE e == EndAppSessions(d, A, t)
           E == Ending(d, A)
           Z == {k \in DOMAIN d.tokens : d.tokens[k].app \in E /\ d.tokens[k].family = 0}
<1>1. /\ FieldsOf(e)
      /\ e.users = d.users /\ e.clients = d.clients /\ e.policy = d.policy
      /\ e.access = d.access /\ e.sessions = d.sessions /\ e.families = d.families
      /\ e.refresh = d.refresh /\ e.consents = d.consents /\ e.next = d.next
      /\ e.apps = End(d.apps, E, t)
      /\ e.tokens = Revoke(d.tokens, {k \in DOMAIN d.tokens :
                           d.tokens[k].app \in E /\ d.tokens[k].family = 0})
      /\ e.codes = Revoke(d.codes, CutOf(d, E, d.codes))
      /\ e.txns = Revoke(d.txns, CutOf(d, E, d.txns))
  BY AppEndFields
<1>2. e.tokens = Revoke(d.tokens, Z) BY <1>1
<1> HIDE DEF e, E, Z
<1> QED BY <1>1, <1>2 DEF e

\* What saving a revoked consent leaves in the fields a handler goes on to change.
LEMMA ConsentOver ==
    ASSUME NEW d, FieldsOf(d), NEW u, NEW c, NEW new, new.revoked, NEW t
    PROVE  LET e == SaveConsent(d, u, c, new, t) IN
           /\ FieldsOf(e) /\ e.consents = Put(d.consents, <<u, c>>, new)
           /\ \E E : e.apps = End(d.apps, E, t)
           /\ \E X : e.txns = Revoke(d.txns, X)
           /\ \E Y : e.codes = Revoke(d.codes, Y)
           /\ \E Z : e.tokens = Revoke(d.tokens, Z)
<1> DEFINE y == EndAppSessions(d, AppSessionsOf(d, u, c), t)
           F == {f \in DOMAIN y.families : y.families[f].user = u /\ y.families[f].client = c}
           z == RevokeFamilies(y, F)
           n == Put(z.consents, <<u, c>>, new)
           e == [z EXCEPT !.consents = n]
<1>1. SaveConsent(d, u, c, new, t) = e BY DEF SaveConsent
<1>2. /\ FieldsOf(y) /\ y.consents = d.consents /\ y.families = d.families
      /\ \E E : y.apps = End(d.apps, E, t)
      /\ \E X : y.txns = Revoke(d.txns, X)
      /\ \E Y : y.codes = Revoke(d.codes, Y)
      /\ \E Z : y.tokens = Revoke(d.tokens, Z)
  BY AppsOver
<1> HIDE DEF y, F
<1>3. /\ FieldsOf(z) /\ z.consents = y.consents /\ z.apps = y.apps
      /\ z.txns = y.txns /\ z.codes = y.codes
      /\ \E Z : z.tokens = Revoke(y.tokens, Z)
  <2> DEFINE fa == Revoke(y.families, F)
             Z  == {k \in DOMAIN y.tokens : y.tokens[k].family \in F \cap DOMAIN y.families}
             to == Revoke(y.tokens, Z)
             w  == [y EXCEPT !.families = fa]
             v  == [w EXCEPT !.tokens = to]
  <2>1. z = v BY DEF RevokeFamilies
  <2> HIDE DEF fa, to, z
  <2>2. /\ FieldsOf(w) /\ w.consents = y.consents /\ w.apps = y.apps
        /\ w.txns = y.txns /\ w.codes = y.codes /\ w.tokens = y.tokens
    BY <1>2 DEF FieldsOf
  <2> HIDE DEF w
  <2>3. /\ FieldsOf(v) /\ v.consents = w.consents /\ v.apps = w.apps
        /\ v.txns = w.txns /\ v.codes = w.codes /\ v.tokens = to
    BY <2>2 DEF FieldsOf
  <2>4. to = Revoke(y.tokens, Z) BY DEF to
  <2> HIDE DEF v, Z
  <2> QED BY <2>1, <2>2, <2>3, <2>4
<1> HIDE DEF z
<1>4. /\ FieldsOf(e) /\ e.consents = n /\ e.apps = z.apps
      /\ e.txns = z.txns /\ e.codes = z.codes /\ e.tokens = z.tokens
  <2> HIDE DEF n
  <2> QED BY <1>3 DEF FieldsOf
<1>5. n = Put(d.consents, <<u, c>>, new) BY <1>2, <1>3
<1>6. \E Z : z.tokens = Revoke(d.tokens, Z)
  <2>1. PICK Z : y.tokens = Revoke(d.tokens, Z) BY <1>2
  <2>2. PICK V : z.tokens = Revoke(y.tokens, V) BY <1>3
  <2>3. Revoke(Revoke(d.tokens, Z), V) = Revoke(d.tokens, Z \cup V) BY RevokeUnion
  <2> QED BY <2>1, <2>2, <2>3
<1> HIDE DEF e, n
<1> QED BY <1>1, <1>2, <1>3, <1>4, <1>5, <1>6

\* A user withdraws everything one application was given.
LEMMA EndClientAccessAnswered ==
    ASSUME Here, NEW u \in Users, NEW c \in Clients, EndClientAccess(u, c),
           Calls(EndClientAccessScript(u, c))
    PROVE  Answered
<1> DEFINE new == [db.consents[<<u, c>>] EXCEPT !.revoked = TRUE]
           d1 == SaveConsent(db, u, c, new, now)
           X  == Mine(d1.txns, u, c)
           K  == Mine(d1.codes, u, c)
           g  == [d1 EXCEPT !.txns = Revoke(d1.txns, X)]
           d2 == RevokeBoth(d1, X, K)
           A  == Mine(d2.apps, u, c)
           d3 == EndAppSessions(d2, A, now)
           T  == Mine(d3.tokens, u, c)
           e  == [d3 EXCEPT !.tokens = Revoke(d3.tokens, T)]
<1>1. db' = e BY DEF EndClientAccess, RevokeBoth, Mine
<1>2. new \in Consent /\ new.revoked
  <2>1. db.consents[<<u, c>>] \in Consent BY ReadyNow, Records DEF EndClientAccess
  <2> QED BY <2>1 DEF Consent
<1>3. tx' = Tx("SaveConsent", <<u, c>>, db'.consents[<<u, c>>]) \o
            Save("SaveAuthzTransaction", db'.txns, Mine(db.txns, u, c)) \o
            Save("SaveAuthorizationCode", db'.codes, Mine(db.codes, u, c)) \o
            DoEach("EndAppSession", Mine(db.apps, u, c)) \o
            DoEach("RevokeAccessToken", Mine(db.tokens, u, c))
  BY DEF Calls, EndClientAccessScript, Mine
<1> HIDE DEF new
<1>4. /\ FieldsOf(d1) /\ d1.consents = Put(db.consents, <<u, c>>, new)
      /\ \E E : d1.apps = End(db.apps, E, now)
      /\ \E Y : d1.txns = Revoke(db.txns, Y)
      /\ \E Y : d1.codes = Revoke(db.codes, Y)
      /\ \E Y : d1.tokens = Revoke(db.tokens, Y)
  BY <1>2, ReadyNow, ConsentOver
<1>5. Ready(d1) BY <1>2, ReadyNow, ChangesReady
<1>6. \A v : v = new => Does(db, Tx("SaveConsent", <<u, c>>, v), d1)
  BY ReadyNow, ChangesDo DEF Tx
<1> HIDE DEF d1
<1>7. StoreOK(d1) /\ Sound(d1) /\ Shape(d1) BY <1>5, ReadyHas
<1>8. /\ X = Mine(db.txns, u, c) /\ K = Mine(db.codes, u, c)
      /\ Mine(d1.apps, u, c) = Mine(db.apps, u, c)
      /\ Mine(d1.tokens, u, c) = Mine(db.tokens, u, c)
  BY <1>4, ReadyNow, StillMine
<1>9. X \subseteq DOMAIN d1.txns /\ K \subseteq DOMAIN d1.codes BY DEF Mine
<1>10. /\ Mine(db.txns, u, c) \subseteq DOMAIN db.txns /\ Mine(db.codes, u, c) \subseteq DOMAIN db.codes
       /\ Mine(db.apps, u, c) \subseteq DOMAIN db.apps /\ Mine(db.tokens, u, c) \subseteq DOMAIN db.tokens
  BY DEF Mine
<1>11. /\ IsFiniteSet(Mine(db.txns, u, c)) /\ IsFiniteSet(Mine(db.codes, u, c))
       /\ IsFiniteSet(Mine(db.apps, u, c)) /\ IsFiniteSet(Mine(db.tokens, u, c))
  BY <1>10, ReadyNow, Finitely
<1> HIDE DEF X, K
<1>12. /\ FieldsOf(d2) /\ d2.txns = Revoke(d1.txns, X) /\ d2.codes = Revoke(d1.codes, K)
       /\ d2.apps = d1.apps /\ d2.tokens = d1.tokens /\ d2.consents = d1.consents
       /\ d2 = [g EXCEPT !.codes = Revoke(g.codes, K)]
       /\ FieldsOf(g) /\ g.codes = d1.codes
  <2> DEFINE tt == Revoke(d1.txns, X)
             cc == Revoke(d1.codes, K)
             y  == [d1 EXCEPT !.txns = tt]
             z  == [y EXCEPT !.codes = cc]
  <2>1. d2 = [d1 EXCEPT !.txns = tt, !.codes = cc] BY DEF RevokeBoth
  <2>2. g = y OBVIOUS
  <2> HIDE DEF tt, cc, g, d2
  <2>3. z = [d1 EXCEPT !.txns = tt, !.codes = cc] OBVIOUS
  <2>4. /\ FieldsOf(y) /\ y.txns = tt /\ y.codes = d1.codes
        /\ y.apps = d1.apps /\ y.tokens = d1.tokens /\ y.consents = d1.consents
    BY <1>4 DEF FieldsOf
  <2> HIDE DEF y
  <2>5. /\ FieldsOf(z) /\ z.txns = y.txns /\ z.codes = cc
        /\ z.apps = y.apps /\ z.tokens = y.tokens /\ z.consents = y.consents
    BY <2>4 DEF FieldsOf
  <2>6. z = [g EXCEPT !.codes = Revoke(g.codes, K)] BY <2>2, <2>4 DEF cc
  <2> HIDE DEF z
  <2> QED BY <2>1, <2>2, <2>3, <2>4, <2>5, <2>6 DEF tt, cc
<1>13. Ready(d2)
  <2>1. Withers(d1, d2) BY <1>7, RevokeBothWithers
  <2>2. Settles(d1, d2) BY <1>7, OtherFields DEF RevokeBoth
  <2> HIDE DEF d2
  <2> QED BY <1>5, <2>1, <2>2, ReadyWithers
<1> HIDE DEF d2, g
<1>14. Ready(d3) BY <1>13, ReadyNow, CutsReady
<1>15. StoreOK(d2) /\ Sound(d2) BY <1>13, ReadyHas
<1>16. /\ FieldsOf(d3) /\ d3.consents = d2.consents /\ d3.families = d2.families
       /\ \E Y : d3.apps = End(d2.apps, Y, now)
       /\ \E Y : d3.txns = Revoke(d2.txns, Y)
       /\ \E Y : d3.codes = Revoke(d2.codes, Y)
       /\ \E Y : d3.tokens = Revoke(d2.tokens, Y)
  <2> HIDE DEF A
  <2>1. FieldsOf(d2) BY <1>12
  <2>2. LET z == EndAppSessions(d2, A, now) IN
           /\ FieldsOf(z) /\ z.consents = d2.consents /\ z.families = d2.families
           /\ \E E : z.apps = End(d2.apps, E, now)
           /\ \E Y : z.txns = Revoke(d2.txns, Y)
           /\ \E Y : z.codes = Revoke(d2.codes, Y)
           /\ \E Y : z.tokens = Revoke(d2.tokens, Y)
    <3> HIDE DEF d3
    <3> QED BY <2>1, AppsOver
  <2> QED BY <2>2
<1>17. A = Mine(db.apps, u, c) BY <1>8, <1>12
<1>18. Does(d2, DoEach("EndAppSession", A), d3)
  <2> HIDE DEF A
  <2> QED BY <1>11, <1>13, <1>17, ReadyNow, AppsDo
<1> HIDE DEF A, d3
<1>19. StoreOK(d3) BY <1>14, ReadyHas
<1>20. T = Mine(db.tokens, u, c)
  <2>1. PICK Y : d3.tokens = Revoke(d2.tokens, Y) BY <1>16
  <2>2. Mine(Revoke(d2.tokens, Y), u, c) = Mine(d2.tokens, u, c) BY <1>15, StillMine
  <2> QED BY <1>8, <1>12, <2>1, <2>2
<1> HIDE DEF T
<1>21. d3.tokens = [x \in DOMAIN d3.tokens |-> d3.tokens[x]] BY <1>19 DEF StoreOK, IsMap
<1>22. Does(d3, DoEach("RevokeAccessToken", T), e)
  BY <1>11, <1>16, <1>20, <1>21, TokensDo
<1>23. Ready(e) BY <1>14, CutsReady
<1>24. e.txns = d3.txns /\ e.codes = d3.codes /\ e.consents = d3.consents
  <2> DEFINE tt == Revoke(d3.tokens, T)
  <2> HIDE DEF tt
  <2>1. LET z == [d3 EXCEPT !.tokens = tt] IN z.txns = d3.txns /\ z.codes = d3.codes /\ z.consents = d3.consents
    BY <1>16 DEF FieldsOf
  <2> QED BY <2>1 DEF tt
<1> HIDE DEF e
<1>25. db'.consents[<<u, c>>] = new
  <2>1. db'.consents = Put(db.consents, <<u, c>>, new) BY <1>1, <1>4, <1>12, <1>16, <1>24
  <2> QED BY <2>1 DEF Put
<1>26. \A x \in X : db'.txns[x] = [d1.txns[x] EXCEPT !.revoked = TRUE]
  <2>1. PICK Y : d3.txns = Revoke(d2.txns, Y) BY <1>16
  <2>2. db'.txns = Revoke(Revoke(d1.txns, X), Y) BY <1>1, <1>12, <1>24, <2>1
  <2>3. db'.txns = Revoke(d1.txns, X \cup Y) BY <2>2, RevokeUnion
  <2> QED BY <1>9, <2>3 DEF Revoke
<1>27. \A x \in K : db'.codes[x] = [g.codes[x] EXCEPT !.revoked = TRUE]
  <2>1. PICK Y : d3.codes = Revoke(d2.codes, Y) BY <1>16
  <2>2. db'.codes = Revoke(Revoke(d1.codes, K), Y) BY <1>1, <1>12, <1>24, <2>1
  <2>3. db'.codes = Revoke(d1.codes, K \cup Y) BY <2>2, RevokeUnion
  <2> QED BY <1>9, <1>12, <2>3 DEF Revoke
<1>28. Does(d1, Save("SaveAuthzTransaction", db'.txns, X), g)
  <2>1. d1.txns = [x \in DOMAIN d1.txns |-> d1.txns[x]] BY <1>7 DEF StoreOK, IsMap
  <2>2. IsFiniteSet(X) BY <1>8, <1>11
  <2> DEFINE m == db'.txns
  <2>3. \A x \in X : m[x] = [d1.txns[x] EXCEPT !.revoked = TRUE] BY <1>26
  <2> HIDE DEF m
  <2>4. Does(d1, Save("SaveAuthzTransaction", m, X), [d1 EXCEPT !.txns = Revoke(d1.txns, X)])
    BY <1>4, <1>9, <2>1, <2>2, <2>3, TxnsDo
  <2> QED BY <2>4 DEF m, g
<1>29. Does(g, Save("SaveAuthorizationCode", db'.codes, K), d2)
  <2>1. g.codes = [x \in DOMAIN g.codes |-> g.codes[x]] BY <1>7, <1>12 DEF StoreOK, IsMap
  <2>2. IsFiniteSet(K) BY <1>8, <1>11
  <2> DEFINE m == db'.codes
  <2>3. \A x \in K : m[x] = [g.codes[x] EXCEPT !.revoked = TRUE] BY <1>27
  <2>4. K \subseteq DOMAIN g.codes BY <1>9, <1>12
  <2> HIDE DEF m
  <2>5. Does(g, Save("SaveAuthorizationCode", m, K), [g EXCEPT !.codes = Revoke(g.codes, K)])
    BY <1>12, <2>1, <2>2, <2>3, <2>4, CodesDo
  <2> QED BY <1>12, <2>5 DEF m
<1>30. Does(db, Tx("SaveConsent", <<u, c>>, db'.consents[<<u, c>>]), d1) BY <1>6, <1>25
<1> DEFINE s1 == Tx("SaveConsent", <<u, c>>, db'.consents[<<u, c>>])
           s2 == Save("SaveAuthzTransaction", db'.txns, X)
           s3 == Save("SaveAuthorizationCode", db'.codes, K)
           s4 == DoEach("EndAppSession", A)
           s5 == DoEach("RevokeAccessToken", T)
<1>31. tx' = s1 \o s2 \o s3 \o s4 \o s5 BY <1>3, <1>8, <1>17, <1>20
<1>32. Does(db, s1, d1) /\ Does(d1, s2, g) /\ Does(g, s3, d2) /\ Does(d2, s4, d3) /\ Does(d3, s5, e)
  BY <1>18, <1>22, <1>28, <1>29, <1>30
<1> HIDE DEF s1, s2, s3, s4, s5
<1>33. Does(db, s1 \o s2, g) BY <1>32, DoesBoth
<1>34. Does(db, s1 \o s2 \o s3, d2) BY <1>32, <1>33, DoesBoth
<1>35. Does(db, s1 \o s2 \o s3 \o s4, d3) BY <1>32, <1>34, DoesBoth
<1>36. Does(db, tx', e) BY <1>31, <1>32, <1>35, DoesBoth
<1> QED BY <1>1, <1>23, <1>36, AnsweredBy

(***************************************************************************)
(* Revocation, from /revoke, a replay or the activity page.                *)
(***************************************************************************)
\* A refresh family is revoked.
LEMMA FamilyAnswered ==
    ASSUME Here, NEW r, db.refresh[r].family \in DOMAIN db.families,
           db' = RevokeRefreshFamily(db, db.refresh[r].family), Calls(RevokeFamilyScript(r))
    PROVE  Answered
<1> DEFINE f == db.refresh[r].family
           e == RevokeRefreshFamily(db, f)
<1>1. tx' = TxAt("RevokeRefreshFamily", f, <<>>, now) BY DEF Calls, RevokeFamilyScript, Do, Tx
<1>2. f \in DOMAIN db.families /\ db' = e OBVIOUS
<1> HIDE DEF f
<1>3. Does(db, TxAt("RevokeRefreshFamily", f, <<>>, now), e) BY <1>2, ReadyNow, CutsDo
<1>4. Ready(e) BY ReadyNow, CutsReady
<1> HIDE DEF e
<1> QED BY <1>1, <1>2, <1>3, <1>4, AnsweredBy

\* An access token is revoked.
LEMMA TokenAnswered ==
    ASSUME Here, NEW k, db' = RevokeAccessToken(db, k), Calls(Do("RevokeAccessToken", k))
    PROVE  Answered
<1> DEFINE e == RevokeAccessToken(db, k)
<1>1. tx' = TxAt("RevokeAccessToken", k, <<>>, now) BY DEF Calls, Do, Tx
<1>2. db' = e OBVIOUS
<1>3. Does(db, TxAt("RevokeAccessToken", k, <<>>, now), e) BY ReadyNow, CutsDo
<1>4. Ready(e) BY ReadyNow, CutsReady
<1> HIDE DEF e
<1> QED BY <1>1, <1>2, <1>3, <1>4, AnsweredBy

\* What a replayed code gave is revoked.
LEMMA ReplayCodeAnswered ==
    ASSUME Here, NEW k, NEW c, NEW snap, ReplayCode(k, c, snap),
           Calls(Do("RevokeAccessTokensForCode", k))
    PROVE  Answered
<1> DEFINE e == RevokeAccessTokensForCode(db, k)
<1>1. tx' = TxAt("RevokeAccessTokensForCode", k, <<>>, now) BY DEF Calls, Do, Tx
<1>2. db' = e BY DEF ReplayCode
<1>3. Does(db, TxAt("RevokeAccessTokensForCode", k, <<>>, now), e) BY ReadyNow, CutsDo
<1>4. Ready(e) BY ReadyNow, CutsReady
<1> HIDE DEF e
<1> QED BY <1>1, <1>2, <1>3, <1>4, AnsweredBy

\* revokeCode leaves a ready state.
LEMMA RevokeCodesReady ==
    ASSUME NEW d, Ready(d), NEW K
    PROVE  Ready(RevokeCodes(d, K))
<1> DEFINE e == RevokeCodes(d, K)
<1>1. Withers(d, e) BY ReadyHas, RevokeCodesWithers
<1>2. Settles(d, e)
  <2>1. Shape(d) BY ReadyHas
  <2> QED BY <2>1, OtherFields DEF RevokeCodes
<1> HIDE DEF e
<1>3. Ready(e) BY <1>1, <1>2, ReadyWithers
<1> QED BY <1>3 DEF e

\* The codes and tokens that revokeCode leaves.
LEMMA RevokeCodesFields ==
    ASSUME NEW d, FieldsOf(d), NEW K
    PROVE  LET e == RevokeCodes(d, K) A == ActiveCodes(d, K) IN
           /\ FieldsOf(e) /\ e.codes = Revoke(d.codes, A) /\ e.txns = d.txns
           /\ e.consents = d.consents /\ e.tokens = Revoke(d.tokens, Descend(d, A))
<1> DEFINE A == ActiveCodes(d, K)
           e == CodesCut(d, A)
<1>1. RevokeCodes(d, K) = e BY DEF RevokeCodes, CodesCut, Descend
<1> HIDE DEF A
<1>2. /\ FieldsOf(e)
      /\ e.codes = Revoke(d.codes, A) /\ e.tokens = Revoke(d.tokens, Descend(d, A))
      /\ e.users = d.users /\ e.clients = d.clients /\ e.policy = d.policy
      /\ e.access = d.access /\ e.sessions = d.sessions /\ e.apps = d.apps
      /\ e.txns = d.txns /\ e.families = d.families /\ e.refresh = d.refresh
      /\ e.consents = d.consents /\ e.next = d.next
  BY CodesCutFields
<1> HIDE DEF e
<1> QED BY <1>1, <1>2 DEF A

\* A code on the activity page.
LEMMA RevokeActiveCodeAnswered ==
    ASSUME Here, NEW k, RevokeActiveCode(k), Calls(RevokeCodesScript(db, {k}))
    PROVE  Answered
<1> DEFINE K == {k}
           e == RevokeCodes(db, K)
<1>1. db' = e BY DEF RevokeActiveCode
<1>2. tx' = RevokeCodesScript(db, K) BY DEF Calls
<1> HIDE DEF K
<1>3. /\ FieldsOf(e) /\ e.codes = Revoke(db.codes, ActiveCodes(db, K)) /\ e.txns = db.txns
      /\ e.consents = db.consents /\ e.tokens = Revoke(db.tokens, Descend(db, ActiveCodes(db, K)))
  BY ReadyNow, RevokeCodesFields
<1>4. \A j \in ActiveCodes(db, K) : db'.codes[j] = [db.codes[j] EXCEPT !.revoked = TRUE]
  <2> HIDE DEF e
  <2>1. \A j \in ActiveCodes(db, K) : j \in DOMAIN db.codes BY DEF ActiveCodes
  <2> QED BY <1>1, <1>3, <2>1 DEF Revoke
<1>5. Does(db, RevokeCodesScript(db, K), e)
  <2>1. IsFiniteSet(DOMAIN db.codes) /\ IsFiniteSet(DOMAIN db.tokens) BY ReadyNow, Finitely
  <2> QED BY <1>4, <2>1, ReadyNow, RevokeCodesDo
<1>6. Ready(e) BY ReadyNow, RevokeCodesReady
<1> HIDE DEF e
<1> QED BY <1>1, <1>2, <1>5, <1>6, AnsweredBy

\* An authorization request on the activity page, and the code it led to.
LEMMA RevokeActiveTxnAnswered ==
    ASSUME Here, NEW x, RevokeActiveTxn(x),
           Calls(SaveTxnScript(x) \o
                 RevokeCodesScript(db, {k \in DOMAIN db.codes : db.codes[k].txn = x}))
    PROVE  Answered
<1> DEFINE K == {k \in DOMAIN db.codes : db.codes[k].txn = x}
           X == {x}
           m == Revoke(db.txns, X)
           d == [db EXCEPT !.txns = m]
           e == RevokeCodes(d, K)
           v == db'.txns[x]
<1>1. db' = e /\ x \in DOMAIN db.txns BY DEF RevokeActiveTxn
<1>2. tx' = Tx("SaveAuthzTransaction", x, v) \o RevokeCodesScript(db, K)
  BY DEF Calls, SaveTxnScript
<1> HIDE DEF K
<1>3. Ready(d)
  <2> HIDE DEF X
  <2> QED BY ReadyNow, CutsReady
<1>4. FieldsOf(d) /\ d.txns = m /\ d.codes = db.codes /\ d.tokens = db.tokens /\ d.next = db.next
      /\ d.sessions = db.sessions /\ d.apps = db.apps /\ d.families = db.families /\ d.refresh = db.refresh
  <2> HIDE DEF m
  <2> QED BY ReadyNow DEF FieldsOf
<1>5. m[x] = [db.txns[x] EXCEPT !.revoked = TRUE] /\ DOMAIN m = DOMAIN db.txns BY <1>1 DEF Revoke
<1>6. d = [db EXCEPT !.txns = Put(db.txns, x, m[x])]
  <2>1. db.txns = [y \in DOMAIN db.txns |-> db.txns[y]] BY ReadyNow DEF StoreOK, IsMap
  <2>2. Put(db.txns, x, m[x]) = m
    <3> DEFINE w == m[x] o == db.txns
    <3>1. x \in DOMAIN o /\ w = [o[x] EXCEPT !.revoked = TRUE] BY <1>1, <1>5
    <3>2. Revoke(o, {}) = o BY <2>1, RevokeUnion
    <3> HIDE DEF w, o
    <3>3. Put(Revoke(o, {}), x, w) = Revoke(o, {} \cup {x}) BY <3>1, PutMark
    <3>4. {} \cup {x} = X OBVIOUS
    <3> QED BY <3>2, <3>3, <3>4 DEF o, w
  <2> HIDE DEF m
  <2> QED BY <2>2
<1> HIDE DEF d
<1>7. /\ FieldsOf(e) /\ e.codes = Revoke(d.codes, ActiveCodes(d, K)) /\ e.txns = d.txns
      /\ e.consents = d.consents /\ e.tokens = Revoke(d.tokens, Descend(d, ActiveCodes(d, K)))
  BY <1>4, RevokeCodesFields
<1> HIDE DEF e
<1>8. v = m[x] BY <1>1, <1>4, <1>7
<1>9. StoreOK(d) BY <1>3, ReadyHas
<1>10. IsFiniteSet(DOMAIN d.codes) /\ IsFiniteSet(DOMAIN d.tokens) BY <1>4, ReadyNow, Finitely
<1>11. \A j \in ActiveCodes(d, K) : db'.codes[j] = [d.codes[j] EXCEPT !.revoked = TRUE]
  <2>1. \A j \in ActiveCodes(d, K) : j \in DOMAIN d.codes BY DEF ActiveCodes
  <2> QED BY <1>1, <1>7, <2>1 DEF Revoke
<1>12. Does(d, RevokeCodesScript(d, K), RevokeCodes(d, K)) BY <1>9, <1>10, <1>11, RevokeCodesDo
<1>13. RevokeCodesScript(d, K) = RevokeCodesScript(db, K) BY <1>4, SameScript
<1>14. Does(db, Tx("SaveAuthzTransaction", x, m[x]), d)
  <2> DEFINE w == m[x]
  <2> HIDE DEF w
  <2>1. Does(db, Tx("SaveAuthzTransaction", x, w), [db EXCEPT !.txns = Put(db.txns, x, w)])
    BY SavesDo DEF Tx
  <2> QED BY <1>6, <2>1 DEF w
<1>15. Does(d, RevokeCodesScript(db, K), e) BY <1>12, <1>13 DEF e
<1>16. Ready(e) BY <1>3, RevokeCodesReady DEF e
<1> HIDE DEF v, m
<1>17. Does(db, tx', e) BY <1>2, <1>8, <1>14, <1>15, DoesBoth
<1> QED BY <1>1, <1>16, <1>17, AnsweredBy

\* A consent on the activity page, with what can still be used of it.
LEMMA RevokeActiveConsentAnswered ==
    ASSUME Here, NEW u \in Users, NEW c \in Clients, RevokeActiveConsent(u, c),
           Calls(RevokeConsentScript(u, c))
    PROVE  Answered
<1> DEFINE new == [db.consents[<<u, c>>] EXCEPT !.revoked = TRUE]
           d1 == SaveConsent(db, u, c, new, now)
           X  == {x \in Mine(d1.txns, u, c) : ActiveTxn(d1, x)}
           K  == Mine(d1.codes, u, c)
           m  == Revoke(d1.txns, X)
           g  == [d1 EXCEPT !.txns = m]
           d2 == RevokeCodes(g, K)
           T  == {k \in Mine(d2.tokens, u, c) : now < d2.tokens[k].exp}
           T1 == {k \in Mine(d1.tokens, u, c) : now < d1.tokens[k].exp}
           e  == [d2 EXCEPT !.tokens = Revoke(d2.tokens, T)]
           n  == db'.consents[<<u, c>>]
<1>1. db' = e BY DEF RevokeActiveConsent, Mine
<1>2. new \in Consent /\ new.revoked
  <2>1. db.consents[<<u, c>>] \in Consent BY ReadyNow, Records DEF RevokeActiveConsent
  <2> QED BY <2>1 DEF Consent
<1> DEFINE d0 == SaveConsent(db, u, c, n, now)
<1>3. tx' = Tx("SaveConsent", <<u, c>>, n) \o
            Save("SaveAuthzTransaction", db'.txns, {x \in Mine(d0.txns, u, c) : ActiveTxn(d0, x)}) \o
            RevokeCodesScript(d0, Mine(d0.codes, u, c)) \o
            DoEach("RevokeAccessToken", {k \in Mine(d0.tokens, u, c) : now < d0.tokens[k].exp})
  BY DEF Calls, RevokeConsentScript, Mine
<1> HIDE DEF new
<1>4. /\ FieldsOf(d1) /\ d1.consents = Put(db.consents, <<u, c>>, new)
      /\ \E E : d1.apps = End(db.apps, E, now)
      /\ \E Y : d1.txns = Revoke(db.txns, Y)
      /\ \E Y : d1.codes = Revoke(db.codes, Y)
      /\ \E Y : d1.tokens = Revoke(db.tokens, Y)
  BY <1>2, ReadyNow, ConsentOver
<1>5. Ready(d1) BY <1>2, ReadyNow, ChangesReady
<1>6. Does(db, Tx("SaveConsent", <<u, c>>, new), d1) BY ReadyNow, ChangesDo DEF Tx
<1>7. n = new => d0 = d1 OBVIOUS
<1> HIDE DEF d1, d0
<1>8. StoreOK(d1) /\ Sound(d1) BY <1>5, ReadyHas
<1>9. X \subseteq DOMAIN d1.txns /\ T1 \subseteq DOMAIN d1.tokens BY DEF Mine
<1>10. DOMAIN d1.txns = DOMAIN db.txns /\ DOMAIN d1.tokens = DOMAIN db.tokens
  BY <1>4 DEF Revoke
<1> HIDE DEF X, T1
<1>11. IsFiniteSet(X) /\ IsFiniteSet(T1) BY <1>9, <1>10, ReadyNow, Finitely
<1>12. Ready(g) BY <1>5, CutsReady
<1>13. FieldsOf(g) /\ g.txns = m /\ g.codes = d1.codes /\ g.tokens = d1.tokens /\ g.consents = d1.consents
  <2> HIDE DEF m
  <2> QED BY <1>4 DEF FieldsOf
<1> HIDE DEF g
<1>14. Ready(d2) BY <1>12, RevokeCodesReady
<1>15. /\ FieldsOf(d2) /\ d2.codes = Revoke(g.codes, ActiveCodes(g, K)) /\ d2.txns = g.txns
       /\ d2.consents = g.consents /\ d2.tokens = Revoke(g.tokens, Descend(g, ActiveCodes(g, K)))
  BY <1>13, RevokeCodesFields
<1>16. d2 = RevokeCodes(g, K) OBVIOUS
<1> HIDE DEF d2
<1>17. T = T1
  <2>1. Mine(d2.tokens, u, c) = Mine(d1.tokens, u, c)
    <3>1. Mine(Revoke(d1.tokens, Descend(g, ActiveCodes(g, K))), u, c) = Mine(d1.tokens, u, c)
      BY <1>8, StillMine
    <3> QED BY <1>13, <1>15, <3>1
  <2>2. \A k \in DOMAIN d1.tokens : d2.tokens[k].exp = d1.tokens[k].exp
    <3>1. \A k \in DOMAIN d1.tokens : d1.tokens[k] \in AccessToken BY <1>8, Records
    <3>2. d2.tokens = Revoke(d1.tokens, Descend(g, ActiveCodes(g, K))) BY <1>13, <1>15
    <3> QED BY <3>1, <3>2, RevokedRecords DEF Revoke
  <2> QED BY <2>1, <2>2 DEF T1, Mine
<1> HIDE DEF T
<1>18. d2.tokens = [x \in DOMAIN d2.tokens |-> d2.tokens[x]] BY <1>15 DEF Revoke
<1>19. Does(d2, DoEach("RevokeAccessToken", T), e) BY <1>11, <1>15, <1>17, <1>18, TokensDo
<1>20. Ready(e) BY <1>14, CutsReady
<1>21. e.txns = d2.txns /\ e.codes = d2.codes /\ e.consents = d2.consents
  <2> DEFINE tt == Revoke(d2.tokens, T)
  <2> HIDE DEF tt
  <2>1. LET z == [d2 EXCEPT !.tokens = tt] IN z.txns = d2.txns /\ z.codes = d2.codes /\ z.consents = d2.consents
    BY <1>15 DEF FieldsOf
  <2> QED BY <2>1 DEF tt
<1> HIDE DEF e
<1>22. n = new
  <2>1. db'.consents = Put(db.consents, <<u, c>>, new) BY <1>1, <1>4, <1>13, <1>15, <1>21
  <2> QED BY <2>1 DEF Put
<1>23. \A x \in X : db'.txns[x] = [d1.txns[x] EXCEPT !.revoked = TRUE]
  <2>1. db'.txns = Revoke(d1.txns, X) BY <1>1, <1>13, <1>15, <1>21
  <2> QED BY <1>9, <2>1 DEF Revoke
<1>24. \A j \in ActiveCodes(g, K) : db'.codes[j] = [g.codes[j] EXCEPT !.revoked = TRUE]
  <2>1. \A j \in ActiveCodes(g, K) : j \in DOMAIN g.codes BY DEF ActiveCodes
  <2>2. db'.codes = Revoke(g.codes, ActiveCodes(g, K)) BY <1>1, <1>15, <1>21
  <2> QED BY <2>1, <2>2 DEF Revoke
<1>25. Does(d1, Save("SaveAuthzTransaction", db'.txns, X), g)
  <2>1. d1.txns = [x \in DOMAIN d1.txns |-> d1.txns[x]] BY <1>8 DEF StoreOK, IsMap
  <2> DEFINE f == db'.txns
  <2>3. \A x \in X : f[x] = [d1.txns[x] EXCEPT !.revoked = TRUE] BY <1>23
  <2> HIDE DEF f
  <2>4. Does(d1, Save("SaveAuthzTransaction", f, X), [d1 EXCEPT !.txns = Revoke(d1.txns, X)])
    BY <1>4, <1>9, <1>11, <2>1, <2>3, TxnsDo
  <2> QED BY <2>4 DEF f, g, m
<1>26. Does(g, RevokeCodesScript(g, K), d2)
  <2>1. StoreOK(g) BY <1>12, ReadyHas
  <2>2. DOMAIN g.codes = DOMAIN db.codes /\ DOMAIN g.tokens = DOMAIN db.tokens
    BY <1>4, <1>13 DEF Revoke
  <2>3. IsFiniteSet(DOMAIN g.codes) /\ IsFiniteSet(DOMAIN g.tokens) BY <2>2, ReadyNow, Finitely
  <2> QED BY <1>16, <1>24, <2>1, <2>3, RevokeCodesDo
<1>27. RevokeCodesScript(g, K) = RevokeCodesScript(d1, K) BY <1>13, SameScript
<1> DEFINE s1 == Tx("SaveConsent", <<u, c>>, n)
           s2 == Save("SaveAuthzTransaction", db'.txns, X)
           s3 == RevokeCodesScript(d1, K)
           s4 == DoEach("RevokeAccessToken", T)
<1>28. tx' = s1 \o s2 \o s3 \o s4
  <2> HIDE DEF n
  <2>1. d0 = d1 BY <1>7, <1>22
  <2> QED BY <1>3, <1>17, <2>1 DEF X, T1, K
<1>29. Does(db, s1, d1) /\ Does(d1, s2, g) /\ Does(g, s3, d2) /\ Does(d2, s4, e)
  BY <1>6, <1>19, <1>22, <1>25, <1>26, <1>27
<1> HIDE DEF s1, s2, s3, s4
<1>30. Does(db, s1 \o s2, g) BY <1>29, DoesBoth
<1>31. Does(db, s1 \o s2 \o s3, d2) BY <1>29, <1>30, DoesBoth
<1>32. Does(db, tx', e) BY <1>28, <1>29, <1>31, DoesBoth
<1> QED BY <1>1, <1>20, <1>32, AnsweredBy

(***************************************************************************)
(* Account, client, policy and access changes.                             *)
(***************************************************************************)
\* A saved account is the one given.
LEMMA UserSaved ==
    ASSUME NEW d, Ready(d), NEW u \in Users, NEW new \in User, NEW t \in Nat \ {0}
    PROVE  /\ SaveUser(d, u, new, t).users[u] = new
           /\ Ready(SaveUser(d, u, new, t))
           /\ Does(d, TxAt("SaveUser", u, new, t), SaveUser(d, u, new, t))
<1>1. SaveUser(d, u, new, t).users = Put(d.users, u, new) BY ReadyHas, SaveUserFades
<1>2. SaveUser(d, u, new, t).users[u] = new BY <1>1 DEF Put
<1> QED BY <1>2, ChangesReady, ChangesDo

\* An administrator edits an account.
LEMMA UpdateUserAnswered ==
    ASSUME Here, NEW u \in Users, NEW cred \in Nat, NEW active \in BOOLEAN, NEW role \in Roles,
           UpdateUser(u, cred, active, role), Calls(UpdateUserScript(u))
    PROVE  Answered
<1> DEFINE new == [cred |-> cred, active |-> active, role |-> role]
           d0 == DeleteUserSessions(db, u, now)
           d1 == IF new # db.users[u] THEN d0 ELSE db
           e == SaveUser(d1, u, new, now)
           v == db'.users[u]
           s == IF v # db.users[u] THEN Do("DeleteUserSessions", u) ELSE <<>>
<1>1. db' = e BY DEF UpdateUser
<1>2. tx' = s \o Tx("SaveUser", u, v) BY DEF Calls, UpdateUserScript
<1>3. new \in User BY DEF User
<1> HIDE DEF new
<1>4. Does(db, Do("DeleteUserSessions", u), d0) BY ReadyNow, CutsDo DEF Do, Tx
<1>5. Ready(d0) BY ReadyNow, CutsReady
<1>6. Does(db, <<>>, db) BY DoesNothing
<1> HIDE DEF d0
<1>7. Ready(d1) BY <1>5, ReadyNow
<1> HIDE DEF d1
<1>8. e.users[u] = new /\ Ready(e) /\ Does(d1, TxAt("SaveUser", u, new, now), e)
  BY <1>3, <1>7, ReadyNow, UserSaved
<1> HIDE DEF e
<1>9. v = new BY <1>1, <1>8
<1> HIDE DEF v
<1>10. Does(db, s, d1) BY <1>4, <1>6, <1>9 DEF d1
<1> HIDE DEF s
<1>11. Does(d1, Tx("SaveUser", u, v), e) BY <1>8, <1>9 DEF Tx
<1>12. Does(db, tx', e) BY <1>2, <1>10, <1>11, DoesBoth
<1> QED BY <1>1, <1>8, <1>12, AnsweredBy

\* A user changes the e-mail address or the password.
LEMMA CredentialsAnswered ==
    ASSUME Here, NEW h, NEW cred,
           \/ UpdateProfile(h) /\ Calls(ProfileScript(h))
           \/ /\ ChangePassword(h, cred)
              /\ Calls(ProfileScript(h) \o Do("DeleteUserSessions", db.sessions[h].user))
    PROVE  Answered
<1> DEFINE u == db.sessions[h].user
           new == NewCred(u)
           d1 == SaveUser(db, u, new, now)
           d2 == DeleteUserSessions(d1, u, now)
           v == db'.users[u]
<1>1. Principal(db, h) BY DEF UpdateProfile, ChangePassword
<1>2. u \in Users /\ db.users[u] \in User
  <2>1. h \in DOMAIN db.sessions /\ u \in DOMAIN db.users BY <1>1 DEF Principal, LiveSession, UserActive
  <2>2. IsMap(db.users, Users, User) BY ReadyNow DEF StoreOK
  <2> QED BY <2>1, <2>2 DEF IsMap
<1>3. new \in User BY <1>2 DEF NewCred, User
<1>4. ProfileScript(h) = Tx("SaveUser", u, v) BY DEF ProfileScript
<1>5. UpdateProfile(h) => db' = d1 BY DEF UpdateProfile
<1>6. ChangePassword(h, cred) => db' = d2 BY DEF ChangePassword
<1>7. ASSUME UpdateProfile(h), Calls(ProfileScript(h)) PROVE tx' = Tx("SaveUser", u, v)
  BY <1>4, <1>7 DEF Calls
<1>8. ASSUME ChangePassword(h, cred), Calls(ProfileScript(h) \o Do("DeleteUserSessions", u))
      PROVE  tx' = Tx("SaveUser", u, v) \o Do("DeleteUserSessions", u)
  BY <1>4, <1>8 DEF Calls
<1> HIDE DEF new
<1> HIDE DEF u
<1>9. d1.users[u] = new /\ Ready(d1) /\ Does(db, TxAt("SaveUser", u, new, now), d1)
  BY <1>2, <1>3, ReadyNow, UserSaved
<1> HIDE DEF d1
<1>10. Ready(d2) BY <1>9, ReadyNow, CutsReady
<1>11. Does(d1, Do("DeleteUserSessions", u), d2) BY <1>9, ReadyNow, CutsDo DEF Do, Tx
<1>12. d2.users = d1.users
  <2>1. Withers(d1, d2) BY <1>9, ReadyHas, ReadyNow, DeleteUserSessionsWithers
  <2> QED BY <2>1 DEF Withers, Steady
<1> HIDE DEF d2
<1>13. CASE UpdateProfile(h) /\ Calls(ProfileScript(h))
  <2>1. v = new BY <1>5, <1>9, <1>13
  <2> HIDE DEF v
  <2>2. Does(db, tx', d1) BY <1>7, <1>9, <1>13, <2>1 DEF Tx
  <2> QED BY <1>5, <1>9, <1>13, <2>2, AnsweredBy
<1>14. CASE ChangePassword(h, cred) /\ Calls(ProfileScript(h) \o Do("DeleteUserSessions", u))
  <2>1. v = new BY <1>6, <1>9, <1>12, <1>14
  <2> HIDE DEF v
  <2>2. Does(db, Tx("SaveUser", u, v), d1) BY <1>9, <2>1 DEF Tx
  <2>3. Does(db, tx', d2) BY <1>8, <1>11, <1>14, <2>2, DoesBoth
  <2> QED BY <1>6, <1>10, <1>14, <2>3, AnsweredBy
<1> QED BY <1>13, <1>14 DEF u

\* An account is removed.
LEMMA RemoveUserAnswered ==
    ASSUME Here, NEW u \in Users, RemoveUser(u), Calls(Do("DeleteUser", u))
    PROVE  Answered
<1> DEFINE e == DeleteUser(db, u, now)
<1>1. db' = e BY DEF RemoveUser
<1>2. tx' = TxAt("DeleteUser", u, <<>>, now) BY DEF Calls, Do, Tx
<1>3. Does(db, TxAt("DeleteUser", u, <<>>, now), e) BY ReadyNow, ChangesDo
<1>4. Ready(e) BY ReadyNow, ChangesReady
<1> HIDE DEF e
<1> QED BY <1>1, <1>2, <1>3, <1>4, AnsweredBy

\* An account is given, or loses, the password grant.
LEMMA SetOAuthAccessAnswered ==
    ASSUME Here, NEW u \in Users, NEW allowed \in BOOLEAN, SetOAuthAccess(u, allowed),
           Calls(Tx("SaveOAuthAccess", u, allowed))
    PROVE  Answered
<1> DEFINE e == SaveOAuthAccess(db, u, allowed, now)
<1>1. db' = e BY DEF SetOAuthAccess
<1>2. tx' = TxAt("SaveOAuthAccess", u, allowed, now) BY DEF Calls, Tx
<1>3. Does(db, TxAt("SaveOAuthAccess", u, allowed, now), e) BY ReadyNow, ChangesDo
<1>4. Ready(e) BY ReadyNow, ChangesReady
<1> HIDE DEF e
<1> QED BY <1>1, <1>2, <1>3, <1>4, AnsweredBy

\* A client is saved.
LEMMA UpdateClientAnswered ==
    ASSUME Here, NEW c \in Clients, UpdateClient(c), Calls(Do("SaveClient", c))
    PROVE  Answered
<1> DEFINE e == SaveClient(db, c, now)
<1>1. db' = e /\ c \in DOMAIN db.clients BY DEF UpdateClient
<1>2. tx' = TxAt("SaveClient", c, <<>>, now) BY DEF Calls, Do, Tx
<1>3. Does(db, TxAt("SaveClient", c, <<>>, now), e) BY <1>1, ReadyNow, ChangesDo
<1>4. Ready(e) BY <1>1, ReadyNow, ChangesReady
<1> HIDE DEF e
<1> QED BY <1>1, <1>2, <1>3, <1>4, AnsweredBy

\* A client is removed.
LEMMA RemoveClientAnswered ==
    ASSUME Here, NEW c \in Clients, RemoveClient(c), Calls(Do("DeleteClient", c))
    PROVE  Answered
<1> DEFINE e == DeleteClient(db, c, now)
<1>1. db' = e BY DEF RemoveClient
<1>2. tx' = TxAt("DeleteClient", c, <<>>, now) BY DEF Calls, Do, Tx
<1>3. Does(db, TxAt("DeleteClient", c, <<>>, now), e) BY ReadyNow, ChangesDo
<1>4. Ready(e) BY ReadyNow, ChangesReady
<1> HIDE DEF e
<1> QED BY <1>1, <1>2, <1>3, <1>4, AnsweredBy

\* A client's policy is set.
LEMMA SetOAuthPolicyAnswered ==
    ASSUME Here, NEW c \in Clients, NEW x \in SUBSET PolicyGrants, SetOAuthPolicy(c, x),
           Calls(Tx("SaveOAuthPolicy", c, x))
    PROVE  Answered
<1> DEFINE e == SaveOAuthPolicy(db, c, x, now)
<1>1. db' = e BY DEF SetOAuthPolicy
<1>2. tx' = TxAt("SaveOAuthPolicy", c, x, now) BY DEF Calls, Tx
<1>3. Does(db, TxAt("SaveOAuthPolicy", c, x, now), e) BY ReadyNow, ChangesDo
<1>4. Ready(e) BY ReadyNow, ChangesReady
<1> HIDE DEF e
<1> QED BY <1>1, <1>2, <1>3, <1>4, AnsweredBy

(***************************************************************************)
(* Sign-in and the authorization endpoint.                                 *)
(***************************************************************************)
\* A script that does what the step did is an answer, if the records say so.
LEMMA AnsweredAs ==
    ASSUME NEW e, db' = e, Extra(e), NEW s, tx' = s, Does(db, s, e)
    PROVE  Answered
BY DEF Answered

\* What is extra after records were added: the new app sessions and tokens have it.
LEMMA ExtraAdds ==
    ASSUME NEW d, Extra(d), NEW e, e.sessions = d.sessions, e.clients = d.clients,
           \A a \in DOMAIN e.apps :
               \/ a \in DOMAIN d.apps /\ e.apps[a] = d.apps[a]
               \/ e.apps[a].client \in DOMAIN d.clients /\ e.apps[a].op # 0,
           \A k \in DOMAIN e.tokens :
               \/ k \in DOMAIN d.tokens /\ e.tokens[k] = d.tokens[k]
               \/ e.tokens[k].app # 0 /\ e.tokens[k].family = 0 => e.tokens[k].op # 0
    PROVE  Extra(e)
<1>1. OneID(e) BY DEF Extra, OneID
<1>2. Registered(e) BY DEF Extra, Registered
<1>3. AppTokens(e) BY DEF Extra, AppTokens
<1> QED BY <1>1, <1>2, <1>3 DEF Extra

\* What pruning leaves of the grants it found, and what it leaves alone.
LEMMA PruneFields ==
    ASSUME NEW d, FieldsOf(d), NEW t
    PROVE  LET p == PruneOIDCState(d, t) IN
           /\ FieldsOf(p)
           /\ p.users = d.users /\ p.clients = d.clients /\ p.policy = d.policy
           /\ p.access = d.access /\ p.sessions = d.sessions /\ p.apps = d.apps
           /\ p.consents = d.consents /\ p.next = d.next
           /\ p.tokens = Drop(d.tokens, {k \in DOMAIN d.tokens : d.tokens[k].exp <= t})
           /\ p.codes = Drop(d.codes, {k \in DOMAIN d.codes :
                                d.codes[k].exp <= t /\ d.codes[k].retain <= t})
<1> DEFINE F == {f \in DOMAIN d.families : d.families[f].retain <= t}
           m1 == Drop(d.families, F)
           m2 == Drop(d.refresh, {r \in DOMAIN d.refresh : d.refresh[r].family \in F})
           m3 == Drop(d.txns, {x \in DOMAIN d.txns : d.txns[x].exp <= t})
           m4 == Drop(d.codes, {k \in DOMAIN d.codes : d.codes[k].exp <= t /\ d.codes[k].retain <= t})
           m5 == Drop(d.tokens, {k \in DOMAIN d.tokens : d.tokens[k].exp <= t})
           p == [d EXCEPT !.families = m1, !.refresh = m2, !.txns = m3, !.codes = m4, !.tokens = m5]
           y1 == [d EXCEPT !.families = m1]
           y2 == [y1 EXCEPT !.refresh = m2]
           y3 == [y2 EXCEPT !.txns = m3]
           y4 == [y3 EXCEPT !.codes = m4]
           y5 == [y4 EXCEPT !.tokens = m5]
           Same(y, z) == /\ y.users = z.users /\ y.clients = z.clients /\ y.policy = z.policy
                         /\ y.access = z.access /\ y.sessions = z.sessions /\ y.apps = z.apps
                         /\ y.consents = z.consents /\ y.next = z.next
<1>1. PruneOIDCState(d, t) = p BY DEF PruneOIDCState
<1>2. m4 = Drop(d.codes, {k \in DOMAIN d.codes : d.codes[k].exp <= t /\ d.codes[k].retain <= t})
      /\ m5 = Drop(d.tokens, {k \in DOMAIN d.tokens : d.tokens[k].exp <= t})
  OBVIOUS
<1> HIDE DEF m1, m2, m3, m4, m5
<1>3. p = y5
  <2>1. y2 = [d EXCEPT !.families = m1, !.refresh = m2] OBVIOUS
  <2>2. y3 = [d EXCEPT !.families = m1, !.refresh = m2, !.txns = m3] BY <2>1
  <2>3. y4 = [d EXCEPT !.families = m1, !.refresh = m2, !.txns = m3, !.codes = m4] BY <2>2
  <2> QED BY <2>3
<1>4. FieldsOf(y1) /\ Same(y1, d) BY DEF FieldsOf
<1> HIDE DEF y1
<1>5. FieldsOf(y2) /\ Same(y2, y1) BY <1>4 DEF FieldsOf
<1> HIDE DEF y2
<1>6. FieldsOf(y3) /\ Same(y3, y2) BY <1>5 DEF FieldsOf
<1> HIDE DEF y3
<1>7. FieldsOf(y4) /\ Same(y4, y3) /\ y4.codes = m4 BY <1>6 DEF FieldsOf
<1> HIDE DEF y4
<1>8. FieldsOf(y5) /\ Same(y5, y4) /\ y5.codes = m4 /\ y5.tokens = m5 BY <1>7 DEF FieldsOf
<1> HIDE DEF y5
<1> HIDE DEF p
<1> QED BY <1>1, <1>2, <1>3, <1>4, <1>5, <1>6, <1>7, <1>8

\* A new authorization request, code or token, and what it leaves alone.
LEMMA AddFields ==
    ASSUME NEW d, FieldsOf(d), NEW v
    PROVE  /\ LET e == AddTxn(d, v) i == d.next["txn"] IN
              /\ FieldsOf(e) /\ e.txns = Put(d.txns, i, v)
              /\ e.users = d.users /\ e.clients = d.clients
              /\ e.sessions = d.sessions /\ e.apps = d.apps /\ e.codes = d.codes
              /\ e.tokens = d.tokens /\ e.families = d.families /\ e.refresh = d.refresh
              /\ e.consents = d.consents
           /\ LET e == AddCode(d, v) i == d.next["code"] IN
              /\ FieldsOf(e) /\ e.codes = Put(d.codes, i, v)
              /\ e.users = d.users /\ e.clients = d.clients
              /\ e.sessions = d.sessions /\ e.apps = d.apps /\ e.txns = d.txns
              /\ e.tokens = d.tokens /\ e.families = d.families /\ e.refresh = d.refresh
              /\ e.consents = d.consents
           /\ LET e == AddToken(d, v) i == d.next["token"] IN
              /\ FieldsOf(e) /\ e.tokens = Put(d.tokens, i, v)
              /\ e.users = d.users /\ e.clients = d.clients
              /\ e.sessions = d.sessions /\ e.apps = d.apps /\ e.txns = d.txns
              /\ e.codes = d.codes /\ e.families = d.families /\ e.refresh = d.refresh
              /\ e.consents = d.consents
<1>1. ASSUME NEW kind
      PROVE  LET y == Draw(d, kind) IN
             /\ FieldsOf(y)
             /\ y.users = d.users /\ y.clients = d.clients
             /\ y.sessions = d.sessions /\ y.apps = d.apps /\ y.txns = d.txns
             /\ y.tokens = d.tokens /\ y.families = d.families /\ y.refresh = d.refresh
             /\ y.consents = d.consents /\ y.codes = d.codes
  <2> DEFINE n == [d.next EXCEPT ![kind] = d.next[kind] + 1]
             y == [d EXCEPT !.next = n]
  <2>1. Draw(d, kind) = y BY DEF Draw
  <2> HIDE DEF n
  <2>2. /\ FieldsOf(y)
        /\ y.users = d.users /\ y.clients = d.clients
        /\ y.sessions = d.sessions /\ y.apps = d.apps /\ y.txns = d.txns
        /\ y.tokens = d.tokens /\ y.families = d.families /\ y.refresh = d.refresh
        /\ y.consents = d.consents /\ y.codes = d.codes
    BY DEF FieldsOf
  <2> HIDE DEF y
  <2> QED BY <2>1, <2>2
<1>2. LET e == AddTxn(d, v) i == d.next["txn"] IN
              /\ FieldsOf(e) /\ e.txns = Put(d.txns, i, v)
              /\ e.users = d.users /\ e.clients = d.clients
              /\ e.sessions = d.sessions /\ e.apps = d.apps /\ e.codes = d.codes
              /\ e.tokens = d.tokens /\ e.families = d.families /\ e.refresh = d.refresh
              /\ e.consents = d.consents
  <2> DEFINE y == Draw(d, "txn")
             m == Put(d.txns, d.next["txn"], v)
             e == [y EXCEPT !.txns = m]
  <2>1. AddTxn(d, v) = e BY DEF AddTxn
  <2>2. m = Put(d.txns, d.next["txn"], v) OBVIOUS
  <2>3. /\ FieldsOf(y)
        /\ y.users = d.users /\ y.clients = d.clients
        /\ y.sessions = d.sessions /\ y.apps = d.apps /\ y.codes = d.codes
        /\ y.tokens = d.tokens /\ y.families = d.families /\ y.refresh = d.refresh
        /\ y.consents = d.consents
    BY <1>1
  <2> HIDE DEF m, y
  <2>4. /\ FieldsOf(e) /\ e.txns = m
        /\ e.users = y.users /\ e.clients = y.clients
        /\ e.sessions = y.sessions /\ e.apps = y.apps /\ e.codes = y.codes
        /\ e.tokens = y.tokens /\ e.families = y.families /\ e.refresh = y.refresh
        /\ e.consents = y.consents
    BY <2>3 DEF FieldsOf
  <2> HIDE DEF e
  <2> QED BY <2>1, <2>2, <2>3, <2>4
<1>3. LET e == AddCode(d, v) i == d.next["code"] IN
              /\ FieldsOf(e) /\ e.codes = Put(d.codes, i, v)
              /\ e.users = d.users /\ e.clients = d.clients
              /\ e.sessions = d.sessions /\ e.apps = d.apps /\ e.txns = d.txns
              /\ e.tokens = d.tokens /\ e.families = d.families /\ e.refresh = d.refresh
              /\ e.consents = d.consents
  <2> DEFINE y == Draw(d, "code")
             m == Put(d.codes, d.next["code"], v)
             e == [y EXCEPT !.codes = m]
  <2>1. AddCode(d, v) = e BY DEF AddCode
  <2>2. m = Put(d.codes, d.next["code"], v) OBVIOUS
  <2>3. /\ FieldsOf(y)
        /\ y.users = d.users /\ y.clients = d.clients
        /\ y.sessions = d.sessions /\ y.apps = d.apps /\ y.txns = d.txns
        /\ y.tokens = d.tokens /\ y.families = d.families /\ y.refresh = d.refresh
        /\ y.consents = d.consents
    BY <1>1
  <2> HIDE DEF m, y
  <2>4. /\ FieldsOf(e) /\ e.codes = m
        /\ e.users = y.users /\ e.clients = y.clients
        /\ e.sessions = y.sessions /\ e.apps = y.apps /\ e.txns = y.txns
        /\ e.tokens = y.tokens /\ e.families = y.families /\ e.refresh = y.refresh
        /\ e.consents = y.consents
    BY <2>3 DEF FieldsOf
  <2> HIDE DEF e
  <2> QED BY <2>1, <2>2, <2>3, <2>4
<1>4. LET e == AddToken(d, v) i == d.next["token"] IN
              /\ FieldsOf(e) /\ e.tokens = Put(d.tokens, i, v)
              /\ e.users = d.users /\ e.clients = d.clients
              /\ e.sessions = d.sessions /\ e.apps = d.apps /\ e.txns = d.txns
              /\ e.codes = d.codes /\ e.families = d.families /\ e.refresh = d.refresh
              /\ e.consents = d.consents
  <2> DEFINE y == Draw(d, "token")
             m == Put(d.tokens, d.next["token"], v)
             e == [y EXCEPT !.tokens = m]
  <2>1. AddToken(d, v) = e BY DEF AddToken
  <2>2. m = Put(d.tokens, d.next["token"], v) OBVIOUS
  <2>3. /\ FieldsOf(y)
        /\ y.users = d.users /\ y.clients = d.clients
        /\ y.sessions = d.sessions /\ y.apps = d.apps /\ y.txns = d.txns
        /\ y.codes = d.codes /\ y.families = d.families /\ y.refresh = d.refresh
        /\ y.consents = d.consents
    BY <1>1
  <2> HIDE DEF m, y
  <2>4. /\ FieldsOf(e) /\ e.tokens = m
        /\ e.users = y.users /\ e.clients = y.clients
        /\ e.sessions = y.sessions /\ e.apps = y.apps /\ e.txns = y.txns
        /\ e.codes = y.codes /\ e.families = y.families /\ e.refresh = y.refresh
        /\ e.consents = y.consents
    BY <2>3 DEF FieldsOf
  <2> HIDE DEF e
  <2> QED BY <2>1, <2>2, <2>3, <2>4
<1> QED BY <1>2, <1>3, <1>4

\* What was added is there.
LEMMA Added ==
    ASSUME NEW d, FieldsOf(d), NEW v
    PROVE  /\ AddTxn(d, v).txns[d.next["txn"]] = v
           /\ AddCode(d, v).codes[d.next["code"]] = v
           /\ AddToken(d, v).tokens[d.next["token"]] = v
<1>1. \A m, i : Put(m, i, v)[i] = v BY DEF Put
<1> QED BY <1>1, AddFields

\* The request is kept for the user to sign in.
LEMMA AuthorizeAnswered ==
    ASSUME Here, NEW c \in Clients, NEW rev, NEW s, NEW login, NEW scopes, NEW prompt,
           NEW maxAge, NEW at \in ReadTimes,
           Authorize(c, rev, s, login, scopes, prompt, maxAge, at), Calls(AuthorizeScript(at))
    PROVE  Answered
<1> DEFINE known == s # 0 /\ ~login /\ SessionFresh(db.sessions[s], maxAge, at)
           v  == [op |-> IF known THEN db.sessions[s].id ELSE 0, client |-> c,
                  user |-> IF known THEN db.sessions[s].user ELSE 0, rev |-> rev,
                  scopes |-> scopes, prompt |-> prompt, maxAge |-> maxAge,
                  reauth |-> IF known THEN 0 ELSE at, created |-> at,
                  exp |-> at + TransactionTTL, revoked |-> FALSE, consumed |-> FALSE]
           p == PruneOIDCState(db, at)
           e == AddTxn(p, v)
           i == db.next["txn"]
           w == db'.txns[i]
<1>1. at \in Nat BY ReadTimesAreTimes DEF Here, GInv
<1>2. db' = e BY DEF Authorize
<1>3. tx' = TxAt("PruneOIDCState", 0, <<>>, at) \o TxAt("SaveAuthzTransaction", i, w, now)
  BY DEF Calls, AuthorizeScript, SaveTxnScript, NewKey, Tx
<1> HIDE DEF v
<1>4. Does(db, TxAt("PruneOIDCState", 0, <<>>, at), p) BY <1>1, ReadyNow, PruneDoes
<1>5. /\ FieldsOf(p) /\ p.clients = db.clients /\ p.sessions = db.sessions /\ p.apps = db.apps
      /\ p.next = db.next
      /\ p.tokens = Drop(db.tokens, {k \in DOMAIN db.tokens : db.tokens[k].exp <= at})
  BY ReadyNow, PruneFields, ZenonT(60)
<1> HIDE DEF p
<1>6. /\ e.txns = Put(p.txns, p.next["txn"], v) /\ e.clients = p.clients
      /\ e.sessions = p.sessions /\ e.apps = p.apps /\ e.tokens = p.tokens
  BY <1>5, AddFields
<1>7. Does(p, TxAt("SaveAuthzTransaction", p.next["txn"], v, now), e) BY AddsDo
<1>8. e.txns[i] = v BY <1>5, Added
<1> HIDE DEF e
<1>9. Does(db, tx', e) BY <1>2, <1>3, <1>4, <1>5, <1>7, <1>8, DoesBoth
<1>10. Extra(e)
  <2>1. \A k \in DOMAIN p.tokens : k \in DOMAIN db.tokens /\ p.tokens[k] = db.tokens[k]
    BY <1>5 DEF Drop
  <2> QED BY <1>5, <1>6, <2>1, ExtraAdds DEF Here
<1> QED BY <1>2, <1>9, <1>10, AnsweredAs

\* mintCodeTx prunes and saves a new code.
LEMMA MintDoes ==
    ASSUME NEW d, StoreOK(d), now \in Nat, NEW v
    PROVE  LET e == AddCode(PruneOIDCState(d, now), v) i == d.next["code"] IN
           /\ Does(d, Do("PruneOIDCState", 0) \o Tx("SaveAuthorizationCode", i, v), e)
           /\ FieldsOf(e) /\ e.codes[i] = v
           /\ e.clients = d.clients /\ e.sessions = d.sessions /\ e.apps = d.apps
           /\ e.consents = d.consents
           /\ Extra(d) => Extra(e)
<1> DEFINE p == PruneOIDCState(d, now)
           e == AddCode(p, v)
           i == d.next["code"]
<1>1. FieldsOf(d) BY StoreFields
<1>2. Does(d, TxAt("PruneOIDCState", 0, <<>>, now), p) BY PruneDoes
<1>3. /\ FieldsOf(p) /\ p.clients = d.clients /\ p.sessions = d.sessions /\ p.apps = d.apps
      /\ p.next = d.next /\ p.consents = d.consents
      /\ p.tokens = Drop(d.tokens, {k \in DOMAIN d.tokens : d.tokens[k].exp <= now})
  BY <1>1, PruneFields, ZenonT(60)
<1> HIDE DEF p
<1>4. Does(p, TxAt("SaveAuthorizationCode", p.next["code"], v, now), e) BY AddsDo
<1>5. /\ FieldsOf(e) /\ e.clients = p.clients /\ e.sessions = p.sessions /\ e.apps = p.apps
      /\ e.tokens = p.tokens /\ e.consents = p.consents
  BY <1>3, AddFields
<1>6. e.codes[i] = v BY <1>3, Added
<1> HIDE DEF e
<1>7. Does(d, TxAt("PruneOIDCState", 0, <<>>, now) \o TxAt("SaveAuthorizationCode", i, v, now), e)
  BY <1>2, <1>3, <1>4, DoesBoth
<1>8. Does(d, Do("PruneOIDCState", 0) \o Tx("SaveAuthorizationCode", i, v), e)
  BY <1>7 DEF Do, Tx
<1>9. ASSUME Extra(d) PROVE Extra(e)
  <2>1. \A k \in DOMAIN p.tokens : k \in DOMAIN d.tokens /\ p.tokens[k] = d.tokens[k]
    BY <1>3 DEF Drop
  <2> QED BY <1>3, <1>5, <1>9, <2>1, ExtraAdds
<1> QED BY <1>3, <1>5, <1>6, <1>8, <1>9 DEF e, p

\* saveTransaction.
LEMMA TxnDoes ==
    ASSUME NEW d, FieldsOf(d), NEW x, NEW t
    PROVE  LET e == SaveTxn(d, x, t) IN
           /\ Does(d, Tx("SaveAuthzTransaction", x, t), e)
           /\ FieldsOf(e) /\ e.txns[x] = t
           /\ e.clients = d.clients /\ e.sessions = d.sessions /\ e.apps = d.apps
           /\ e.codes = d.codes /\ e.consents = d.consents
           /\ Extra(d) => Extra(e)
<1> DEFINE m == Put(d.txns, x, t)
           e == [d EXCEPT !.txns = m]
<1>1. e = SaveTxn(d, x, t) BY DEF SaveTxn
<1>2. Does(d, Tx("SaveAuthzTransaction", x, t), e) BY SavesDo DEF Tx
<1>3. m[x] = t BY DEF Put
<1> HIDE DEF m
<1>4. /\ FieldsOf(e) /\ e.txns = m
      /\ e.clients = d.clients /\ e.sessions = d.sessions /\ e.apps = d.apps
      /\ e.codes = d.codes /\ e.consents = d.consents /\ e.tokens = d.tokens
  BY DEF FieldsOf
<1> HIDE DEF e
<1>5. Extra(d) => Extra(e) BY <1>4, ExtraAdds
<1> QED BY <1>1, <1>2, <1>3, <1>4, <1>5

\* A request that is answered at once.
LEMMA AuthorizeSilentlyAnswered ==
    ASSUME Here, NEW c, NEW rev, NEW h, NEW scopes, NEW maxAge,
           AuthorizeSilently(c, rev, h, scopes, maxAge), Calls(MintCodeScript)
    PROVE  Answered
<1> DEFINE u == db.sessions[h].user
           v == NewCode(db, 0, u, c, h, scopes)
           e == AddCode(PruneOIDCState(db, now), v)
           i == db.next["code"]
<1>1. db' = e BY DEF AuthorizeSilently, MintCode, NewCode
<1>2. tx' = Do("PruneOIDCState", 0) \o Tx("SaveAuthorizationCode", i, db'.codes[i])
  BY DEF Calls, MintCodeScript, NewKey
<1> HIDE DEF v
<1>3. /\ Does(db, Do("PruneOIDCState", 0) \o Tx("SaveAuthorizationCode", i, v), e)
      /\ FieldsOf(e) /\ e.codes[i] = v
      /\ e.clients = db.clients /\ e.sessions = db.sessions /\ e.apps = db.apps
      /\ e.consents = db.consents
      /\ Extra(db) => Extra(e)
  BY ReadyNow, MintDoes
<1> HIDE DEF e
<1>4. Does(db, tx', e) BY <1>1, <1>2, <1>3
<1> QED BY <1>1, <1>3, <1>4, AnsweredAs DEF Here

\* The consent screen is shown, or the user refuses.
LEMMA ClaimAnswered ==
    ASSUME Here, NEW x, NEW h, AskConsent(x, h) \/ Deny(x, h), Calls(SaveTxnScript(x))
    PROVE  Answered
<1>1. PICK t : db' = SaveTxn(db, x, t) BY DEF AskConsent, Deny
<1>2. LET e == SaveTxn(db, x, t) IN
           /\ Does(db, Tx("SaveAuthzTransaction", x, t), e)
           /\ FieldsOf(e) /\ e.txns[x] = t
           /\ e.clients = db.clients /\ e.sessions = db.sessions /\ e.apps = db.apps
           /\ e.codes = db.codes /\ e.consents = db.consents
           /\ Extra(db) => Extra(e)
  BY ReadyNow, TxnDoes
<1>3. tx' = Tx("SaveAuthzTransaction", x, db'.txns[x]) BY DEF Calls, SaveTxnScript
<1>4. Does(db, tx', db') BY <1>1, <1>2, <1>3
<1> QED BY <1>1, <1>2, <1>4 DEF Answered, Here

\* A request is answered with a code, and with what was done before to d.
LEMMA AnswerDoes ==
    ASSUME Here, NEW d, StoreOK(d), Extra(d), d.next = db.next, NEW v, NEW x, NEW t,
           db' = SaveTxn(AddCode(PruneOIDCState(d, now), v), x, t)
    PROVE  /\ \E e : Does(d, MintCodeScript, e) /\ Does(e, SaveTxnScript(x), db')
           /\ Extra(db') /\ db'.consents = d.consents /\ db'.txns[x] = t
<1> DEFINE e == AddCode(PruneOIDCState(d, now), v)
           g == SaveTxn(e, x, t)
           i == d.next["code"]
<1>1. /\ Does(d, Do("PruneOIDCState", 0) \o Tx("SaveAuthorizationCode", i, v), e)
      /\ FieldsOf(e) /\ e.codes[i] = v
      /\ e.clients = d.clients /\ e.sessions = d.sessions /\ e.apps = d.apps
      /\ e.consents = d.consents
      /\ Extra(d) => Extra(e)
  BY ReadyNow, MintDoes
<1> HIDE DEF e
<1>2. /\ Does(e, Tx("SaveAuthzTransaction", x, t), g)
      /\ FieldsOf(g) /\ g.txns[x] = t
      /\ g.clients = e.clients /\ g.sessions = e.sessions /\ g.apps = e.apps
      /\ g.codes = e.codes /\ g.consents = e.consents
      /\ Extra(e) => Extra(g)
  BY <1>1, TxnDoes
<1>3. db' = g BY DEF e
<1> HIDE DEF g
<1>4. MintCodeScript = Do("PruneOIDCState", 0) \o Tx("SaveAuthorizationCode", i, v)
  <2>1. db'.codes[i] = v /\ db.next["code"] = i BY <1>1, <1>2, <1>3
  <2> QED BY <2>1 DEF MintCodeScript, NewKey
<1>5. SaveTxnScript(x) = Tx("SaveAuthzTransaction", x, t) BY <1>2, <1>3 DEF SaveTxnScript
<1> HIDE DEF i
<1>6. Does(d, MintCodeScript, e) /\ Does(e, SaveTxnScript(x), db') BY <1>1, <1>2, <1>3, <1>4, <1>5
<1> QED BY <1>1, <1>2, <1>3, <1>6

\* The request turns out to be consented to.
LEMMA CompleteAnswered ==
    ASSUME Here, NEW x, NEW h, CompleteCovered(x, h), Calls(MintCodeScript \o SaveTxnScript(x))
    PROVE  Answered
<1> DEFINE t == Claimed(db, x, h)
           v == NewCode(db, x, t.user, t.client, h, t.scopes)
           g == [t EXCEPT !.consumed = TRUE]
<1>1. db' = SaveTxn(AddCode(PruneOIDCState(db, now), v), x, g)
  BY DEF CompleteCovered, MintCode, NewCode
<1> HIDE DEF t, v, g
<1>2. Extra(db') /\ \E e : Does(db, MintCodeScript, e) /\ Does(e, SaveTxnScript(x), db')
  BY <1>1, ReadyNow, AnswerDoes DEF Here
<1>3. Does(db, MintCodeScript \o SaveTxnScript(x), db') BY <1>2, DoesBoth
<1> QED BY <1>2, <1>3 DEF Answered, Calls

\* The user approves.
LEMMA ApproveAnswered ==
    ASSUME Here, NEW x, NEW h, NEW approved \in SUBSET Scopes, Approve(x, h, approved),
           Calls(ApproveScript(x))
    PROVE  Answered
<1> DEFINE t   == Claimed(db, x, h)
           u   == t.user
           c   == t.client
           sc  == t.scopes \cap approved
           new == [scopes |-> sc, rev |-> t.rev, revoked |-> FALSE]
           d   == SaveConsent(db, u, c, new, now)
           v   == NewCode(d, x, u, c, h, sc)
           g   == [t EXCEPT !.consumed = TRUE]
           w   == <<u, c>>
<1>1. MayContinue(db, x, h) /\ db' = SaveTxn(AddCode(PruneOIDCState(d, now), v), x, g)
  BY DEF Approve, MintCode, NewCode
<1>2. t \in AuthzTransaction /\ u \in Users /\ c \in Clients /\ t.rev \in Nat
      /\ t.scopes \in SUBSET Scopes
  BY <1>1, ClaimedTxn DEF Here, GInv
<1>3. g.user = u /\ g.client = c BY <1>2 DEF AuthzTransaction
<1>4. new \in Consent /\ ~new.revoked BY <1>2 DEF Consent
<1> HIDE DEF v, g, new, sc, t
<1>5. Ready(d) BY <1>2, <1>4, ReadyNow, ChangesReady
<1>6. Does(db, TxAt("SaveConsent", w, new, now), d) BY <1>2, <1>4, ReadyNow, ChangesDo
<1>7. d.next = db.next /\ d.consents[w] = new
  <2>1. d = PutConsent(db, w, new) BY <1>4, SaveConsentSaves DEF PutConsent
  <2> DEFINE m == Put(db.consents, w, new)
  <2>2. m[w] = new BY DEF Put
  <2>3. d = [db EXCEPT !.consents = m] BY <2>1 DEF PutConsent
  <2> HIDE DEF m, d
  <2>4. d.next = db.next /\ d.consents = m BY <2>3, ReadyNow DEF FieldsOf
  <2> QED BY <2>2, <2>4
<1>8. StoreOK(d) /\ Extra(d) BY <1>5, ReadyHas, ReadyExtra
<1> HIDE DEF d
<1>9. /\ \E e : Does(d, MintCodeScript, e) /\ Does(e, SaveTxnScript(x), db')
      /\ Extra(db') /\ db'.consents = d.consents /\ db'.txns[x] = g
  BY <1>1, <1>7, <1>8, AnswerDoes
<1>10. tx' = Tx("SaveConsent", w, new) \o MintCodeScript \o SaveTxnScript(x)
  <2>1. <<db'.txns[x].user, db'.txns[x].client>> = w BY <1>3, <1>9
  <2>2. db'.consents[w] = new BY <1>7, <1>9
  <2> HIDE DEF w
  <2> QED BY <2>1, <2>2 DEF Calls, ApproveScript
<1>11. Does(db, Tx("SaveConsent", w, new), d) BY <1>6 DEF Tx
<1> HIDE DEF w
<1>12. Does(db, tx', db') BY <1>9, <1>10, <1>11, DoesBoth
<1> QED BY <1>9, <1>12 DEF Answered

(***************************************************************************)
(* Sign-in.                                                                *)
(***************************************************************************)
\* Three scripts, the last two of which act together.
LEMMA DoesThree ==
    ASSUME NEW d, NEW e, NEW g, NEW a, NEW b, NEW c, IsScript(b), IsScript(c),
           Does(d, a, e), Does(e, b \o c, g)
    PROVE  Does(d, (a \o b) \o c, g)
<1>1. IsScript(a) BY DEF Does
<1>2. IsScript(a \o b) /\ IsScript((a \o b) \o c) BY <1>1, TwoScripts
<1>3. ASSUME NEW p, Shows(d, p) PROVE Shows(g, PG!Run(p, (a \o b) \o c))
  <2> DEFINE q == PG!Run(p, a)
             r == PG!Run(q, b)
  <2>1. Shows(e, q) BY <1>3 DEF Does
  <2>2. PG!Run(p, a \o b) = r BY <1>1, RunTwo
  <2>3. PG!Run(p, (a \o b) \o c) = PG!Run(PG!Run(p, a \o b), c) BY <1>2, RunTwo
  <2> HIDE DEF q
  <2>4. Shows(g, PG!Run(q, b \o c)) BY <2>1 DEF Does
  <2>5. PG!Run(q, b \o c) = PG!Run(r, c) BY RunTwo
  <2> HIDE DEF r
  <2> QED BY <2>2, <2>3, <2>4, <2>5
<1> QED BY <1>2, <1>3 DEF Does

\* d with the sessions m, and e as y but for the keys drawn
WithSessions(d, m) == [d EXCEPT !.sessions = m]
SavedSession(d, m, v) == WithSessions(d, Put(m, d.next["session"], v))
DrawnFrom(y, e) == \E x : e = [y EXCEPT !.next = x]

\* A key drawn does not show in the tables.
LEMMA DrawnDoes ==
    ASSUME NEW d, NEW s, NEW y, Does(d, s, y), NEW e, DrawnFrom(y, e)
    PROVE  Does(d, s, e)
<1>1. PICK x : e = [y EXCEPT !.next = x] BY DEF DrawnFrom
<1>2. Does(d, s, [y EXCEPT !.next = x]) BY DrawDoes
<1> QED BY <1>1, <1>2

\* A session added to some of those there were.
LEMMA SignInIs ==
    ASSUME NEW d, FieldsOf(d), NEW m, NEW v
    PROVE  LET e == AddSession(WithSessions(d, m), v) IN
           /\ DrawnFrom(SavedSession(d, m, v), e)
           /\ e.sessions = Put(m, d.next["session"], v) /\ e.clients = d.clients /\ e.apps = d.apps
           /\ e.tokens = d.tokens
<1> DEFINE h == d.next["session"]
           n == [d.next EXCEPT !["session"] = h + 1]
           s == Put(m, h, v)
           g == [d EXCEPT !.sessions = m]
           y == [d EXCEPT !.sessions = s]
           z == [g EXCEPT !.next = n]
           e == [z EXCEPT !.sessions = s]
           x == [y EXCEPT !.next = n]
<1>1. g.next = d.next /\ g.sessions = m BY DEF FieldsOf
<1>2. AddSession(g, v) = e
  <2> DEFINE j == g.next["session"]
             k == [g.next EXCEPT !["session"] = j + 1]
  <2>1. AddSession(g, v) = [[g EXCEPT !.next = k] EXCEPT !.sessions = Put(g.sessions, j, v)]
    BY DEF AddSession, Draw
  <2>2. j = h /\ k = n BY <1>1
  <2>3. Put(g.sessions, j, v) = s BY <1>1, <2>2
  <2> HIDE DEF g, j, k, n, s
  <2> QED BY <2>1, <2>2, <2>3
<1>3. s = Put(m, h, v) OBVIOUS
<1> HIDE DEF s, n
<1>4. e = x BY DEF FieldsOf
<1>5. e.sessions = s /\ e.clients = d.clients /\ e.apps = d.apps /\ e.tokens = d.tokens
  BY DEF FieldsOf
<1> HIDE DEF e
<1>6. DrawnFrom(y, e) BY <1>4 DEF DrawnFrom
<1>7. g = WithSessions(d, m) /\ y = SavedSession(d, m, v)
  BY <1>3 DEF WithSessions, SavedSession
<1> HIDE DEF g, y, x
<1> QED BY <1>2, <1>3, <1>5, <1>6, <1>7

\* What is extra after a sign-in under an ID that no session kept has.
LEMMA SignInExtra ==
    ASSUME NEW d, FieldsOf(d), Extra(d), NEW m, NEW v, v.id # 0,
           \A x \in DOMAIN m : x \in DOMAIN d.sessions /\ m[x] = d.sessions[x] /\ m[x].id # v.id
    PROVE  Extra(AddSession(WithSessions(d, m), v))
<1> DEFINE h == d.next["session"]
           s == Put(m, h, v)
           e == AddSession(WithSessions(d, m), v)
<1>1. /\ e.sessions = s /\ e.clients = d.clients /\ e.apps = d.apps
      /\ e.tokens = d.tokens
  BY SignInIs
<1>2. s[h] = v /\ \A x \in DOMAIN s : x # h => x \in DOMAIN m /\ s[x] = m[x]
  BY DEF Put
<1>3. OneID(d) /\ Registered(d) /\ AppTokens(d) BY DEF Extra
<1> HIDE DEF s, e, h
<1>4. \A x \in DOMAIN s : s[x].id # 0 BY <1>2, <1>3 DEF OneID
<1>5. \A x, y \in DOMAIN s : s[x].id = s[y].id => x = y
  <2> SUFFICES ASSUME NEW x \in DOMAIN s, NEW y \in DOMAIN s, s[x].id = s[y].id PROVE x = y
    OBVIOUS
  <2>1. CASE x = h /\ y = h BY <2>1
  <2>2. CASE x = h /\ y # h BY <1>2, <2>2
  <2>3. CASE x # h /\ y = h BY <1>2, <2>3
  <2>4. CASE x # h /\ y # h BY <1>2, <1>3, <2>4 DEF OneID
  <2> QED BY <2>1, <2>2, <2>3, <2>4
<1>6. OneID(e) BY <1>1, <1>4, <1>5 DEF OneID
<1>7. Registered(e) /\ AppTokens(e) BY <1>1, <1>3 DEF Registered, AppTokens
<1> QED BY <1>6, <1>7 DEF Extra, e

\* A user signs in.
LEMMA LoginAnswered ==
    ASSUME Here, NEW u \in Users, NEW cred \in Nat, NEW old, NEW at \in ReadTimes,
           Login(u, cred, old, at), Calls(LoginScript(u, old, at))
    PROVE  Answered
<1> DEFINE d1   == PruneLogoutState(db, now)
           h    == db.next["session"]
           o    == d1.sessions[old].id
           live == LiveSession(d1, old)
           same == live /\ d1.sessions[old].user = u /\ at < d1.sessions[old].exp
           id   == IF same THEN o ELSE h
           v    == [id |-> id, user |-> u, auth |-> at, exp |-> at + SessionTTL,
                    ended |-> 0, cred |-> cred]
           m    == Drop(d1.sessions, {old})
           dr   == WithSessions(d1, m)
           en   == EndSession(d1, o, at)
           w    == db'.sessions[h]
           given == IF ~live THEN <<>>
                    ELSE IF w.id = o THEN Do("RemoveSessionCredential", old)
                    ELSE TxAt("EndSession", o, <<>>, at)
           first == Do("PruneLogoutState", 0)
           last == Tx("SaveSession", h, w)
<1>1. Ready(d1) /\ Does(db, first, d1) BY ReadyNow, CutsReady, CutsDo DEF Do, Tx
<1>2. Settles(db, d1) BY PruningSettles, StartShape DEF Here, GInv, Inv
<1>3. d1.next["session"] = h BY <1>2 DEF Settles
<1>4. db' = IF same THEN AddSession(dr, v) ELSE IF live THEN AddSession(en, v)
            ELSE AddSession(d1, v)
  BY <1>3 DEF Login, WithSessions
<1>5. tx' = (first \o given) \o last BY DEF Calls, LoginScript, NewKey
<1>6. at \in Nat \ {0} BY ReadTimesAreTimes DEF Here, GInv
<1>7. StoreOK(d1) /\ FieldsOf(d1) /\ OneID(d1) /\ Extra(d1) /\ KeysDrawn(d1) /\ Shape(d1)
  <2>1. StoreOK(d1) /\ OneID(d1) /\ Extra(d1) /\ Sound(d1) /\ Shape(d1)
    BY <1>1, ReadyHas, ReadyExtra
  <2> HIDE DEF d1
  <2> QED BY <2>1, StoreFields DEF Sound
<1>8. Tally(d1) BY <1>2, SettlesTally DEF Here
<1> HIDE DEF d1
<1>9. v.ended = 0 /\ v.id = id /\ h # 0
  <2>1. h \in Nat \ {0} BY ReadyNow DEF StoreOK, Kinds
  <2> HIDE DEF id, h
  <2> QED BY <2>1
<1> HIDE DEF v
<1>10. \A x \in DOMAIN d1.sessions : d1.sessions[x].id # h /\ x # h
  <2>1. \A x \in DOMAIN d1.sessions : d1.sessions[x].id < h /\ x < h
    BY <1>3, <1>7, <1>8 DEF Tally, IdsDrawn, KeysDrawn
  <2>2. h \in Nat BY ReadyNow DEF StoreOK, Kinds
  <2>3. \A x \in DOMAIN d1.sessions : d1.sessions[x].id \in Nat /\ x \in Nat
    BY <1>7, Records DEF Session, Id
  <2> QED BY <2>1, <2>2, <2>3
<1>11. live => old \in DOMAIN d1.sessions /\ d1.sessions[old].ended = 0 /\ o # 0
  BY <1>7 DEF LiveSession, OneID
<1>12. IsScript(given) /\ IsScript(last)
  BY OneCall, NoCall DEF Do, Tx, TxAt
<1>13. CASE same
  <2>1. id = o BY <1>13
  <2> HIDE DEF id, same
  <2> DEFINE e == AddSession(dr, v)
             s == Put(m, h, v)
             y == SavedSession(d1, m, v)
  <2>2. DrawnFrom(y, e) /\ e.sessions = Put(m, d1.next["session"], v)
    <3> HIDE DEF m
    <3> QED BY <1>7, SignInIs
  <2>3. e.sessions = s BY <1>3, <2>2
  <2>4. s[h] = v BY DEF Put
  <2>5. w = v BY <1>4, <1>13, <2>3, <2>4 DEF same
  <2>6. given = TxAt("RemoveSessionCredential", old, <<>>, now) /\ last = TxAt("SaveSession", h, v, now)
    BY <1>9, <1>13, <2>1, <2>5 DEF same, Do, Tx
  <2>7. Does(d1, TxAt("RemoveSessionCredential", old, <<>>, now) \o TxAt("SaveSession", h, v, now), y)
    <3>1. old \in DOMAIN d1.sessions /\ d1.sessions[old].ended = 0 /\ d1.sessions[old].id = v.id
      BY <1>9, <1>11, <1>13, <2>1 DEF same
    <3>2. h \notin DOMAIN d1.sessions BY <1>10
    <3>3. y = [d1 EXCEPT !.sessions = Put(Drop(d1.sessions, {old}), h, v)]
      BY <1>3 DEF SavedSession, WithSessions
    <3> HIDE DEF h, live, o, y
    <3>4. Does(d1, TxAt("RemoveSessionCredential", old, <<>>, now) \o TxAt("SaveSession", h, v, now),
               [d1 EXCEPT !.sessions = Put(Drop(d1.sessions, {old}), h, v)])
      BY <1>7, <1>9, <3>1, <3>2, SignInsDo
    <3> QED BY <3>3, <3>4
  <2>8. Extra(e)
    <3>1. \A x \in DOMAIN m : x \in DOMAIN d1.sessions /\ m[x] = d1.sessions[x] /\ x # old
      BY DEF Drop
    <3>2. \A x \in DOMAIN m : m[x].id # v.id BY <1>7, <1>9, <1>11, <1>13, <2>1, <3>1 DEF OneID, same
    <3>3. v.id # 0 BY <1>9, <1>11, <1>13, <2>1 DEF same
    <3> HIDE DEF m
    <3> QED BY <1>7, <3>1, <3>2, <3>3, SignInExtra
  <2>9. db' = e BY <1>4, <1>13 DEF same
  <2> HIDE DEF e, y, given, last, first, w
  <2>10. Does(d1, given \o last, e) BY <2>2, <2>6, <2>7, DrawnDoes
  <2>11. Does(db, (first \o given) \o last, e) BY <1>1, <1>12, <2>10, DoesThree
  <2> QED BY <1>5, <2>8, <2>9, <2>11, AnsweredAs
<1>14. CASE ~same
  <2> DEFINE d2 == IF live THEN en ELSE d1
             e == AddSession(d2, v)
             s == Put(d2.sessions, h, v)
             y == SavedSession(d2, d2.sessions, v)
  <2>1. id = h BY <1>14
  <2>2. db' = e BY <1>4, <1>14
  <2>3. Ready(d2) BY <1>1, <1>6, CutsReady DEF EndSession, d1
  <2>4. Settles(d1, d2)
    <3>1. Settles(d1, en) BY <1>6, <1>7, EndSessionsSettles DEF EndSession
    <3> QED BY <1>7, <3>1, SettlesSelf
  <2>5. Does(d1, TxAt("EndSession", o, <<>>, at), en)
    <3>1. Ready(d1) BY <1>1 DEF d1
    <3> QED BY <1>6, <3>1, CutsDo
  <2>6. Does(d1, <<>>, d1) BY DoesNothing
  <2> HIDE DEF id, same, en
  <2>7. Does(d1, IF live THEN TxAt("EndSession", o, <<>>, at) ELSE <<>>, d2) BY <2>5, <2>6
  <2>8. d2.next["session"] = h /\ \A x \in DOMAIN d2.sessions :
            x \in DOMAIN d1.sessions /\ d2.sessions[x].id = d1.sessions[x].id
    BY <1>3, <2>4 DEF Settles, OnlyEnds
  <2> HIDE DEF d2
  <2>9. StoreOK(d2) /\ OneID(d2) /\ Extra(d2) /\ FieldsOf(d2) BY <2>3, ReadyHas, ReadyExtra, StoreFields
  <2>10. d2 = WithSessions(d2, d2.sessions) BY <2>9 DEF FieldsOf, WithSessions
  <2>11. DrawnFrom(y, e) /\ e.sessions = Put(d2.sessions, d2.next["session"], v)
    <3> DEFINE f == d2.sessions
    <3>1. y = SavedSession(d2, f, v) /\ e = AddSession(WithSessions(d2, f), v) BY <2>10
    <3>2. Put(f, d2.next["session"], v) = Put(d2.sessions, d2.next["session"], v) OBVIOUS
    <3> HIDE DEF f, y, e
    <3> QED BY <2>9, <3>1, <3>2, SignInIs
  <2>12. e.sessions = s BY <2>8, <2>11
  <2>13. s[h] = v BY DEF Put
  <2>14. w = v BY <2>2, <2>12, <2>13
  <2>15. given = (IF live THEN TxAt("EndSession", o, <<>>, at) ELSE <<>>)
         /\ last = TxAt("SaveSession", h, v, now)
    <3>1. live => v.id # o BY <1>9, <1>10, <1>11, <2>1
    <3> QED BY <2>14, <3>1 DEF Tx
  <2>16. \A x \in DOMAIN d2.sessions : d2.sessions[x].id # v.id /\ x # h
    BY <1>9, <1>10, <2>1, <2>8
  <2>17. Does(d2, TxAt("SaveSession", h, v, now), y)
    <3>1. y = [d2 EXCEPT !.sessions = Put(d2.sessions, h, v)]
      BY <2>8 DEF SavedSession, WithSessions
    <3> HIDE DEF h, y
    <3>2. Does(d2, TxAt("SaveSession", h, v, now), [d2 EXCEPT !.sessions = Put(d2.sessions, h, v)])
      BY <1>9, <2>9, <2>16, SignInsDo
    <3> QED BY <3>1, <3>2
  <2>18. Extra(e)
    <3>1. v.id # 0 BY <1>9, <2>1
    <3> DEFINE f == d2.sessions
    <3>2. \A x \in DOMAIN f : x \in DOMAIN d2.sessions /\ f[x] = d2.sessions[x] /\ f[x].id # v.id
      BY <2>16
    <3>3. e = AddSession(WithSessions(d2, f), v) BY <2>10
    <3> HIDE DEF f, e
    <3>4. Extra(AddSession(WithSessions(d2, f), v)) BY <2>9, <3>1, <3>2, SignInExtra
    <3> QED BY <3>3, <3>4
  <2> HIDE DEF e, y, given, last, first, w
  <2>19. Does(d2, last, e) BY <2>11, <2>15, <2>17, DrawnDoes
  <2>20. Does(d1, given, d2) BY <2>7, <2>15
  <2>21. Does(db, first \o given, d2) BY <1>1, <2>20, DoesBoth
  <2>22. Does(db, (first \o given) \o last, e) BY <2>19, <2>21, DoesBoth
  <2> QED BY <1>5, <2>2, <2>18, <2>22, AnsweredAs
<1> QED BY <1>13, <1>14

(***************************************************************************)
(* The token endpoint.                                                     *)
(***************************************************************************)
\* What pruning leaves of the refresh grants.
LEMMA PruneFamilies ==
    ASSUME NEW d, FieldsOf(d), NEW t
    PROVE  LET p == PruneOIDCState(d, t)
               F == {f \in DOMAIN d.families : d.families[f].retain <= t} IN
           /\ p.families = Drop(d.families, F)
           /\ p.refresh = Drop(d.refresh, {r \in DOMAIN d.refresh : d.refresh[r].family \in F})
<1> DEFINE F == {f \in DOMAIN d.families : d.families[f].retain <= t}
           m1 == Drop(d.families, F)
           m2 == Drop(d.refresh, {r \in DOMAIN d.refresh : d.refresh[r].family \in F})
           m3 == Drop(d.txns, {x \in DOMAIN d.txns : d.txns[x].exp <= t})
           m4 == Drop(d.codes, {k \in DOMAIN d.codes : d.codes[k].exp <= t /\ d.codes[k].retain <= t})
           m5 == Drop(d.tokens, {k \in DOMAIN d.tokens : d.tokens[k].exp <= t})
           p == [d EXCEPT !.families = m1, !.refresh = m2, !.txns = m3, !.codes = m4, !.tokens = m5]
           y1 == [d EXCEPT !.families = m1]
           y2 == [y1 EXCEPT !.refresh = m2]
           y3 == [y2 EXCEPT !.txns = m3]
           y4 == [y3 EXCEPT !.codes = m4]
           y5 == [y4 EXCEPT !.tokens = m5]
<1>1. PruneOIDCState(d, t) = p BY DEF PruneOIDCState
<1> HIDE DEF m1, m2, m3, m4, m5
<1>3. p = y5
  <2>1. y2 = [d EXCEPT !.families = m1, !.refresh = m2] OBVIOUS
  <2>2. y3 = [d EXCEPT !.families = m1, !.refresh = m2, !.txns = m3] BY <2>1
  <2>3. y4 = [d EXCEPT !.families = m1, !.refresh = m2, !.txns = m3, !.codes = m4] BY <2>2
  <2> QED BY <2>3
<1>4. FieldsOf(y1) /\ y1.families = m1 BY DEF FieldsOf
<1> HIDE DEF y1
<1>5. FieldsOf(y2) /\ y2.families = m1 /\ y2.refresh = m2 BY <1>4 DEF FieldsOf
<1> HIDE DEF y2
<1>6. FieldsOf(y3) /\ y3.families = m1 /\ y3.refresh = m2 BY <1>5 DEF FieldsOf
<1> HIDE DEF y3
<1>7. FieldsOf(y4) /\ y4.families = m1 /\ y4.refresh = m2 BY <1>6 DEF FieldsOf
<1> HIDE DEF y4
<1>8. y5.families = m1 /\ y5.refresh = m2 BY <1>7 DEF FieldsOf
<1> HIDE DEF y5, p
<1> QED BY <1>1, <1>3, <1>8 DEF m1, m2

\* A new access token is saved and the grants are pruned: the token stays, and
\* so does every grant that has not run out.
LEMMA IssueDoes ==
    ASSUME NEW d, FieldsOf(d), NEW v, StoreOK(AddToken(d, v)), now \in Nat \ {0}, now < v.exp
    PROVE  LET e == PruneOIDCState(AddToken(d, v), now) i == d.next["token"] IN
           /\ Does(d, Tx("SaveAccessToken", i, v) \o Do("PruneOIDCState", 0), e)
           /\ e.tokens[i] = v /\ e.sessions = d.sessions /\ e.apps = d.apps
           /\ \A k \in DOMAIN d.codes : now < d.codes[k].exp => e.codes[k] = d.codes[k]
           /\ \A f \in DOMAIN d.families :
                 now < d.families[f].retain => e.families[f] = d.families[f]
           /\ \A r \in DOMAIN d.refresh :
                 /\ d.refresh[r].family \in DOMAIN d.families
                 /\ now < d.families[d.refresh[r].family].retain
                 => e.refresh[r] = d.refresh[r]
           /\ Extra(d) /\ (v.app # 0 /\ v.family = 0 => v.op # 0) => Extra(e)
<1> DEFINE h == AddToken(d, v)
           e == PruneOIDCState(h, now)
           i == d.next["token"]
<1>1. Does(d, TxAt("SaveAccessToken", i, v, now), h) BY AddsDo
<1>2. Does(h, TxAt("PruneOIDCState", 0, <<>>, now), e) BY PruneDoes
<1>3. /\ FieldsOf(h) /\ h.tokens = Put(d.tokens, i, v)
      /\ h.users = d.users /\ h.clients = d.clients
      /\ h.sessions = d.sessions /\ h.apps = d.apps /\ h.txns = d.txns
      /\ h.codes = d.codes /\ h.families = d.families /\ h.refresh = d.refresh
      /\ h.consents = d.consents
  BY AddFields
<1>4. StoreOK(h) OBVIOUS
<1>17. FieldsOf(h) BY <1>3
<1> HIDE DEF h
<1>5. LET p == PruneOIDCState(h, now) IN
      /\ FieldsOf(p)
      /\ p.users = h.users /\ p.clients = h.clients /\ p.policy = h.policy
      /\ p.access = h.access /\ p.sessions = h.sessions /\ p.apps = h.apps
      /\ p.consents = h.consents /\ p.next = h.next
      /\ p.tokens = Drop(h.tokens, {k \in DOMAIN h.tokens : h.tokens[k].exp <= now})
      /\ p.codes = Drop(h.codes, {k \in DOMAIN h.codes :
                                h.codes[k].exp <= now /\ h.codes[k].retain <= now})
  BY <1>17, PruneFields, ZenonT(60)
<1> DEFINE F == {f \in DOMAIN h.families : h.families[f].retain <= now}
<1>6. LET p == PruneOIDCState(h, now)
          G == {f \in DOMAIN h.families : h.families[f].retain <= now} IN
      /\ p.families = Drop(h.families, G)
      /\ p.refresh = Drop(h.refresh, {r \in DOMAIN h.refresh : h.refresh[r].family \in G})
  BY <1>17, PruneFamilies, Zenon
<1>15. /\ FieldsOf(e) /\ e.clients = h.clients /\ e.sessions = h.sessions /\ e.apps = h.apps
       /\ e.tokens = Drop(h.tokens, {k \in DOMAIN h.tokens : h.tokens[k].exp <= now})
       /\ e.codes = Drop(h.codes, {k \in DOMAIN h.codes :
                                h.codes[k].exp <= now /\ h.codes[k].retain <= now})
  BY <1>5
<1>16. /\ e.families = Drop(h.families, F)
       /\ e.refresh = Drop(h.refresh, {r \in DOMAIN h.refresh : h.refresh[r].family \in F})
  BY <1>6
<1> HIDE DEF e
<1>7. /\ \A k \in DOMAIN h.codes : h.codes[k].exp \in Nat
      /\ \A f \in DOMAIN h.families : h.families[f].retain \in Nat
      /\ \A k \in DOMAIN h.tokens : h.tokens[k].exp \in Nat
  BY <1>4 DEF StoreOK, IsMap, AuthorizationCode, RefreshFamily, AccessToken, Time
<1>8. Does(d, Tx("SaveAccessToken", i, v) \o Do("PruneOIDCState", 0), e)
  BY <1>1, <1>2, DoesBoth DEF Tx, Do
<1>9. i \in DOMAIN h.tokens /\ h.tokens[i] = v BY <1>3 DEF Put
<1>10. e.tokens[i] = v BY <1>15, <1>7, <1>9 DEF Drop
<1>11. \A k \in DOMAIN d.codes : now < d.codes[k].exp => e.codes[k] = d.codes[k]
  BY <1>3, <1>15, <1>7 DEF Drop
<1>12. \A f \in DOMAIN d.families : now < d.families[f].retain =>
           f \notin F /\ e.families[f] = d.families[f]
  BY <1>3, <1>16, <1>7 DEF Drop
<1>13. \A r \in DOMAIN d.refresh :
                 /\ d.refresh[r].family \in DOMAIN d.families
                 /\ now < d.families[d.refresh[r].family].retain
                 => e.refresh[r] = d.refresh[r]
  <2> DEFINE R == {r \in DOMAIN h.refresh : h.refresh[r].family \in F}
  <2>1. e.refresh = Drop(h.refresh, R) BY <1>16
  <2> TAKE r \in DOMAIN d.refresh
  <2> HAVE d.refresh[r].family \in DOMAIN d.families /\ now < d.families[d.refresh[r].family].retain
  <2>2. d.refresh[r].family \notin F BY <1>12
  <2>3. r \notin R BY <1>3, <2>2
  <2> HIDE DEF R
  <2> QED BY <1>3, <2>1, <2>3 DEF Drop
<1>14. ASSUME Extra(d), v.app # 0 /\ v.family = 0 => v.op # 0
       PROVE  Extra(e)
  <2>5. \A k \in DOMAIN h.tokens :
            \/ k \in DOMAIN d.tokens /\ h.tokens[k] = d.tokens[k]
            \/ h.tokens[k] = v
    BY <1>3 DEF Put
  <2>6. \A k \in DOMAIN e.tokens : k \in DOMAIN h.tokens /\ e.tokens[k] = h.tokens[k]
    BY <1>15 DEF Drop
  <2>1. \A k \in DOMAIN e.tokens :
            \/ k \in DOMAIN d.tokens /\ e.tokens[k] = d.tokens[k]
            \/ e.tokens[k] = v
    BY <2>5, <2>6
  <2>2. \A a \in DOMAIN e.apps : a \in DOMAIN d.apps /\ e.apps[a] = d.apps[a] BY <1>3, <1>15
  <2>3. e.sessions = d.sessions /\ e.clients = d.clients BY <1>3, <1>15
  <2>4. \A k \in DOMAIN e.tokens :
            \/ k \in DOMAIN d.tokens /\ e.tokens[k] = d.tokens[k]
            \/ e.tokens[k].app # 0 /\ e.tokens[k].family = 0 => e.tokens[k].op # 0
    BY <1>14, <2>1
  <2> QED BY <1>14, <2>2, <2>3, <2>4, ExtraAdds
<1> QED BY <1>3, <1>15, <1>8, <1>10, <1>11, <1>12, <1>13, <1>14 DEF e, h

\* The password and client-credentials grants.
LEMMA IssueResourceTokenAnswered ==
    ASSUME Here, NEW c \in Clients, NEW grant \in {"password", "client_credentials"},
           NEW u \in Users \cup {0}, NEW cred \in Nat, NEW snap,
           IssueResourceToken(c, grant, u, cred, snap), Calls(SaveTokenScript)
    PROVE  Answered
<1> DEFINE x == now + AccessTokenTTL
           tok == [op |-> 0, app |-> 0, family |-> 0, code |-> 0, client |-> c, user |-> u,
                   grant |-> grant, scopes |-> {}, rev |-> db.clients[c].rev,
                   exp |-> x, revoked |-> FALSE, cred |-> cred, snap |-> snap]
           i == db.next["token"]
           e == PruneOIDCState(AddToken(db, tok), now)
<1>1. c \in DOMAIN db.clients /\ db.clients[c].rev = snap /\ db' = e
  BY DEF IssueResourceToken, MayIssue
<1>2. db.clients[c] \in Client BY <1>1, ReadyNow DEF StoreOK, IsMap
<1>3. snap \in Nat BY <1>1, <1>2 DEF Client
<1>4. x \in Nat /\ now < x BY ReadyNow, ProviderAssumption DEF ProviderAssumption
<1> HIDE DEF x
<1>5. tok \in AccessToken BY <1>1, <1>3, <1>4 DEF AccessToken, Id, Time
<1>6. tok.exp = x /\ tok.app = 0 OBVIOUS
<1> HIDE DEF tok
<1>7. StoreOK(AddToken(db, tok)) BY <1>5, ReadyNow, AddGrantsSound DEF Sound
<1>8. FieldsOf(db) /\ now \in Nat \ {0} /\ now < tok.exp BY <1>4, <1>6, ReadyNow
<1>9. /\ Does(db, Tx("SaveAccessToken", i, tok) \o Do("PruneOIDCState", 0), e)
      /\ e.tokens[i] = tok
      /\ Extra(db) /\ (tok.app # 0 /\ tok.family = 0 => tok.op # 0) => Extra(e)
  BY <1>7, <1>8, IssueDoes
<1>10. tx' = Tx("SaveAccessToken", i, db'.tokens[i]) \o Do("PruneOIDCState", 0)
  BY DEF Calls, SaveTokenScript, NewKey
<1> HIDE DEF e
<1>11. Does(db, tx', e) BY <1>1, <1>9, <1>10
<1> QED BY <1>1, <1>6, <1>9, <1>11, AnsweredAs DEF Here

(***************************************************************************)
(* Refresh rotation.                                                       *)
(***************************************************************************)
Spent(v) == [v EXCEPT !.consumed = TRUE]
Follower(f, scopes) == [family |-> f, scopes |-> scopes, consumed |-> FALSE]

\* Refresh rotation: the token presented is spent, its family lives on, and a new
\* token follows.
LEMMA TurnedDoes ==
    ASSUME NEW d, StoreOK(d), AllDrawn(d), NEW r \in DOMAIN d.refresh, NEW f,
           f = d.refresh[r].family, f \in DOMAIN d.families, NEW idle, NEW scopes
    PROVE  LET e == Turned(d, r, f, idle, scopes) j == d.next["refresh"]
               spent == Spent(d.refresh[r])
               kept == Idled(d.families[f], idle)
               new == Follower(f, scopes) IN
           /\ Does(d, Tx("SaveRefreshToken", r, spent) \o Tx("SaveRefreshFamily", f, kept) \o
                      Tx("SaveRefreshToken", j, new), e)
           /\ FieldsOf(e) /\ e.next["token"] = d.next["token"]
           /\ e.clients = d.clients /\ e.sessions = d.sessions /\ e.apps = d.apps
           /\ e.tokens = d.tokens
           /\ e.refresh[r] = spent /\ e.refresh[j] = new /\ e.families[f] = kept
           /\ f \in DOMAIN e.families /\ {r, j} \subseteq DOMAIN e.refresh
<1> DEFINE j == d.next["refresh"]
           spent == [d.refresh[r] EXCEPT !.consumed = TRUE]
           kept == [d.families[f] EXCEPT !.idle = idle]
           new == [family |-> f, scopes |-> scopes, consumed |-> FALSE]
           ma == Put(d.refresh, r, spent)
           mb == Put(d.families, f, kept)
           mc == Put(ma, j, new)
           n == [d.next EXCEPT !["refresh"] = j + 1]
           da == [d EXCEPT !.refresh = ma]
           db1 == [da EXCEPT !.families = mb]
           dc == [db1 EXCEPT !.next = n]
           e == [dc EXCEPT !.refresh = mc]
<1>1. d.refresh[r] \in RefreshToken BY DEF StoreOK, IsMap
<1>2. j \in Nat /\ j \notin DOMAIN d.refresh
  <2>1. j \in Nat BY Counters DEF Kinds
  <2>2. j \notin DOMAIN d.refresh
    <3>1. j \in DOMAIN d.refresh => j < j BY DEF AllDrawn
    <3> QED BY <2>1, <3>1
  <2> QED BY <2>1, <2>2
<1>3. FieldsOf(d) BY StoreFields
<1>4. spent.family = f /\ new.family = f BY <1>1 DEF RefreshToken
<1> HIDE DEF kept, spent, new
<1>5. Does(d, Tx("SaveRefreshToken", r, spent), da) BY <1>4, SavesDo DEF Tx
<1>6. /\ ma[r] = spent /\ r \in DOMAIN ma /\ j \notin DOMAIN ma /\ mb[f] = kept /\ f \in DOMAIN mb
      /\ mc[j] = new /\ mc[r] = spent /\ {r, j} \subseteq DOMAIN mc
  BY <1>2 DEF Put
<1>7. FieldsOf(da) /\ da.families = d.families /\ da.next = d.next /\ da.refresh = ma
      /\ da.clients = d.clients /\ da.sessions = d.sessions /\ da.apps = d.apps
      /\ da.tokens = d.tokens
  <2> HIDE DEF ma
  <2> QED BY <1>3 DEF FieldsOf
<1>8. d.next = [d.next EXCEPT !["token"] = d.next["token"]] /\ n["token"] = d.next["token"]
  BY DEF StoreOK, Kinds
<1>9. Turned(d, r, f, idle, scopes) = e
  <2>1. [d EXCEPT !.refresh = ma, !.families = mb] = db1 OBVIOUS
  <2>2. Turned(d, r, f, idle, scopes) = AddRefresh([d EXCEPT !.refresh = ma, !.families = mb], new)
    BY DEF Turned, Spend, spent, kept, new
  <2>3. Turned(d, r, f, idle, scopes) = AddRefresh(db1, new) BY <2>1, <2>2
  <2>4. db1.next = d.next /\ db1.refresh = ma
    <3> HIDE DEF ma, mb, da
    <3> QED BY <1>7 DEF FieldsOf
  <2> HIDE DEF db1
  <2> QED BY <2>3, <2>4 DEF AddRefresh, Draw
<1> HIDE DEF ma, mb, n
<1>10. Does(da, Tx("SaveRefreshFamily", f, kept), db1)
  <2>1. mb = Put(da.families, f, kept) BY <1>7 DEF mb
  <2> HIDE DEF da
  <2> QED BY <2>1, SavesDo DEF Tx
<1> HIDE DEF da
<1>11. /\ FieldsOf(db1) /\ db1.families = mb /\ db1.next = d.next /\ db1.refresh = ma
       /\ db1.clients = d.clients /\ db1.sessions = d.sessions /\ db1.apps = d.apps
       /\ db1.tokens = d.tokens
  BY <1>7 DEF FieldsOf
<1> HIDE DEF mc
<1>12. AddRefresh(db1, new) = e
  <2> HIDE DEF db1
  <2> QED BY <1>11 DEF AddRefresh, Draw, n, mc
<1> HIDE DEF db1
<1>13. Does(db1, Tx("SaveRefreshToken", j, new), AddRefresh(db1, new))
  BY <1>4, <1>6, <1>11, AddsDo DEF Tx
<1>14. /\ FieldsOf(dc) /\ dc.families = mb /\ dc.next = n
       /\ dc.clients = d.clients /\ dc.sessions = d.sessions /\ dc.apps = d.apps
       /\ dc.tokens = d.tokens
  BY <1>11 DEF FieldsOf
<1> HIDE DEF dc
<1>15. /\ FieldsOf(e) /\ e.families = mb /\ e.next = n /\ e.refresh = mc
       /\ e.clients = d.clients /\ e.sessions = d.sessions /\ e.apps = d.apps
       /\ e.tokens = d.tokens
  BY <1>14 DEF FieldsOf
<1> HIDE DEF e, j
<1>16. Does(d, Tx("SaveRefreshToken", r, spent) \o Tx("SaveRefreshFamily", f, kept) \o
                      Tx("SaveRefreshToken", j, new), e)
  <2>1. Does(d, Tx("SaveRefreshToken", r, spent) \o Tx("SaveRefreshFamily", f, kept), db1)
    BY <1>5, <1>10, DoesBoth
  <2> QED BY <1>12, <1>13, <2>1, DoesBoth
<1> QED BY <1>6, <1>8, <1>9, <1>15, <1>16 DEF j, spent, kept, new, Spent, Idled, Follower

\* A refresh token is exchanged for the next one and an access token.
LEMMA RotateAnswered ==
    ASSUME Here, NEW r, NEW c \in Clients, NEW snap, NEW scopes \in SUBSET Scopes,
           Rotate(r, c, snap, scopes), Calls(RotateScript(r))
    PROVE  Answered
<1> DEFINE old  == db.refresh[r]
           id   == old.family
           f    == db.families[id]
           idle == Lesser(now + RefreshInactivityTTL, f.abs)
           x    == now + AccessTokenTTL
           e    == Turned(db, r, id, idle, scopes)
           tok  == [op |-> f.op, app |-> f.app, family |-> id, code |-> f.code,
                    client |-> c, user |-> f.user, grant |-> "refresh_token",
                    scopes |-> scopes, rev |-> db.clients[c].rev,
                    exp |-> x, revoked |-> FALSE, cred |-> f.cred, snap |-> snap]
           g    == PruneOIDCState(AddToken(e, tok), now)
           j    == db.next["refresh"]
           i    == db.next["token"]
           spent == [old EXCEPT !.consumed = TRUE]
           kept == [f EXCEPT !.idle = idle]
           new  == [family |-> id, scopes |-> scopes, consumed |-> FALSE]
<1>1. BoundRefresh(r, c, snap) /\ RefreshFamilyActive(db, f, now)
  BY DEF Rotate
<1>2. db' = g BY DEF Rotate, Turned
<1>3. /\ r \in DOMAIN db.refresh /\ id \in DOMAIN db.families /\ id \in Id \ {0}
      /\ f \in RefreshFamily /\ db.clients[c].rev = snap
      /\ c \in DOMAIN db.clients /\ old \in RefreshToken
  <2>1. r \in DOMAIN db.refresh /\ id \in DOMAIN db.families
    BY <1>1 DEF BoundRefresh
  <2>2. id \in Id \ {0} /\ f \in RefreshFamily /\ old \in RefreshToken
    BY <2>1, ReadyNow, Records
  <2> QED BY <1>1, <2>1, <2>2 DEF BoundRefresh
<1>4. now < f.abs /\ ~f.revoked
  <2> HIDE DEF f
  <2> QED BY <1>1 DEF RefreshFamilyActive
<1>5. f.retain = f.abs + AccessTokenTTL
  BY <1>3, <1>4 DEF Here, GInv, Kept, Good, FamilyGood
<1>6. /\ idle \in Time /\ x \in Nat /\ now < x /\ now < f.retain /\ f.retain \in Nat
  <2>1. now \in Nat \ {0} /\ AccessTokenTTL \in Nat \ {0} /\ RefreshInactivityTTL \in Nat
    BY ReadyNow, Lifetimes, ProviderAssumption DEF ProviderAssumption
  <2>2. f.abs \in Nat /\ f.retain \in Nat BY <1>3 DEF RefreshFamily, Time
  <2> HIDE DEF f
  <2> QED BY <1>4, <1>5, <2>1, <2>2 DEF Lesser, Time
<1>7. db.clients[c].rev \in Nat /\ snap \in Nat
  <2>1. db.clients[c] \in Client BY <1>3, ReadyNow DEF StoreOK, IsMap
  <2> QED BY <1>3, <2>1 DEF Client
<1> HIDE DEF x
<1>8. tok \in AccessToken
  <2>1. x \in Time /\ id \in Id BY <1>3, <1>6 DEF Time
  <2> HIDE DEF f, id
  <2> QED BY <1>3, <1>7, <2>1, RotatedToken
<1>9. tok.exp = x /\ tok.family = id OBVIOUS
<1>10. kept.retain = f.retain /\ spent.family = id /\ new.family = id
  BY <1>3 DEF RefreshFamily, RefreshToken
<1> HIDE DEF idle, tok
<1>11. Sound(e)
  <2> HIDE DEF id
  <2>1. Sound(db) /\ AllDrawn(db) BY ReadyNow
  <2> DEFINE y == Turned(db, r, id, idle, scopes)
  <2>2. Sound(y) BY <1>3, <1>6, <2>1, TurnedMaps
  <2> QED BY <2>2
<1>12. StoreOK(AddToken(e, tok))
  <2> HIDE DEF e
  <2>1. Sound(AddToken(e, tok)) BY <1>8, <1>11, AddGrantsSound
  <2> QED BY <2>1 DEF Sound
<1>13. LET y == Turned(db, r, id, idle, scopes) q == db.next["refresh"]
               sp == Spent(db.refresh[r])
               ke == Idled(db.families[id], idle)
               ne == Follower(id, scopes) IN
           /\ Does(db, Tx("SaveRefreshToken", r, sp) \o Tx("SaveRefreshFamily", id, ke) \o
                      Tx("SaveRefreshToken", q, ne), y)
           /\ FieldsOf(y) /\ y.next["token"] = db.next["token"]
           /\ y.clients = db.clients /\ y.sessions = db.sessions /\ y.apps = db.apps
           /\ y.tokens = db.tokens
           /\ y.refresh[r] = sp /\ y.refresh[q] = ne /\ y.families[id] = ke
           /\ id \in DOMAIN y.families /\ {r, q} \subseteq DOMAIN y.refresh
  <2>1. StoreOK(db) /\ AllDrawn(db) BY ReadyNow
  <2>2. id = db.refresh[r].family OBVIOUS
  <2>3. r \in DOMAIN db.refresh /\ id \in DOMAIN db.families BY <1>3
  <2> HIDE DEF id
  <2> HIDE DEF idle
  <2> QED BY <2>1, <2>2, <2>3, TurnedDoes
<1>14. /\ Does(db, Tx("SaveRefreshToken", r, spent) \o Tx("SaveRefreshFamily", id, kept) \o
                      Tx("SaveRefreshToken", j, new), e)
       /\ FieldsOf(e) /\ e.next["token"] = i
       /\ e.clients = db.clients /\ e.sessions = db.sessions /\ e.apps = db.apps
       /\ e.tokens = db.tokens
       /\ e.refresh[r] = spent /\ e.refresh[j] = new /\ e.families[id] = kept
       /\ id \in DOMAIN e.families /\ {r, j} \subseteq DOMAIN e.refresh
  BY <1>13 DEF Spent, Idled, Follower
<1> HIDE DEF e, spent, kept, new, j
<1>15. /\ Does(e, Tx("SaveAccessToken", e.next["token"], tok) \o Do("PruneOIDCState", 0), g)
       /\ g.tokens[e.next["token"]] = tok
       /\ \A h \in DOMAIN e.families :
                 now < e.families[h].retain => g.families[h] = e.families[h]
       /\ \A h \in DOMAIN e.refresh :
                 /\ e.refresh[h].family \in DOMAIN e.families
                 /\ now < e.families[e.refresh[h].family].retain
                 => g.refresh[h] = e.refresh[h]
       /\ Extra(e) /\ (tok.app # 0 /\ tok.family = 0 => tok.op # 0) => Extra(g)
  BY <1>6, <1>9, <1>12, <1>14, ReadyNow, IssueDoes
<1> HIDE DEF g, f, id
<1>16. Extra(e)
  <2>1. Extra(db) BY DEF Here
  <2> QED BY <1>14, <2>1, ExtraAdds
<1>17. Extra(g)
  <2>1. tok.family # 0 BY <1>3, <1>9
  <2> QED BY <1>15, <1>16, <2>1
<1>18. g.families[id] = kept /\ g.refresh[r] = spent /\ g.refresh[j] = new /\ g.tokens[i] = tok
  BY <1>6, <1>10, <1>14, <1>15
<1>19. tx' = Tx("SaveRefreshToken", r, spent) \o Tx("SaveRefreshFamily", id, kept) \o
             Tx("SaveRefreshToken", j, new) \o
             (Tx("SaveAccessToken", i, tok) \o Do("PruneOIDCState", 0))
  <2> HIDE DEF i
  <2>1. SaveTokenScript = Tx("SaveAccessToken", i, tok) \o Do("PruneOIDCState", 0)
    BY <1>2, <1>18 DEF SaveTokenScript, NewKey, i
  <2>2. db.refresh[r].family = id BY DEF id, old
  <2>3. db.next["refresh"] = j BY DEF j
  <2> QED BY <1>2, <1>18, <2>1, <2>2, <2>3 DEF Calls, RotateScript, NewKey
<1>20. Does(db, tx', g) BY <1>14, <1>15, <1>19, DoesBoth
<1> QED BY <1>2, <1>17, <1>20, AnsweredAs

(***************************************************************************)
(* The code exchange.                                                      *)
(***************************************************************************)
\* The app session that an exchange joins or starts is saved, and no other.
LEMMA JoinDoes ==
    ASSUME Here, NEW v \in AuthorizationCode, v.client \in DOMAIN db.clients,
           v.op # 0 => OpenSession(db, v.op)
    PROVE  LET e == JoinApp(db, v) IN
           /\ Does(db, Save("SaveAppSession", e.apps, LiveApps(e, v.op, v.client)), e)
           /\ Extra(e) /\ Fine(e, now, {})
<1> DEFINE e == JoinApp(db, v)
           K == LiveApps(e, v.op, v.client)
           n == [op |-> v.op, client |-> v.client, user |-> v.user, ended |-> 0]
           i == db.next["app"]
<1>1. Leads(db, e, now, {}) BY FineNow, JoinedLeads DEF Here
<1>2. Fine(e, now, {}) /\ StoreOK(e) /\ AllDrawn(e) BY <1>1 DEF Leads, Fine, Sound, Kept
<1>3. IsFiniteSet(K)
  <2>1. K \subseteq DOMAIN e.apps BY DEF LiveApps
  <2> HIDE DEF e, K
  <2> QED BY <1>2, <2>1, Finitely
<1>4. CASE v.op = 0 \/ LiveApps(db, v.op, v.client) # {}
  <2>1. e = db BY <1>4 DEF JoinApp
  <2>2. Extra(e) BY <2>1 DEF Here
  <2> DEFINE G == [S \in SUBSET K |-> db]
  <2>3. \A k \in K : k \in DOMAIN db.apps /\ db.apps[k].ended = 0 /\ e.apps = db.apps
    BY <2>1 DEF LiveApps
  <2> HIDE DEF e, K
  <2>4. \A k \in K : Does(db, Tx("SaveAppSession", k, e.apps[k]), db)
    BY <2>3, ReadyNow, SameAgain DEF Tx
  <2>5. \A S \in SUBSET K : \A k \in K : Does(G[S], Tx("SaveAppSession", k, e.apps[k]), G[S \cup {k}])
    BY <2>4
  <2>6. G[{}] = db /\ G[K] = db OBVIOUS
  <2> HIDE DEF G
  <2> DEFINE m == e.apps
  <2>7. \A S \in SUBSET K : \A k \in K : Does(G[S], Tx("SaveAppSession", k, m[k]), G[S \cup {k}])
    BY <2>5
  <2> HIDE DEF m
  <2>8. Does(G[{}], Save("SaveAppSession", m, K), G[K]) BY <1>3, <2>7, DoesSave
  <2> QED BY <1>2, <2>1, <2>2, <2>6, <2>8 DEF e, K, m
<1>5. CASE ~(v.op = 0 \/ LiveApps(db, v.op, v.client) # {})
  <2>1. e = AddApp(db, n) BY <1>5 DEF JoinApp, NewApp
  <2>2. n.ended = 0 /\ n.op = v.op /\ n.client = v.client OBVIOUS
  <2> HIDE DEF n
  <2>3. n \in AppSession
    BY DEF AppSession, Time, AuthorizationCode, n
  <2>4. LET y == AddApp(db, n) j == db.next["app"] IN
           /\ Leads(db, y, now, {}) /\ Steady(db, y)
           /\ y.apps = Put(db.apps, j, n) /\ j \notin DOMAIN db.apps
           /\ y.sessions = db.sessions /\ y.txns = db.txns /\ y.codes = db.codes
           /\ y.tokens = db.tokens /\ y.families = db.families
           /\ y.refresh = db.refresh /\ y.consents = db.consents
           /\ \A k \in Kinds : k # "app" => y.next[k] = db.next[k]
    BY <1>5, <2>2, <2>3, FineNow, AddAppLeads DEF Here
  <2>5. Does(db, TxAt("SaveAppSession", i, n, now), AddApp(db, n))
    <3>1. AppsDrawn(db) /\ StoreOK(db) BY ReadyNow DEF Ready
    <3>2. LiveApps(db, n.op, n.client) = {} BY <1>5, <2>2
    <3> QED BY <2>2, <3>1, <3>2, AddAppDoes
  <2>6. e.apps = Put(db.apps, i, n) /\ i \notin DOMAIN db.apps /\ e.sessions = db.sessions
        /\ e.clients = db.clients /\ e.tokens = db.tokens
    <3> HIDE DEF e
    <3> QED BY <2>1, <2>4 DEF Steady
  <2>7. Does(db, Tx("SaveAppSession", i, n), e) BY <2>1, <2>5 DEF Tx
  <2> HIDE DEF e, i
  <2>8. K = {i} /\ e.apps[i] = n
    BY <1>5, <2>2, <2>6 DEF LiveApps, Put
  <2>9. Extra(e)
    <3>1. \A a \in DOMAIN e.apps :
               \/ a \in DOMAIN db.apps /\ e.apps[a] = db.apps[a]
               \/ e.apps[a].client \in DOMAIN db.clients /\ e.apps[a].op # 0
      BY <1>5, <2>2, <2>6 DEF Put
    <3>2. \A k \in DOMAIN e.tokens : k \in DOMAIN db.tokens /\ e.tokens[k] = db.tokens[k]
      BY <2>6
    <3>3. Extra(db) BY DEF Here
    <3> QED BY <2>6, <3>1, <3>2, <3>3, ExtraAdds
  <2> DEFINE G == [S \in SUBSET K |-> IF S = {} THEN db ELSE e]
             m == e.apps
  <2>10. Does(db, Tx("SaveAppSession", i, n), e) BY <2>7
  <2>11. G[{}] = db /\ G[K] = e
    BY <2>8
  <2> HIDE DEF K
  <2>12. Does(e, Tx("SaveAppSession", i, n), e)
    <3>1. OneID(e) BY <2>9 DEF Extra
    <3>2. OneApp(e) BY <1>5, <2>2, <2>6 DEF OneApp, LiveApps, Put, Here, Tally
    <3>3. i \in DOMAIN e.apps /\ e.apps[i].ended = 0 /\ e.apps[i] = n BY <2>2, <2>6 DEF Put
    <3> QED BY <1>2, <3>1, <3>2, <3>3, SameAgain DEF Tx
  <2>13. \A S \in SUBSET K : \A k \in K : Does(G[S], Tx("SaveAppSession", k, m[k]), G[S \cup {k}])
    <3> TAKE S \in SUBSET K
    <3> TAKE k \in K
    <3>1. k = i /\ m[k] = n BY <2>8
    <3>2. G[S] = (IF S = {} THEN db ELSE e) /\ G[S \cup {k}] = e BY <2>8
    <3> HIDE DEF G, m
    <3> QED BY <2>10, <2>12, <3>1, <3>2
  <2> HIDE DEF G, m
  <2>14. Does(G[{}], Save("SaveAppSession", m, K), G[K]) BY <1>3, <2>13, DoesSave
  <2> QED BY <1>2, <2>9, <2>11, <2>14 DEF e, K, m
<1> QED BY <1>4, <1>5

\* The OP session the code is of is saved as it is.
LEMMA SessionsDoAgain ==
    ASSUME NEW d, StoreOK(d), AllDrawn(d), OneID(d), NEW K, K \subseteq DOMAIN d.sessions,
           \A h \in K : d.sessions[h].ended = 0
    PROVE  Does(d, Save("SaveSession", d.sessions, K), d)
<1> DEFINE G == [S \in SUBSET K |-> d]
           m == d.sessions
<1>1. IsFiniteSet(K) BY Finitely
<1>2. \A k \in K : Does(d, Tx("SaveSession", k, m[k]), d) BY SameAgain DEF Tx
<1>3. \A S \in SUBSET K : \A k \in K : Does(G[S], Tx("SaveSession", k, m[k]), G[S \cup {k}])
  BY <1>2
<1>4. G[{}] = d /\ G[K] = d OBVIOUS
<1> HIDE DEF G, m
<1>5. Does(G[{}], Save("SaveSession", m, K), G[K]) BY <1>1, <1>3, DoesSave
<1> QED BY <1>4, <1>5 DEF m

\* A new refresh family and its first token.
LEMMA FamilyDoes ==
    ASSUME NEW d, StoreOK(d), AllDrawn(d), NEW f
    PROVE  LET e == InitialRefresh(d, f) i == d.next["family"] j == d.next["refresh"]
               new == Follower(i, f.scopes) IN
           /\ Does(d, Tx("SaveRefreshFamily", i, f) \o Tx("SaveRefreshToken", j, new), e)
           /\ FieldsOf(e) /\ e.next["token"] = d.next["token"]
           /\ e.clients = d.clients /\ e.sessions = d.sessions /\ e.apps = d.apps
           /\ e.codes = d.codes /\ e.tokens = d.tokens
           /\ i \in DOMAIN e.families /\ e.families[i] = f
           /\ j \in DOMAIN e.refresh /\ e.refresh[j] = new
<1> DEFINE i == d.next["family"]
           j == d.next["refresh"]
           new == Follower(i, f.scopes)
           n1 == [d.next EXCEPT !["family"] = i + 1]
           n2 == [n1 EXCEPT !["refresh"] = j + 1]
           ma == Put(d.families, i, f)
           mb == Put(d.refresh, j, new)
           d1 == [d EXCEPT !.next = n1]
           d2 == [d1 EXCEPT !.families = ma]
           d3 == [d2 EXCEPT !.next = n2]
           e == [d3 EXCEPT !.refresh = mb]
<1>1. j \in Nat /\ j \notin DOMAIN d.refresh
  <2>1. j \in Nat BY Counters DEF Kinds
  <2>2. j \in DOMAIN d.refresh => j < j BY DEF AllDrawn
  <2> QED BY <2>1, <2>2
<1>2. FieldsOf(d) BY StoreFields
<1>3. new.family = i BY DEF Follower
<1>4. n1["refresh"] = j /\ n2["token"] = d.next["token"] BY DEF StoreOK, Kinds
<1>5. AddFamily(d, f) = d2 BY DEF AddFamily, Draw
<1>6. i \in DOMAIN ma /\ ma[i] = f /\ j \in DOMAIN mb /\ mb[j] = new BY DEF Put
<1> HIDE DEF new, n1, ma
<1>7. /\ FieldsOf(d1) /\ d1.next = n1 /\ d1.refresh = d.refresh
      /\ d1.clients = d.clients /\ d1.sessions = d.sessions /\ d1.apps = d.apps
      /\ d1.codes = d.codes /\ d1.tokens = d.tokens
  BY <1>2 DEF FieldsOf
<1> HIDE DEF d1
<1>8. /\ FieldsOf(d2) /\ d2.next = n1 /\ d2.refresh = d.refresh /\ d2.families = ma
      /\ d2.clients = d.clients /\ d2.sessions = d.sessions /\ d2.apps = d.apps
      /\ d2.codes = d.codes /\ d2.tokens = d.tokens
  BY <1>7 DEF FieldsOf
<1> HIDE DEF d2
<1>9. AddRefresh(d2, new) = e
  <2>1. d2.next["refresh"] = j BY <1>4, <1>8
  <2> QED BY <1>8, <2>1 DEF AddRefresh, Draw
<1>10. Does(d, Tx("SaveRefreshFamily", i, f), d2) BY <1>5, AddsDo DEF Tx
<1> HIDE DEF mb, n2
<1>11. /\ FieldsOf(d3) /\ d3.next = n2 /\ d3.refresh = d.refresh /\ d3.families = ma
      /\ d3.clients = d.clients /\ d3.sessions = d.sessions /\ d3.apps = d.apps
      /\ d3.codes = d.codes /\ d3.tokens = d.tokens
  BY <1>8 DEF FieldsOf
<1> HIDE DEF d3
<1>12. /\ FieldsOf(e) /\ e.next = n2 /\ e.refresh = mb /\ e.families = ma
      /\ e.clients = d.clients /\ e.sessions = d.sessions /\ e.apps = d.apps
      /\ e.codes = d.codes /\ e.tokens = d.tokens
  BY <1>11 DEF FieldsOf
<1> HIDE DEF e
<1>13. Does(d2, Tx("SaveRefreshToken", j, new), e)
  <2>1. Does(d2, TxAt("SaveRefreshToken", d2.next["refresh"], new, now), AddRefresh(d2, new))
    BY <1>1, <1>3, <1>4, <1>6, <1>8, AddsDo
  <2> QED BY <1>4, <1>8, <1>9, <2>1 DEF Tx
<1>14. Does(d, Tx("SaveRefreshFamily", i, f) \o Tx("SaveRefreshToken", j, new), e)
  BY <1>10, <1>13, DoesBoth
<1>15. InitialRefresh(d, f) = e
  BY <1>5, <1>9 DEF InitialRefresh, new, Follower
<1> HIDE DEF i, j
<1> QED BY <1>4, <1>6, <1>12, <1>14, <1>15 DEF i, j, new

\* A code saved.
LEMMA CodeSaved ==
    ASSUME NEW d, FieldsOf(d), NEW k, NEW v
    PROVE  LET e == PutCode(d, k, v) IN
           /\ Does(d, Tx("SaveAuthorizationCode", k, v), e)
           /\ FieldsOf(e) /\ k \in DOMAIN e.codes /\ e.codes[k] = v
           /\ e.clients = d.clients /\ e.sessions = d.sessions /\ e.apps = d.apps
           /\ e.families = d.families /\ e.refresh = d.refresh /\ e.tokens = d.tokens
           /\ e.next = d.next
<1> DEFINE m == Put(d.codes, k, v)
           e == [d EXCEPT !.codes = m]
<1>1. e = PutCode(d, k, v) BY DEF PutCode
<1>2. Does(d, Tx("SaveAuthorizationCode", k, v), e) BY SavesDo DEF Tx
<1>3. m[k] = v /\ k \in DOMAIN m BY DEF Put
<1> HIDE DEF m
<1>4. /\ FieldsOf(e) /\ e.codes = m
      /\ e.clients = d.clients /\ e.sessions = d.sessions /\ e.apps = d.apps
      /\ e.families = d.families /\ e.refresh = d.refresh /\ e.tokens = d.tokens
      /\ e.next = d.next
  BY DEF FieldsOf
<1> HIDE DEF e
<1> QED BY <1>1, <1>2, <1>3, <1>4

\* With offline access the family and its token follow, without it nothing does.
LEMMA OfflineDoes ==
    ASSUME NEW d, Sound(d), AllDrawn(d), NEW f \in RefreshFamily, NEW off \in BOOLEAN
    PROVE  LET e == IF off THEN InitialRefresh(d, f) ELSE d
               i == d.next["family"] j == d.next["refresh"] new == Follower(i, f.scopes) IN
           /\ Does(d, IF off THEN Tx("SaveRefreshFamily", i, f) \o Tx("SaveRefreshToken", j, new)
                      ELSE <<>>, e)
           /\ FieldsOf(e) /\ Sound(e) /\ e.next["token"] = d.next["token"]
           /\ e.clients = d.clients /\ e.sessions = d.sessions /\ e.apps = d.apps
           /\ e.codes = d.codes /\ e.tokens = d.tokens
           /\ off => /\ i \in DOMAIN e.families /\ e.families[i] = f
                     /\ j \in DOMAIN e.refresh /\ e.refresh[j] = new /\ new.family = i
<1> DEFINE i == d.next["family"]
           j == d.next["refresh"]
           new == Follower(i, f.scopes)
<1>1. StoreOK(d) /\ FieldsOf(d) BY StoreFields DEF Sound
<1>2. CASE off
  <2>1. LET e == InitialRefresh(d, f) IN
           /\ Does(d, Tx("SaveRefreshFamily", i, f) \o Tx("SaveRefreshToken", j, new), e)
           /\ FieldsOf(e) /\ e.next["token"] = d.next["token"]
           /\ e.clients = d.clients /\ e.sessions = d.sessions /\ e.apps = d.apps
           /\ e.codes = d.codes /\ e.tokens = d.tokens
           /\ i \in DOMAIN e.families /\ e.families[i] = f
           /\ j \in DOMAIN e.refresh /\ e.refresh[j] = new
    BY <1>1, FamilyDoes
  <2>2. Sound(InitialRefresh(d, f))
    <3>1. f.scopes \in SUBSET Scopes /\ i \in Id
      BY <1>1 DEF RefreshFamily, StoreOK, Kinds, Id
    <3> HIDE DEF i
    <3>2. [family |-> i, scopes |-> f.scopes, consumed |-> FALSE] \in RefreshToken
      BY <3>1 DEF RefreshToken
    <3>3. Sound(AddFamily(d, f)) BY AddGrantsSound
    <3>4. Sound(AddRefresh(AddFamily(d, f), [family |-> i, scopes |-> f.scopes, consumed |-> FALSE]))
      <4> DEFINE z == [family |-> i, scopes |-> f.scopes, consumed |-> FALSE]
                 y == AddFamily(d, f)
      <4> HIDE DEF z, y
      <4>1. Sound(AddRefresh(y, z)) BY <3>2, <3>3, AddGrantsSound DEF z, y
      <4> QED BY <4>1 DEF z, y
    <3> QED BY <3>4 DEF InitialRefresh, i
  <2>3. new.family = i BY DEF Follower
  <2> QED BY <1>2, <2>1, <2>2, <2>3
<1>3. CASE ~off
  <2>1. Does(d, <<>>, d) BY DoesNothing
  <2> QED BY <1>1, <1>3, <2>1
<1> QED BY <1>2, <1>3

\* A code is exchanged.
LEMMA ExchangeCodeAnswered ==
    ASSUME Here, NEW k, NEW c \in Clients, NEW snap, ExchangeCode(k, c, snap),
           Calls(ExchangeCodeScript(k))
    PROVE  Answered
<1> DEFINE code == db.codes[k]
           d1   == JoinApp(db, code)
           live == LiveApps(d1, code.op, c)
           app  == IF code.op = 0 THEN 0 ELSE CHOOSE a \in live : TRUE
           off  == Offline \in code.scopes
           f    == NewFamily(code, k, app)
           fid  == IF off THEN d1.next["family"] ELSE 0
           d2   == IF off THEN InitialRefresh(d1, f) ELSE d1
           used == [code EXCEPT !.consumed = TRUE, !.retain = CodeRetain(off)]
           x    == now + AccessTokenTTL
           tok  == [op |-> code.op, app |-> app, family |-> fid, code |-> k,
                    client |-> c, user |-> code.user, grant |-> "authorization_code",
                    scopes |-> code.scopes, rev |-> db.clients[c].rev,
                    exp |-> x, revoked |-> FALSE,
                    cred |-> code.cred, snap |-> snap]
           d3   == PutCode(d2, k, used)
           g    == PruneOIDCState(AddToken(d3, tok), now)
           i    == db.next["family"]
           j    == db.next["refresh"]
           n    == db.next["token"]
           new  == Follower(i, f.scopes)
           open == {h \in DOMAIN db.sessions : db.sessions[h].id = code.op /\ db.sessions[h].ended = 0}
<1>1. /\ k \in Id \ {0} /\ code \in AuthorizationCode /\ code.client = c
      /\ snap \in Nat /\ db.clients[c].rev \in Nat /\ now \in Nat \ {0} /\ now < code.exp
      /\ code.op # 0 => OpenSession(db, code.op)
      /\ c \in DOMAIN db.clients /\ db' = g
  <2>1. k \in DOMAIN db.codes /\ now \in Nat \ {0} BY ReadyNow DEF ExchangeCode, BoundCode
  <2>2. k \in Id \ {0} /\ code \in AuthorizationCode BY <2>1, ReadyNow, Records
  <2>3. c \in DOMAIN db.clients /\ db.clients[c].rev = snap /\ code.client = c /\ now < code.exp
    BY DEF ExchangeCode, BoundCode, Exchangeable
  <2>4. db.clients[c] \in Client BY <2>3, ReadyNow DEF StoreOK, IsMap
  <2>5. code.op # 0 => OpenSession(db, code.op)
    BY DEF ExchangeCode, SessionActive, OpenSession
  <2>6. db' = g BY DEF ExchangeCode, PutCode
  <2> QED BY <2>1, <2>2, <2>3, <2>4, <2>5, <2>6 DEF Client
<1>2. /\ code.op \in Id /\ code.user \in Users /\ code.scopes \in SUBSET Scopes
      /\ code.rev \in Nat /\ code.cred \in Nat
  BY <1>1 DEF AuthorizationCode
<1>3. /\ FamilyRetain \in Nat /\ now < FamilyRetain /\ CodeRetain(off) \in Nat
      /\ RefreshMaxTTL \in Nat /\ RefreshInactivityTTL \in Nat /\ x \in Nat /\ now < x
  BY <1>1, Lifetimes, ProviderAssumption DEF FamilyRetain, CodeRetain, ProviderAssumption
<1> HIDE DEF x
<1>4. used \in AuthorizationCode /\ used.exp = code.exp
  BY <1>1, <1>3 DEF AuthorizationCode, Time
<1>5. /\ Leads(db, d1, now, {}) /\ Steady(db, d1)
      /\ d1.sessions = db.sessions
      /\ \A z \in Kinds : z # "app" => d1.next[z] = db.next[z]
      /\ code.op # 0 => app \in DOMAIN d1.apps
  <2> HIDE DEF code
  <2> QED BY <1>1, FineNow, JoinedLeads DEF Here
<1>6. /\ Does(db, Save("SaveAppSession", d1.apps, live), d1) /\ Extra(d1) /\ Fine(d1, now, {})
  <2> HIDE DEF code
  <2> QED BY <1>1, JoinDoes
<1>7. Sound(d1) /\ StoreOK(d1) /\ AllDrawn(d1) BY <1>6 DEF Fine, Kept, Sound
<1>8. app \in Id
  <2>1. code.op # 0 => app \in Id BY <1>5, <1>7, Records
  <2> QED BY <2>1 DEF Id
<1>9. /\ d1.next["family"] = i /\ d1.next["refresh"] = j /\ d1.next["token"] = n
  BY <1>5 DEF Kinds
<1>10. app # 0 => code.op # 0 OBVIOUS
<1> HIDE DEF app, d1
<1>11. f \in RefreshFamily /\ f.retain = FamilyRetain
  <2> HIDE DEF code
  <2> QED BY <1>1, <1>2, <1>3, <1>8 DEF NewFamily, RefreshFamily, Time, Id, FamilyRetain
<1>12. off => fid = i BY <1>9
<1>13. fid \in Id /\ off \in BOOLEAN
  BY <1>7 DEF StoreOK, Kinds, Id
<1> HIDE DEF fid, code
<1>14. tok \in AccessToken
  BY <1>1, <1>2, <1>3, <1>8, <1>13 DEF AccessToken, Time, Id
<1>15. tok.exp = x /\ tok.app = app /\ tok.op = code.op OBVIOUS
<1> HIDE DEF tok, used, f, off
<1>16. LET e == IF off THEN InitialRefresh(d1, f) ELSE d1
           p == d1.next["family"] q == d1.next["refresh"] z == Follower(p, f.scopes) IN
           /\ Does(d1, IF off THEN Tx("SaveRefreshFamily", p, f) \o Tx("SaveRefreshToken", q, z)
                      ELSE <<>>, e)
           /\ FieldsOf(e) /\ Sound(e) /\ e.next["token"] = d1.next["token"]
           /\ e.clients = d1.clients /\ e.sessions = d1.sessions /\ e.apps = d1.apps
           /\ e.codes = d1.codes /\ e.tokens = d1.tokens
           /\ off => /\ p \in DOMAIN e.families /\ e.families[p] = f
                     /\ q \in DOMAIN e.refresh /\ e.refresh[q] = z /\ z.family = p
  BY <1>7, <1>11, <1>13, OfflineDoes
<1>17. /\ Does(d1, IF off THEN Tx("SaveRefreshFamily", i, f) \o Tx("SaveRefreshToken", j, new)
                      ELSE <<>>, d2)
       /\ FieldsOf(d2) /\ Sound(d2) /\ d2.next["token"] = n
       /\ d2.clients = d1.clients /\ d2.sessions = d1.sessions /\ d2.apps = d1.apps
       /\ d2.codes = d1.codes /\ d2.tokens = d1.tokens
       /\ off => /\ i \in DOMAIN d2.families /\ d2.families[i] = f
                 /\ j \in DOMAIN d2.refresh /\ d2.refresh[j] = new /\ new.family = i
  <2> HIDE DEF i, j, n
  <2> QED BY <1>9, <1>16
<1> HIDE DEF d2, new
<1>18. /\ Does(d2, Tx("SaveAuthorizationCode", k, used), d3)
       /\ FieldsOf(d3) /\ k \in DOMAIN d3.codes /\ d3.codes[k] = used
       /\ d3.clients = d2.clients /\ d3.sessions = d2.sessions /\ d3.apps = d2.apps
       /\ d3.families = d2.families /\ d3.refresh = d2.refresh /\ d3.tokens = d2.tokens
       /\ d3.next = d2.next
  BY <1>17, CodeSaved
<1>19. Sound(d3)
  <2>1. IsMap(Put(d2.codes, k, used), Id \ {0}, AuthorizationCode)
    BY <1>1, <1>4, <1>17, PutMap DEF Sound, StoreOK
  <2> QED BY <1>17, <2>1, SetCodes DEF PutCode
<1> HIDE DEF d3
<1>20. StoreOK(AddToken(d3, tok)) BY <1>14, <1>19, AddGrantsSound DEF Sound
<1>21. /\ Does(d3, Tx("SaveAccessToken", d3.next["token"], tok) \o Do("PruneOIDCState", 0), g)
       /\ g.tokens[d3.next["token"]] = tok /\ g.sessions = d3.sessions /\ g.apps = d3.apps
       /\ \A h \in DOMAIN d3.codes : now < d3.codes[h].exp => g.codes[h] = d3.codes[h]
       /\ \A h \in DOMAIN d3.families :
                 now < d3.families[h].retain => g.families[h] = d3.families[h]
       /\ \A r \in DOMAIN d3.refresh :
                 /\ d3.refresh[r].family \in DOMAIN d3.families
                 /\ now < d3.families[d3.refresh[r].family].retain
                 => g.refresh[r] = d3.refresh[r]
       /\ Extra(d3) /\ (tok.app # 0 /\ tok.family = 0 => tok.op # 0) => Extra(g)
  BY <1>1, <1>3, <1>15, <1>18, <1>20, IssueDoes
<1> HIDE DEF g
<1>22. Extra(d3)
  <2>1. d3.clients = d1.clients /\ d3.sessions = d1.sessions /\ d3.apps = d1.apps
        /\ d3.tokens = d1.tokens
    BY <1>17, <1>18
  <2> QED BY <1>6, <2>1, ExtraAdds
<1>23. Extra(g) BY <1>10, <1>15, <1>21, <1>22
<1>24. g.tokens[n] = tok /\ g.codes[k] = used BY <1>1, <1>4, <1>17, <1>18, <1>21
<1>25. off => g.families[i] = f /\ g.refresh[j] = new
  BY <1>3, <1>11, <1>17, <1>18, <1>21
<1>26. g.sessions = db.sessions /\ g.apps = d1.apps BY <1>5, <1>17, <1>18, <1>21
<1>27. Does(d1, Save("SaveSession", db.sessions, open), d1)
  <2>1. open \subseteq DOMAIN d1.sessions /\ \A h \in open : d1.sessions[h].ended = 0
    BY <1>5
  <2>2. OneID(d1) BY <1>6 DEF Extra
  <2> HIDE DEF open
  <2> QED BY <1>5, <1>7, <2>1, <2>2, SessionsDoAgain
<1>28. tx' = Save("SaveAppSession", d1.apps, live) \o Save("SaveSession", db.sessions, open) \o
             (IF off THEN Tx("SaveRefreshFamily", i, f) \o Tx("SaveRefreshToken", j, new)
              ELSE <<>>) \o
             Tx("SaveAuthorizationCode", k, used) \o
             (Tx("SaveAccessToken", n, tok) \o Do("PruneOIDCState", 0))
  <2>1. SaveTokenScript = Tx("SaveAccessToken", n, tok) \o Do("PruneOIDCState", 0)
    BY <1>1, <1>24 DEF SaveTokenScript, NewKey
  <2>2. (IF off THEN InitialRefreshScript(NewKey("family"), NewKey("refresh")) ELSE <<>>) =
        (IF off THEN Tx("SaveRefreshFamily", i, f) \o Tx("SaveRefreshToken", j, new) ELSE <<>>)
    BY <1>1, <1>25 DEF InitialRefreshScript, NewKey
  <2>3. {a \in DOMAIN db'.apps : /\ db'.apps[a].op = code.op /\ db'.apps[a].client = code.client
                                 /\ db'.apps[a].ended = 0} = live
    <3>1. db'.apps = d1.apps /\ code.client = c BY <1>1, <1>26
    <3> QED BY <3>1 DEF LiveApps
  <2>4. db'.apps = d1.apps /\ db'.sessions = db.sessions /\ db'.codes[k] = used
    BY <1>1, <1>24, <1>26
  <2>5. tx' = Save("SaveAppSession", db'.apps,
                   {a \in DOMAIN db'.apps : /\ db'.apps[a].op = code.op
                                            /\ db'.apps[a].client = code.client
                                            /\ db'.apps[a].ended = 0}) \o
              Save("SaveSession", db'.sessions, open) \o
              (IF off THEN InitialRefreshScript(NewKey("family"), NewKey("refresh")) ELSE <<>>) \o
              Tx("SaveAuthorizationCode", k, db'.codes[k]) \o SaveTokenScript
    BY DEF Calls, ExchangeCodeScript, code, off
  <2> HIDE DEF open, live, i, j, n
  <2> QED BY <2>1, <2>2, <2>3, <2>4, <2>5
<1>29. Does(db, tx', g)
  <2> DEFINE A == Save("SaveAppSession", d1.apps, live)
             B == Save("SaveSession", db.sessions, open)
             C == IF off THEN Tx("SaveRefreshFamily", i, f) \o Tx("SaveRefreshToken", j, new)
                  ELSE <<>>
             D == Tx("SaveAuthorizationCode", k, used)
             E == Tx("SaveAccessToken", n, tok) \o Do("PruneOIDCState", 0)
  <2>1. Does(db, A, d1) /\ Does(d1, B, d1) /\ Does(d1, C, d2) /\ Does(d2, D, d3)
    BY <1>6, <1>17, <1>18, <1>27
  <2>2. Does(d3, E, g)
    <3>1. d3.next["token"] = n BY <1>17, <1>18
    <3> QED BY <1>21, <3>1
  <2>3. tx' = A \o B \o C \o D \o E BY <1>28
  <2> HIDE DEF A, B, C, D, E
  <2>4. Does(db, A \o B, d1) BY <2>1, DoesBoth
  <2>5. Does(db, A \o B \o C, d2) BY <2>1, <2>4, DoesBoth
  <2>6. Does(db, A \o B \o C \o D, d3) BY <2>1, <2>5, DoesBoth
  <2> QED BY <2>2, <2>3, <2>6, DoesBoth
<1> QED BY <1>1, <1>23, <1>29, AnsweredAs

(***************************************************************************)
(* Every request, and every store of it.                                   *)
(***************************************************************************)
\* Nothing happens to the records when time passes.
LEMMA TickAnswered == ASSUME Here, Tick, Calls(<<>>) PROVE Answered
BY DoesNothing DEF Answered, Here, Tick, Calls

\* Every session request.
LEMMA SessionStepAnswered == ASSUME Here, SessionStepOn PROVE Answered /\ SessionStep
<1>1. ASSUME NEW u \in Users, NEW cred \in Creds(u), NEW old \in DOMAIN db.sessions \cup {0},
             NEW at \in ReadTimes, Login(u, cred, old, at), Calls(LoginScript(u, old, at))
      PROVE  Answered
  <2>1. cred \in Nat
    BY DEF Creds, Here, GInv, Inv, Sound, StoreOK, IsMap, User
  <2> QED BY <1>1, <2>1, LoginAnswered
<1>2. ASSUME NEW h \in DOMAIN db.sessions, Logout(h), Calls(LogoutScript(h)) PROVE Answered
  BY <1>2, LogoutAnswered
<1>3. ASSUME NEW id, NEW offline \in BOOLEAN, EndOPSession(id, offline),
             Calls(EndOPSessionScript(id, offline))
      PROVE  Answered
  BY <1>3, EndOPSessionAnswered
<1>4. ASSUME NEW u \in Users, NEW offline \in BOOLEAN, NEW keep,
             EndUserSessions(u, keep, offline), Calls(EndUserSessionsScript(u, keep, offline))
      PROVE  Answered
  BY <1>4, EndUserSessionsAnswered
<1>5. ASSUME NEW a \in DOMAIN db.apps, NEW offline \in BOOLEAN, EndAppSession(a, offline),
             Calls(EndAppSessionScript(a, offline))
      PROVE  Answered
  BY <1>5, EndAppSessionAnswered
<1>6. ASSUME NEW u \in Users, NEW c \in Clients, EndClientAccess(u, c),
             Calls(EndClientAccessScript(u, c))
      PROVE  Answered
  BY <1>6, EndClientAccessAnswered
<1>7. ASSUME Sweep, Calls(Do("PruneLogoutState", 0)) PROVE Answered
  BY <1>7, SweepAnswered
<1>8. Answered BY <1>1, <1>2, <1>3, <1>4, <1>5, <1>6, <1>7 DEF SessionStepOn
<1>9. SessionStep BY DEF SessionStepOn, SessionStep
<1> QED BY <1>8, <1>9

\* Every authorization request.
LEMMA AuthorizeStepAnswered == ASSUME Here, AuthorizeStepOn PROVE Answered /\ AuthorizeStep
<1>1. ASSUME NEW c \in Clients, NEW s, NEW login, NEW prompt, NEW scopes, NEW maxAge,
             NEW at \in ReadTimes, NEW rev,
             Authorize(c, rev, s, login, scopes, prompt, maxAge, at), Calls(AuthorizeScript(at))
      PROVE  Answered
  BY <1>1, AuthorizeAnswered
<1>2. ASSUME NEW c, NEW h, NEW scopes, NEW maxAge, NEW rev,
             AuthorizeSilently(c, rev, h, scopes, maxAge), Calls(MintCodeScript)
      PROVE  Answered
  BY <1>2, AuthorizeSilentlyAnswered
<1>3. ASSUME NEW x, NEW h, AskConsent(x, h) \/ Deny(x, h), Calls(SaveTxnScript(x))
      PROVE  Answered
  BY <1>3, ClaimAnswered
<1>4. ASSUME NEW x, NEW h, CompleteCovered(x, h), Calls(MintCodeScript \o SaveTxnScript(x))
      PROVE  Answered
  BY <1>4, CompleteAnswered
<1>5. ASSUME NEW x, NEW h, NEW approved \in SUBSET Scopes, Approve(x, h, approved),
             Calls(ApproveScript(x))
      PROVE  Answered
  BY <1>5, ApproveAnswered
<1>6. Answered BY <1>1, <1>2, <1>3, <1>4, <1>5 DEF AuthorizeStepOn
<1>7. AuthorizeStep BY DEF AuthorizeStepOn, AuthorizeStep
<1> QED BY <1>6, <1>7

\* A refresh token presented names a family there is.
LEMMA FamilyThere ==
    ASSUME Here, NEW r, NEW c, NEW snap,
           \/ ReplayRefresh(r, c, snap) \/ RevokeRefresh(r, c, snap) \/ RevokeActiveRefresh(r)
    PROVE  /\ db.refresh[r].family \in DOMAIN db.families
           /\ db' = RevokeRefreshFamily(db, db.refresh[r].family)
BY DEF ReplayRefresh, RevokeRefresh, RevokeActiveRefresh, BoundRefresh

\* Every token request.
LEMMA TokenStepAnswered == ASSUME Here, TokenStepOn PROVE Answered /\ TokenStep
<1>0. PICK c \in Clients : \E snap \in ReadRevs(c) : TokenRequestOn(c, snap)
  BY DEF TokenStepOn
<1>1. PICK snap \in ReadRevs(c) : TokenRequestOn(c, snap)
  BY <1>0
<1>2. ASSUME NEW k, ExchangeCode(k, c, snap), Calls(ExchangeCodeScript(k)) PROVE Answered
  BY <1>2, ExchangeCodeAnswered
<1>3. ASSUME NEW k, ReplayCode(k, c, snap), Calls(Do("RevokeAccessTokensForCode", k))
      PROVE  Answered
  BY <1>3, ReplayCodeAnswered
<1>4. ASSUME NEW r, NEW scopes \in SUBSET Scopes, Rotate(r, c, snap, scopes),
             Calls(RotateScript(r))
      PROVE  Answered
  BY <1>4, RotateAnswered
<1>5. ASSUME NEW r, ReplayRefresh(r, c, snap) \/ RevokeRefresh(r, c, snap),
             Calls(RevokeFamilyScript(r))
      PROVE  Answered
  BY <1>5, FamilyThere, FamilyAnswered
<1>6. ASSUME NEW u \in Users \cup {0}, NEW cred \in IF u = 0 THEN {0} ELSE Creds(u),
             IssueResourceToken(c, IF u = 0 THEN "client_credentials" ELSE "password", u, cred, snap),
             Calls(SaveTokenScript)
      PROVE  Answered /\ TokenRequest(c, snap)
  <2>1. 0 \notin Users BY ProviderAssumption DEF ProviderAssumption
  <2>2. CASE u = 0
    <3>1. cred = 0 /\ IssueResourceToken(c, "client_credentials", 0, 0, snap) BY <1>6, <2>2
    <3>2. Answered BY <1>6, <3>1, IssueResourceTokenAnswered
    <3> QED BY <3>1, <3>2 DEF TokenRequest
  <2>3. CASE u # 0
    <3>1. u \in Users /\ cred \in Creds(u) /\ IssueResourceToken(c, "password", u, cred, snap)
      BY <1>6, <2>3
    <3>2. cred \in Nat
      BY <3>1 DEF Creds, Here, GInv, Inv, Sound, StoreOK, IsMap, User
    <3>3. Answered BY <1>6, <3>1, <3>2, IssueResourceTokenAnswered
    <3> QED BY <3>1, <3>3 DEF TokenRequest
  <2> QED BY <2>2, <2>3
<1>7. ASSUME NEW k, RevokeToken(k, c, snap), Calls(Do("RevokeAccessToken", k)) PROVE Answered
  BY <1>7, TokenAnswered DEF RevokeToken
<1>8. Answered
  BY <1>1, <1>2, <1>3, <1>4, <1>5, <1>6, <1>7 DEF TokenRequestOn
<1>9. TokenRequest(c, snap)
  <2>1. CASE \E u \in Users \cup {0} : \E cred \in IF u = 0 THEN {0} ELSE Creds(u) :
                /\ IssueResourceToken(c, IF u = 0 THEN "client_credentials" ELSE "password",
                                      u, cred, snap)
                /\ Calls(SaveTokenScript)
    BY <1>6, <2>1
  <2> QED BY <1>1, <2>1 DEF TokenRequestOn, TokenRequest
<1> QED BY <1>8, <1>9 DEF TokenStep

\* Every administrative request.
LEMMA AdminStepAnswered == ASSUME Here, AdminStepOn PROVE Answered /\ AdminStep
<1>1. ASSUME NEW u \in Users, NEW cred \in 0..MaxRev, NEW active \in BOOLEAN, NEW role \in Roles,
             UpdateUser(u, cred, active, role), Calls(UpdateUserScript(u))
      PROVE  Answered
  BY <1>1, UpdateUserAnswered, ProviderAssumption DEF ProviderAssumption
<1>2. ASSUME NEW u \in Users, RemoveUser(u), Calls(Do("DeleteUser", u)) PROVE Answered
  BY <1>2, RemoveUserAnswered
<1>3. ASSUME NEW u \in Users, NEW allowed \in BOOLEAN, SetOAuthAccess(u, allowed),
             Calls(Tx("SaveOAuthAccess", u, allowed))
      PROVE  Answered
  BY <1>3, SetOAuthAccessAnswered
<1>4. ASSUME NEW h, NEW cred,
             \/ UpdateProfile(h) /\ Calls(ProfileScript(h))
             \/ /\ ChangePassword(h, cred)
                /\ Calls(ProfileScript(h) \o Do("DeleteUserSessions", db.sessions[h].user))
      PROVE  Answered
  BY <1>4, CredentialsAnswered
<1>5. ASSUME NEW c \in Clients, UpdateClient(c), Calls(Do("SaveClient", c)) PROVE Answered
  BY <1>5, UpdateClientAnswered
<1>6. ASSUME NEW c \in Clients, RemoveClient(c), Calls(Do("DeleteClient", c)) PROVE Answered
  BY <1>6, RemoveClientAnswered
<1>7. ASSUME NEW c \in Clients, NEW x \in SUBSET PolicyGrants, SetOAuthPolicy(c, x),
             Calls(Tx("SaveOAuthPolicy", c, x))
      PROVE  Answered
  BY <1>7, SetOAuthPolicyAnswered
<1>8. Answered BY <1>1, <1>2, <1>3, <1>4, <1>5, <1>6, <1>7 DEF AdminStepOn
<1>9. AdminStep BY DEF AdminStepOn, AdminStep
<1> QED BY <1>8, <1>9

\* Every request of the activity page.
LEMMA ActivityStepAnswered == ASSUME Here, ActivityStepOn PROVE Answered /\ ActivityStep
<1>1. ASSUME NEW r, RevokeActiveRefresh(r), Calls(RevokeFamilyScript(r)) PROVE Answered
  BY <1>1, FamilyThere, FamilyAnswered
<1>2. ASSUME NEW k, RevokeActiveToken(k), Calls(Do("RevokeAccessToken", k)) PROVE Answered
  BY <1>2, TokenAnswered DEF RevokeActiveToken
<1>3. ASSUME NEW k, RevokeActiveCode(k), Calls(RevokeCodesScript(db, {k})) PROVE Answered
  BY <1>3, RevokeActiveCodeAnswered
<1>4. ASSUME NEW x, RevokeActiveTxn(x),
             Calls(SaveTxnScript(x) \o
                   RevokeCodesScript(db, {k \in DOMAIN db.codes : db.codes[k].txn = x}))
      PROVE  Answered
  BY <1>4, RevokeActiveTxnAnswered
<1>5. ASSUME NEW u \in Users, NEW c \in Clients, RevokeActiveConsent(u, c),
             Calls(RevokeConsentScript(u, c))
      PROVE  Answered
  BY <1>5, RevokeActiveConsentAnswered
<1>6. Answered BY <1>1, <1>2, <1>3, <1>4, <1>5 DEF ActivityStepOn
<1>7. ActivityStep BY DEF ActivityStepOn, ActivityStep
<1> QED BY <1>6, <1>7

(***************************************************************************)
(* PostgreSQL agrees with the file store.                                  *)
(***************************************************************************)
\* The inductive invariant: the provider's own, and what PostgreSQL shows of it.
BInv == Here /\ Shows(db, pg)

\* At first the tables show the records.
LEMMA InitShows == InitBackends => BInv
<1> SUFFICES ASSUME InitBackends PROVE Here /\ Shows(db, pg)
  BY DEF BInv
<1>1. Init /\ pg = EmptyTables BY DEF InitBackends
<1>2. GInv /\ Tally(db) BY <1>1, InitGInv, InitTally
<1>3. /\ db.sessions = <<>> /\ db.apps = <<>> /\ db.txns = <<>> /\ db.codes = <<>>
      /\ db.tokens = <<>> /\ db.families = <<>> /\ db.refresh = <<>> /\ db.consents = <<>>
      /\ db.policy = [c \in Clients |-> PolicyGrants]
  BY <1>1 DEF Init
<1>4. DOMAIN <<>> = {} OBVIOUS
<1>5. Extra(db) BY <1>3, <1>4 DEF Extra, OneID, Registered, AppTokens
<1>6. FieldsOf(db) BY <1>2, StoreFields DEF GInv, Inv, Sound
<1>7. pg = [users |-> db.users, clients |-> db.clients, policies |-> db.policy,
            access |-> {u \in Users : db.access[u]},
            sessions |-> <<>>, apps |-> <<>>, txns |-> <<>>, codes |-> <<>>, tokens |-> <<>>,
            families |-> <<>>, refresh |-> <<>>, consents |-> <<>>, deliveries |-> <<>>,
            err |-> FALSE]
  BY <1>1 DEF EmptyTables
<1>8. \A N : Table(<<>>, N) = <<>> BY <1>4 DEF Table
<1>9. Owed(db, <<>>) BY <1>3, <1>4 DEF Owed, Due, Ended
<1>10. Rows(pg) BY <1>7 DEF Rows
<1>11. \A c \in Clients : PG!OAuthPolicy(pg, c) = db.policy[c]
  BY <1>3, <1>7 DEF PG!OAuthPolicy
<1>12. Shows(db, pg)
  BY <1>3, <1>6, <1>7, <1>8, <1>9, <1>10, <1>11 DEF Shows
<1> QED BY <1>2, <1>5, <1>12 DEF Here

\* Every step of the three stores is a step of the provider, and PostgreSQL
\* shows what it did.
LEMMA StepShows ==
    ASSUME BInv, [NextOn]_all
    PROVE  BInv' /\ [Next]_vars
<1>1. Here /\ Shows(db, pg) BY DEF BInv
<1>2. CASE NextOn
  <2>1. Answered /\ Next
    <3>1. CASE SessionStepOn BY <1>1, <3>1, SessionStepAnswered DEF Next
    <3>2. CASE AuthorizeStepOn BY <1>1, <3>2, AuthorizeStepAnswered DEF Next
    <3>3. CASE TokenStepOn BY <1>1, <3>3, TokenStepAnswered DEF Next
    <3>4. CASE AdminStepOn BY <1>1, <3>4, AdminStepAnswered DEF Next
    <3>5. CASE ActivityStepOn BY <1>1, <3>5, ActivityStepAnswered DEF Next
    <3>6. CASE Tick /\ Calls(<<>>) BY <1>1, <3>6, TickAnswered DEF Next
    <3> QED BY <1>2, <3>1, <3>2, <3>3, <3>4, <3>5, <3>6 DEF NextOn
  <2>2. GInv' BY <1>1, <2>1, StepGInv DEF Here
  <2>3. Tally(db') BY <1>1, <2>1, StepTally DEF Here, GInv
  <2>4. Shows(db', PG!Run(pg, tx')) /\ Extra(db') BY <1>1, <2>1 DEF Answered, Does
  <2>5. pg' = PG!Run(pg, tx')
    <3>1. PG!Run(pg, tx').err = FALSE BY <2>4 DEF Shows
    <3> QED BY <1>2, <3>1 DEF NextOn, Commit, Committed
  <2> QED BY <2>1, <2>2, <2>3, <2>4, <2>5 DEF BInv, Here
<1>3. CASE UNCHANGED all
  <2>1. UNCHANGED vars /\ pg' = pg BY <1>3 DEF all, vars
  <2>2. GInv' BY <1>1, <2>1, StepGInv DEF Here
  <2>3. db' = db BY <2>1 DEF vars
  <2> QED BY <1>1, <2>1, <2>2, <2>3 DEF BInv, Here
<1> QED BY <1>2, <1>3

\* Binding a value and scanning it gives the value back.
LEMMA ScannedBack ==
    ASSUME NEW v, NEW N, \A f \in DOMAIN v : f \in N => v[f] \in Nat, v = [f \in DOMAIN v |-> v[f]]
    PROVE  PG!Scan(PG!Bind(v, N), N) = v
<1>1. DOMAIN PG!Bind(v, N) = DOMAIN v BY DEF PG!Bind
<1>2. \A f \in DOMAIN v : PG!Scan(PG!Bind(v, N), N)[f] = v[f]
  BY NullAssumption DEF PG!Bind, PG!Scan
<1>3. PG!Scan(PG!Bind(v, N), N) = [f \in DOMAIN v |-> PG!Scan(PG!Bind(v, N), N)[f]]
  BY <1>1 DEF PG!Scan
<1> QED BY <1>2, <1>3

\* A table scanned is the map that was saved in it.
LEMMA TableScanned ==
    ASSUME NEW m, m = [k \in DOMAIN m |-> m[k]], NEW N,
           \A k \in DOMAIN m : PG!Scan(PG!Bind(m[k], N), N) = m[k]
    PROVE  PG!Rows(Table(m, N), N) = m
<1>1. DOMAIN Table(m, N) = DOMAIN m /\ \A k \in DOMAIN m : Table(m, N)[k] = PG!Bind(m[k], N)
  BY DEF Table
<1>2. PG!Rows(Table(m, N), N) = [k \in DOMAIN m |-> PG!Scan(Table(m, N)[k], N)]
  BY <1>1 DEF PG!Rows
<1>3. \A k \in DOMAIN m : PG!Scan(Table(m, N)[k], N) = m[k] BY <1>1
<1> QED BY <1>2, <1>3

\* What PostgreSQL shows, it reads back.
LEMMA ShownIsRead ==
    ASSUME NEW d, StoreOK(d), NEW p, Shows(d, p)
    PROVE  Tables(p) = FileRecords(d)
<1>1. /\ \A h \in DOMAIN d.sessions : d.sessions[h] \in Session
      /\ \A a \in DOMAIN d.apps : d.apps[a] \in AppSession
      /\ \A x \in DOMAIN d.txns : d.txns[x] \in AuthzTransaction
      /\ \A k \in DOMAIN d.codes : d.codes[k] \in AuthorizationCode
  BY Records
<1>2. /\ d.sessions = [k \in DOMAIN d.sessions |-> d.sessions[k]]
      /\ d.apps = [k \in DOMAIN d.apps |-> d.apps[k]]
      /\ d.txns = [k \in DOMAIN d.txns |-> d.txns[k]]
      /\ d.codes = [k \in DOMAIN d.codes |-> d.codes[k]]
      /\ d.policy = [c \in Clients |-> d.policy[c]]
      /\ d.access = [u \in Users |-> d.access[u]] /\ d.access \in [Users -> BOOLEAN]
  BY DEF StoreOK, IsMap
<1>3. \A v \in Session : PG!Scan(PG!Bind(v, PG!SessionNulls), PG!SessionNulls) = v
  BY ScannedBack DEF Session, Time, PG!SessionNulls
<1>4. \A v \in AppSession : PG!Scan(PG!Bind(v, PG!AppSessionNulls), PG!AppSessionNulls) = v
  BY ScannedBack DEF AppSession, Time, PG!AppSessionNulls
<1>5. \A v \in AuthzTransaction :
          PG!Scan(PG!Bind(v, PG!TransactionNulls), PG!TransactionNulls) = v
  BY ScannedBack DEF AuthzTransaction, Time, PG!TransactionNulls
<1>6. \A v \in AuthorizationCode : PG!Scan(PG!Bind(v, PG!CodeNulls), PG!CodeNulls) = v
  BY ScannedBack DEF AuthorizationCode, Time, PG!CodeNulls
<1>7. PG!ListSessions(p) = d.sessions
  BY <1>1, <1>2, <1>3, TableScanned DEF Shows, PG!ListSessions
<1>8. PG!ListAppSessions(p) = d.apps
  BY <1>1, <1>2, <1>4, TableScanned DEF Shows, PG!ListAppSessions
<1>9. PG!ListAuthzTransactions(p) = d.txns
  BY <1>1, <1>2, <1>5, TableScanned DEF Shows, PG!ListAuthzTransactions
<1>10. PG!ListAuthorizationCodes(p) = d.codes
  BY <1>1, <1>2, <1>6, TableScanned DEF Shows, PG!ListAuthorizationCodes
<1>11. [c \in Clients |-> PG!OAuthPolicy(p, c)] = d.policy BY <1>2 DEF Shows
<1>12. [u \in Users |-> PG!OAuthAccess(p, u)] = d.access BY <1>2 DEF Shows, PG!OAuthAccess
<1>13. /\ PG!ListUsers(p) = d.users /\ PG!ListClients(p) = d.clients
       /\ PG!ListAccessTokens(p) = d.tokens /\ PG!ListRefreshFamilies(p) = d.families
       /\ PG!ListRefreshTokens(p) = d.refresh /\ PG!ListConsents(p) = d.consents
  BY DEF Shows, PG!ListUsers, PG!ListClients, PG!ListAccessTokens, PG!ListRefreshFamilies,
         PG!ListRefreshTokens, PG!ListConsents
<1>14. FileRecords(d) =
           [users |-> d.users, clients |-> d.clients, policy |-> d.policy, access |-> d.access,
            sessions |-> d.sessions, apps |-> d.apps, txns |-> d.txns, codes |-> d.codes,
            tokens |-> d.tokens, families |-> d.families, refresh |-> d.refresh,
            consents |-> d.consents]
  BY DEF FileRecords, Shows, FieldsOf
<1> QED BY <1>7, <1>8, <1>9, <1>10, <1>11, <1>12, <1>13, <1>14 DEF Tables

\* Every history of the three stores is one of the provider.
THEOREM StoresRefineProvider == SpecBackends => Spec
<1>1. InitBackends => Init BY DEF InitBackends
<1> QED BY <1>1, InitShows, StepShows, PTL DEF SpecBackends, Spec

\* The invariant holds of every reachable state.
LEMMA BInvHolds == SpecBackends => []BInv
BY InitShows, StepShows, PTL DEF SpecBackends

\* PostgreSQL returns what the file store does.
THEOREM PostgresAgreesHolds == SpecBackends => []PostgresAgrees
<1>1. BInv => PostgresAgrees
  BY ShownIsRead DEF BInv, Here, GInv, Inv, Sound, PostgresAgrees
<1> QED BY <1>1, BInvHolds, PTL

\* PostgreSQL owes exactly the notifications of the ends recorded.
THEOREM PostgresOwes == SpecBackends => []Owed(db, pg.deliveries)
<1>1. BInv => Owed(db, pg.deliveries) BY DEF BInv, Shows
<1> QED BY <1>1, BInvHolds, PTL
=============================================================================
