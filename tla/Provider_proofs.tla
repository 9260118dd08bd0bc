--------------------------- MODULE Provider_proofs ---------------------------
(***************************************************************************)
(* For every set of users, clients and scopes, every choice of lifetimes   *)
(* and every bound: the store stays well formed, and no app session is     *)
(* ever open under an OP session that ended.                               *)
(*                                                                         *)
(* The inductive invariant adds to the two that a credential in use was    *)
(* drawn before: otherwise a sign-in could overwrite the session that an   *)
(* open app session belongs to.                                            *)
(***************************************************************************)
EXTENDS Provider, IdentityStore_proofs, FiniteSetTheorems

Inv == Sound(db) /\ now \in Nat \ {0}

\* The lifetimes are positive numbers.
LEMMA Lifetimes ==
    /\ SessionTTL \in Nat /\ TransactionTTL \in Nat /\ CodeTTL \in Nat
    /\ AccessTokenTTL \in Nat /\ RefreshMaxTTL \in Nat /\ RefreshInactivityTTL \in Nat
    /\ MaxAges \subseteq Int /\ MaxLag \in Nat
BY ProviderAssumption DEF ProviderAssumption, NoMaxAge

\* A clock value read before the Write is a time.
LEMMA ReadTimesAreTimes ==
    ASSUME Inv, NEW at \in ReadTimes
    PROVE  at \in Nat \ {0}
BY DEF ReadTimes, Inv

(***************************************************************************)
(* New records.                                                            *)
(***************************************************************************)
\* Drawing a key keeps the store sound.
LEMMA DrawSound ==
    ASSUME NEW d, Sound(d), NEW kind \in Kinds
    PROVE  Sound(Draw(d, kind)) /\ d.next[kind] \in Id \ {0}
<1> DEFINE n == [d.next EXCEPT ![kind] = d.next[kind] + 1]
<1>1. d.next \in [Kinds -> Nat \ {0}]
  BY DEF Sound, StoreOK
<1>2. n \in [Kinds -> Nat \ {0}] /\ d.next["session"] <= n["session"]
  BY <1>1 DEF Kinds
<1> HIDE DEF n
<1>3. Sound([d EXCEPT !.next = n])
  BY <1>2, SetNext
<1> QED BY <1>1, <1>3 DEF Draw, n, Id

\* A new credential may take over the session ID of an open app session's OP
\* session, as a repeated sign-in does.
LEMMA AddSessionSound ==
    ASSUME NEW d, StoreOK(d), KeysDrawn(d), NEW v \in Session,
           \A a \in DOMAIN d.apps :
               d.apps[a].ended = 0 => \/ OpenSession(d, d.apps[a].op)
                                      \/ d.apps[a].op = v.id /\ v.ended = 0
    PROVE  Sound(AddSession(d, v))
<1> DEFINE h  == d.next["session"]
           n  == [d.next EXCEPT !["session"] = h + 1]
           se == Put(d.sessions, h, v)
           d1 == [d EXCEPT !.next = n]
           e  == [d1 EXCEPT !.sessions = se]
<1>1. h \in Nat \ {0} /\ n \in [Kinds -> Nat \ {0}] /\ n["session"] = h + 1
  BY DEF StoreOK, Kinds
<1>2. IsMap(se, Id \ {0}, Session)
  BY <1>1, PutMap DEF StoreOK, Id
<1>3. DOMAIN se = DOMAIN d.sessions \cup {h} /\ se[h] = v
      /\ \A x \in DOMAIN d.sessions : x # h => se[x] = d.sessions[x]
  BY DEF Put
<1>4. \A x \in DOMAIN d.sessions : x \in Nat /\ x < h
  BY DEF KeysDrawn, StoreOK, IsMap, Id
<1> HIDE DEF h, n, se
<1>5. StoreOK(e) /\ e.sessions = se /\ e.apps = d.apps /\ e.next = n
  <2>1. StoreOK(d1) /\ d1.sessions = d.sessions /\ d1.apps = d.apps /\ d1.next = n
    BY <1>1 DEF StoreOK
  <2> HIDE DEF d1
  <2> QED BY <1>2, <2>1, SetSessions
<1>6. \A x \in DOMAIN d.sessions : x \in DOMAIN se /\ se[x] = d.sessions[x]
  BY <1>1, <1>3, <1>4
<1>7. Lineage(e)
  <2>1. SUFFICES ASSUME NEW a \in DOMAIN d.apps, d.apps[a].ended = 0
                 PROVE  OpenSession(e, d.apps[a].op)
    BY <1>5 DEF Lineage
  <2>2. CASE OpenSession(d, d.apps[a].op)
    BY <1>5, <1>6, <2>2 DEF OpenSession
  <2>3. CASE d.apps[a].op = v.id /\ v.ended = 0
    BY <1>3, <1>5, <2>3 DEF OpenSession
  <2> QED BY <2>1, <2>2, <2>3
<1>8. KeysDrawn(e)
  BY <1>1, <1>3, <1>4, <1>5 DEF KeysDrawn
<1>9. e = AddSession(d, v)
  BY DEF AddSession, Draw, h, n, se
<1> QED BY <1>5, <1>7, <1>8, <1>9 DEF Sound

\* A new app session is sound under an open OP session.
LEMMA AddAppSound ==
    ASSUME NEW d, Sound(d), NEW v \in AppSession, OpenSession(d, v.op)
    PROVE  Sound(AddApp(d, v))
<1> DEFINE a  == d.next["app"]
           ap == Put(d.apps, a, v)
           d1 == Draw(d, "app")
           e  == [d1 EXCEPT !.apps = ap]
<1>1. Sound(d1) /\ a \in Id \ {0}
  BY DrawSound DEF Kinds
<1>2. d1.sessions = d.sessions
  BY DEF Draw, Sound, StoreOK
<1>3. IsMap(ap, Id \ {0}, AppSession)
  BY <1>1, PutMap DEF Sound, StoreOK
<1> HIDE DEF d1
<1>4. StoreOK(e) /\ e.sessions = d.sessions /\ e.apps = ap /\ e.next = d1.next
  <2> HIDE DEF ap
  <2> QED BY <1>1, <1>2, <1>3, SetApps DEF Sound
<1>5. Lineage(e)
  <2>1. SUFFICES ASSUME NEW b \in DOMAIN ap, ap[b].ended = 0
                 PROVE  OpenSession(d, ap[b].op)
    BY <1>4 DEF Lineage, OpenSession
  <2>2. CASE b = a
    BY <2>2 DEF Put
  <2>3. CASE b # a
    BY <2>1, <2>3 DEF Put, Sound, Lineage
  <2> QED BY <2>2, <2>3
<1>6. KeysDrawn(e)
  BY <1>1, <1>2, <1>4 DEF Sound, KeysDrawn
<1> QED BY <1>4, <1>5, <1>6 DEF Sound, AddApp, d1

\* A new transaction, code, token, family or refresh token opens no app session.
LEMMA AddGrantsSound ==
    ASSUME NEW d, Sound(d)
    PROVE  /\ \A v \in AuthzTransaction : Sound(AddTxn(d, v))
           /\ \A v \in AuthorizationCode : Sound(AddCode(d, v))
           /\ \A v \in AccessToken : Sound(AddToken(d, v))
           /\ \A v \in RefreshFamily : Sound(AddFamily(d, v))
           /\ \A v \in RefreshToken : Sound(AddRefresh(d, v))
<1>1. \A kind \in Kinds : Sound(Draw(d, kind)) /\ d.next[kind] \in Id \ {0}
  BY DrawSound
<1>2. ASSUME NEW v \in AuthzTransaction PROVE Sound(AddTxn(d, v))
  <2>1. IsMap(Put(d.txns, d.next["txn"], v), Id \ {0}, AuthzTransaction)
    BY <1>1, PutMap DEF Sound, StoreOK, Kinds
  <2> QED BY <1>1, <2>1, SetTxns DEF AddTxn, Kinds
<1>3. ASSUME NEW v \in AuthorizationCode PROVE Sound(AddCode(d, v))
  <2>1. IsMap(Put(d.codes, d.next["code"], v), Id \ {0}, AuthorizationCode)
    BY <1>1, PutMap DEF Sound, StoreOK, Kinds
  <2> QED BY <1>1, <2>1, SetCodes DEF AddCode, Kinds
<1>4. ASSUME NEW v \in AccessToken PROVE Sound(AddToken(d, v))
  <2>1. IsMap(Put(d.tokens, d.next["token"], v), Id \ {0}, AccessToken)
    BY <1>1, PutMap DEF Sound, StoreOK, Kinds
  <2> QED BY <1>1, <2>1, SetTokens DEF AddToken, Kinds
<1>5. ASSUME NEW v \in RefreshFamily PROVE Sound(AddFamily(d, v))
  <2>1. IsMap(Put(d.families, d.next["family"], v), Id \ {0}, RefreshFamily)
    BY <1>1, PutMap DEF Sound, StoreOK, Kinds
  <2> QED BY <1>1, <2>1, SetFamilies DEF AddFamily, Kinds
<1>6. ASSUME NEW v \in RefreshToken PROVE Sound(AddRefresh(d, v))
  <2>1. IsMap(Put(d.refresh, d.next["refresh"], v), Id \ {0}, RefreshToken)
    BY <1>1, PutMap DEF Sound, StoreOK, Kinds
  <2> QED BY <1>1, <2>1, SetRefresh DEF AddRefresh, Kinds
<1> QED BY <1>2, <1>3, <1>4, <1>5, <1>6

(***************************************************************************)
(* Sessions.                                                               *)
(***************************************************************************)
\* Sign-in, whatever cookie the browser still presents.
LEMMA LoginSound ==
    ASSUME Inv, NEW u \in Users, NEW cred \in Nat, NEW old, NEW at \in ReadTimes,
           Login(u, cred, old, at)
    PROVE  Sound(db')
<1> DEFINE d1   == PruneLogoutState(db, now)
           h    == d1.next["session"]
           live == LiveSession(d1, old)
           same == live /\ d1.sessions[old].user = u /\ at < d1.sessions[old].exp
           id   == IF same THEN d1.sessions[old].id ELSE h
           v    == [id |-> id, user |-> u, auth |-> at, exp |-> at + SessionTTL,
                    ended |-> 0, cred |-> cred]
           dr   == [d1 EXCEPT !.sessions = Drop(d1.sessions, {old})]
           en   == EndSession(d1, d1.sessions[old].id, at)
           d2   == IF same THEN dr ELSE IF live THEN en ELSE d1
<1>1. Sound(d1)
  BY PruneLogoutStateSound DEF Inv
<1>2. at \in Nat \ {0} /\ SessionTTL \in Nat
  BY ReadTimesAreTimes, Lifetimes
<1>3. db' = AddSession(d2, v)
  BY DEF Login
<1> HIDE DEF d1
<1>4. id \in Id
  <2>1. h \in Id
    BY <1>1 DEF Sound, StoreOK, Kinds, Id
  <2>2. same => d1.sessions[old].id \in Id
    BY <1>1 DEF Sound, StoreOK, IsMap, Session, LiveSession
  <2> QED BY <2>1, <2>2
<1> HIDE DEF id
<1>5. v \in Session
  BY <1>2, <1>4 DEF Session, Time
<1>6. v.id = id /\ v.ended = 0
  OBVIOUS
<1> HIDE DEF v
<1>7. CASE same
  <2>1. /\ StoreOK(dr) /\ dr.sessions = Drop(d1.sessions, {old}) /\ dr.apps = d1.apps
        /\ dr.next = d1.next
    <3>1. IsMap(Drop(d1.sessions, {old}), Id \ {0}, Session)
      BY <1>1, DropMap DEF Sound, StoreOK
    <3> QED BY <1>1, <3>1, SetSessions DEF Sound
  <2>2. KeysDrawn(dr)
    BY <1>1, <2>1 DEF Sound, KeysDrawn, Drop
  <2>3. ASSUME NEW a \in DOMAIN dr.apps, dr.apps[a].ended = 0
        PROVE  OpenSession(dr, dr.apps[a].op) \/ (dr.apps[a].op = v.id /\ v.ended = 0)
    <3>1. PICK g \in DOMAIN d1.sessions : /\ d1.sessions[g].id = dr.apps[a].op
                                         /\ d1.sessions[g].ended = 0
      BY <1>1, <2>1, <2>3 DEF Sound, Lineage, OpenSession
    <3>2. CASE g = old
      <4>1. d1.sessions[old].id = id
        BY <1>7 DEF id
      <4>2. dr.apps[a].op = v.id
        BY <1>6, <3>1, <3>2, <4>1
      <4> QED BY <1>6, <4>2
    <3>3. CASE g # old
      BY <2>1, <3>1, <3>3 DEF OpenSession, Drop
    <3> QED BY <3>2, <3>3
  <2>4. d2 = dr
    BY <1>7
  <2> HIDE DEF d2, dr
  <2> QED BY <1>3, <1>5, <2>1, <2>2, <2>3, <2>4, AddSessionSound
<1>8. CASE ~same
  <2>1. Sound(d2)
    BY <1>1, <1>2, <1>8, EndSessionSound
  <2> HIDE DEF d2
  <2> QED BY <1>3, <1>5, <2>1, AddSessionSound DEF Sound, Lineage
<1> QED BY <1>7, <1>8

\* Logout ends the session with its app sessions.
LEMMA LogoutSound ==
    ASSUME Inv, NEW h, Logout(h)
    PROVE  Sound(db')
BY EndSessionSound DEF Logout, Inv

\* The device list ends one session with its app sessions.
LEMMA EndOPSessionSound ==
    ASSUME Inv, NEW id, NEW offline, EndOPSession(id, offline)
    PROVE  Sound(db')
<1>1. Sound(EndSession(db, id, now))
  BY EndSessionSound DEF Inv
<1> QED BY <1>1, RevokeFamiliesSound DEF EndOPSession

\* Signing out everywhere, or everywhere else, ends them with theirs.
LEMMA EndUserSessionsSound ==
    ASSUME Inv, NEW u, NEW keep, NEW offline, EndUserSessions(u, keep, offline)
    PROVE  Sound(db')
<1>1. Sound(EndSessions(db, SessionsOf(db, u) \ {keep}, now))
  BY EndSessionsSound DEF Inv
<1> QED BY <1>1, RevokeAccessTokensSound DEF EndUserSessions

\* Ending an app session leaves its OP session alone.
LEMMA EndAppSessionSound ==
    ASSUME Inv, NEW a, NEW offline, EndAppSession(a, offline)
    PROVE  Sound(db')
<1>1. Sound(EndAppSessions(db, {a}, now))
  BY EndAppSessionsSound DEF Inv, Sound
<1> QED BY <1>1, RevokeFamiliesSound DEF EndAppSession

\* Revoking transactions and codes.
LEMMA RevokeTxnsCodesSound ==
    ASSUME NEW d, Sound(d), NEW X, NEW K
    PROVE  Sound([d EXCEPT !.txns = Revoke(d.txns, X), !.codes = Revoke(d.codes, K)])
BY SetTxnsCodes, RevokeGrants DEF Sound

\* A consent marked revoked is a consent.
LEMMA ConsentRecord ==
    ASSUME NEW d, Sound(d), NEW w \in DOMAIN d.consents
    PROVE  [d.consents[w] EXCEPT !.revoked = TRUE] \in Consent
<1>1. d.consents[w] \in Consent
  BY DEF Sound, StoreOK, IsMap
<1> QED BY <1>1 DEF Consent

\* The user withdraws an application's access.
LEMMA EndClientAccessSound ==
    ASSUME Inv, NEW u \in Users, NEW c \in Clients, EndClientAccess(u, c)
    PROVE  Sound(db')
<1> DEFINE mine(m) == {x \in DOMAIN m : m[x].user = u /\ m[x].client = c}
           d1 == SaveConsent(db, u, c, [db.consents[<<u, c>>] EXCEPT !.revoked = TRUE], now)
           d2 == [d1 EXCEPT !.txns = Revoke(d1.txns, mine(d1.txns)),
                            !.codes = Revoke(d1.codes, mine(d1.codes))]
           d3 == EndAppSessions(d2, mine(d2.apps), now)
<1>1. Sound(d1)
  BY SaveConsentSound, ConsentRecord DEF Inv, EndClientAccess
<1>2. db' = [d3 EXCEPT !.tokens = Revoke(d3.tokens, mine(d3.tokens))]
  BY DEF EndClientAccess
<1> HIDE DEF d1
<1>3. Sound(d2)
  BY <1>1, RevokeTxnsCodesSound
<1> HIDE DEF d2
<1>4. Sound(d3)
  BY <1>3, EndAppSessionsSound DEF Sound, Inv
<1> HIDE DEF d3
<1> QED BY <1>2, <1>4, RevokeTokensSound

\* The maintenance sweep.
LEMMA SweepSound ==
    ASSUME Inv, Sweep
    PROVE  Sound(db')
BY PruneLogoutStateSound DEF Inv, Sweep

\* Every session step keeps the store sound.
LEMMA SessionStepSound ==
    ASSUME Inv, SessionStep
    PROVE  Sound(db')
<1>1. ASSUME NEW u \in Users, NEW cred \in Creds(u), NEW old, NEW at \in ReadTimes,
             Login(u, cred, old, at)
      PROVE  Sound(db')
  <2>1. cred \in Nat
    BY <1>1 DEF Creds, Inv, Sound, StoreOK, IsMap, User
  <2> QED BY <1>1, <2>1, LoginSound
<1> QED
  BY <1>1, LogoutSound, EndOPSessionSound, EndUserSessionsSound, EndAppSessionSound,
     EndClientAccessSound, SweepSound DEF SessionStep

(***************************************************************************)
(* /authorize and its continuation.                                        *)
(***************************************************************************)
\* /authorize saves a transaction.
LEMMA AuthorizeSound ==
    ASSUME Inv, NEW c \in Clients, NEW rev \in ReadRevs(c), NEW s \in DOMAIN db.sessions \cup {0},
           NEW login \in BOOLEAN, NEW scopes \in SUBSET Scopes, NEW prompt \in BOOLEAN,
           NEW maxAge \in MaxAges, NEW at \in ReadTimes,
           Authorize(c, rev, s, login, scopes, prompt, maxAge, at)
    PROVE  Sound(db')
<1> DEFINE known == s # 0 /\ ~login /\ SessionFresh(db.sessions[s], maxAge, at)
           op == IF known THEN db.sessions[s].id ELSE 0
           us == IF known THEN db.sessions[s].user ELSE 0
           re == IF known THEN 0 ELSE at
           v  == [op |-> op, client |-> c, user |-> us, rev |-> rev, scopes |-> scopes,
                  prompt |-> prompt, maxAge |-> maxAge, reauth |-> re, created |-> at,
                  exp |-> at + TransactionTTL, revoked |-> FALSE, consumed |-> FALSE]
<1>1. at \in Nat \ {0} /\ TransactionTTL \in Nat /\ maxAge \in Int
  BY ReadTimesAreTimes, Lifetimes
<1>2. rev \in Nat
  BY DEF ReadRevs, Inv, Sound, StoreOK, IsMap, Client
<1>3. op \in Id /\ us \in Users \cup {0}
  <2>1. s # 0 => db.sessions[s] \in Session
    BY DEF Inv, Sound, StoreOK, IsMap
  <2> QED BY <2>1 DEF Session, Id
<1>4. db' = AddTxn(PruneOIDCState(db, at), v)
  BY DEF Authorize
<1>5. re \in Nat
  BY <1>1
<1> HIDE DEF op, us, re
<1>6. v \in AuthzTransaction
  BY <1>1, <1>2, <1>3, <1>5 DEF AuthzTransaction, Time
<1> QED BY <1>4, <1>6, PruneOIDCStateSound, AddGrantsSound DEF Inv

\* A code minted for a live session of an active user is well formed.
LEMMA MintCodeSound ==
    ASSUME NEW d, Sound(d), now \in Nat, NEW txn \in Id, NEW u, NEW c \in Clients, NEW rev,
           NEW h, NEW scopes \in SUBSET Scopes, MayMint(d, u, c, rev, h)
    PROVE  Sound(MintCode(d, txn, u, c, h, scopes))
<1>1. d.sessions[h] \in Session
  BY DEF MayMint, LiveSession, Sound, StoreOK, IsMap
<1>2. d.clients[c] \in Client /\ u \in Users
  BY DEF MayMint, UserActive, Sound, StoreOK, IsMap
<1>3. CodeTTL \in Nat
  BY Lifetimes
<1> DEFINE v == [txn |-> txn, op |-> d.sessions[h].id, client |-> c, user |-> u,
                 rev |-> d.clients[c].rev, scopes |-> scopes, auth |-> d.sessions[h].auth,
                 exp |-> now + CodeTTL, retain |-> 0, revoked |-> FALSE,
                 consumed |-> FALSE, cred |-> d.sessions[h].cred]
<1>4. v \in AuthorizationCode
  BY <1>1, <1>2, <1>3 DEF Session, Client, AuthorizationCode, Time, Id
<1>5. MintCode(d, txn, u, c, h, scopes) = AddCode(PruneOIDCState(d, now), v)
  BY DEF MintCode
<1> QED BY <1>4, <1>5, PruneOIDCStateSound, AddGrantsSound

\* prompt=none issues a code under an open session.
LEMMA AuthorizeSilentlySound ==
    ASSUME Inv, NEW c \in Clients, NEW rev, NEW h, NEW scopes \in SUBSET Scopes, NEW maxAge,
           AuthorizeSilently(c, rev, h, scopes, maxAge)
    PROVE  Sound(db')
BY MintCodeSound DEF AuthorizeSilently, Inv, Id

\* Saving a transaction.
LEMMA SaveTxnSound ==
    ASSUME NEW d, Sound(d), NEW x \in Id \ {0}, NEW t \in AuthzTransaction
    PROVE  Sound(SaveTxn(d, x, t))
<1>1. IsMap(Put(d.txns, x, t), Id \ {0}, AuthzTransaction)
  BY PutMap DEF Sound, StoreOK
<1> QED BY <1>1, SetTxns DEF SaveTxn

\* What a continuation knows once MayContinue holds.
LEMMA ClaimedTxn ==
    ASSUME Inv, NEW x, NEW h, MayContinue(db, x, h)
    PROVE  LET t == Claimed(db, x, h) IN
           /\ x \in Id \ {0}
           /\ t \in AuthzTransaction
           /\ [t EXCEPT !.consumed = TRUE] \in AuthzTransaction
           /\ t.user \in Users /\ t.client \in Clients /\ t.rev \in Nat
           /\ t.scopes \in SUBSET Scopes
<1>1. x \in Id \ {0} /\ db.txns[x] \in AuthzTransaction
  BY DEF MayContinue, Inv, Sound, StoreOK, IsMap
<1>2. db.sessions[h] \in Session
  BY DEF MayContinue, LiveSession, Inv, Sound, StoreOK, IsMap
<1>3. db.sessions[h].user \in Users /\ db.sessions[h].id \in Id
  BY <1>2 DEF Session
<1> DEFINE t == Claimed(db, x, h)
<1>4. t \in AuthzTransaction /\ t.user \in Users
  BY <1>1, <1>3 DEF Claimed, AuthzTransaction
<1> HIDE DEF t
<1>5. /\ [t EXCEPT !.consumed = TRUE] \in AuthzTransaction
      /\ t.client \in Clients /\ t.rev \in Nat /\ t.scopes \in SUBSET Scopes
  BY <1>4 DEF AuthzTransaction
<1> QED BY <1>1, <1>4, <1>5 DEF t

\* Every way an interaction continues: consent screen, code, approval, denial.
LEMMA ContinueSound ==
    ASSUME Inv, NEW x, NEW h,
           \/ AskConsent(x, h)
           \/ CompleteCovered(x, h)
           \/ \E approved \in SUBSET Scopes : Approve(x, h, approved)
           \/ Deny(x, h)
    PROVE  Sound(db')
<1> DEFINE t == Claimed(db, x, h)
           u == [t EXCEPT !.consumed = TRUE]
<1>1. MayContinue(db, x, h)
  BY DEF AskConsent, CompleteCovered, Approve, Deny
<1>2. /\ x \in Id \ {0} /\ t \in AuthzTransaction /\ u \in AuthzTransaction
      /\ t.user \in Users /\ t.client \in Clients /\ t.rev \in Nat
      /\ t.scopes \in SUBSET Scopes
  BY <1>1, ClaimedTxn
<1>3. CASE AskConsent(x, h)
  BY <1>2, <1>3, SaveTxnSound DEF AskConsent, Inv
<1>4. CASE Deny(x, h)
  BY <1>2, <1>4, SaveTxnSound DEF Deny, Inv
<1>5. CASE CompleteCovered(x, h)
  <2>1. /\ MayMint(db, t.user, t.client, t.rev, h)
        /\ db' = SaveTxn(MintCode(db, x, t.user, t.client, h, t.scopes), x, u)
    BY <1>5 DEF CompleteCovered
  <2> HIDE DEF t, u
  <2>2. Sound(MintCode(db, x, t.user, t.client, h, t.scopes))
    BY <1>2, <2>1, MintCodeSound DEF Inv
  <2> QED BY <1>2, <2>1, <2>2, SaveTxnSound
<1>6. CASE \E approved \in SUBSET Scopes : Approve(x, h, approved)
  <2>1. PICK approved \in SUBSET Scopes : Approve(x, h, approved)
    BY <1>6
  <2> DEFINE g  == t.scopes \cap approved
             w  == [scopes |-> g, rev |-> t.rev, revoked |-> FALSE]
             d1 == SaveConsent(db, t.user, t.client, w, now)
  <2>2. /\ MayMint(d1, t.user, t.client, t.rev, h)
        /\ db' = SaveTxn(MintCode(d1, x, t.user, t.client, h, g), x, u)
    BY <2>1 DEF Approve
  <2> HIDE DEF t, u
  <2>3. g \in SUBSET Scopes /\ w \in Consent
    BY <1>2 DEF Consent
  <2> HIDE DEF g, w
  <2>4. Sound(d1)
    BY <1>2, <2>3, SaveConsentSound DEF Inv
  <2> HIDE DEF d1
  <2>5. Sound(MintCode(d1, x, t.user, t.client, h, g))
    BY <1>2, <2>2, <2>3, <2>4, MintCodeSound DEF Inv
  <2> QED BY <1>2, <2>2, <2>5, SaveTxnSound
<1> QED BY <1>3, <1>4, <1>5, <1>6

\* Every authorization step keeps the store sound.
LEMMA AuthorizeStepSound ==
    ASSUME Inv, AuthorizeStep
    PROVE  Sound(db')
BY AuthorizeSound, AuthorizeSilentlySound, ContinueSound DEF AuthorizeStep

(***************************************************************************)
(* Account, client, policy and access changes.                             *)
(***************************************************************************)
\* A changed password or e-mail address leaves an account an account.
LEMMA UserRecord ==
    ASSUME Inv, NEW u \in DOMAIN db.users
    PROVE  u \in Users /\ db.users[u] \in User /\ NewCred(u) \in User
<1>1. u \in Users /\ db.users[u] \in User
  BY DEF Inv, Sound, StoreOK, IsMap
<1> QED BY <1>1 DEF NewCred, User

\* An administrator changes an account.
LEMMA UpdateUserSound ==
    ASSUME Inv, NEW u \in Users, NEW cred \in Nat, NEW active \in BOOLEAN, NEW role \in Roles,
           UpdateUser(u, cred, active, role)
    PROVE  Sound(db')
<1> DEFINE new == [cred |-> cred, active |-> active, role |-> role]
           d1  == IF new # db.users[u] THEN DeleteUserSessions(db, u, now) ELSE db
<1>1. new \in User
  BY DEF User
<1>2. Sound(d1)
  BY DeleteUserSessionsSound DEF Inv
<1>3. db' = SaveUser(d1, u, new, now)
  BY DEF UpdateUser
<1> HIDE DEF new, d1
<1> QED BY <1>1, <1>2, <1>3, SaveUserSound DEF Inv

\* A user changes the e-mail address or the password.
LEMMA CredentialsSound ==
    ASSUME Inv, NEW h, NEW cred, UpdateProfile(h) \/ ChangePassword(h, cred)
    PROVE  Sound(db')
<1> DEFINE u == db.sessions[h].user
           e == SaveUser(db, u, NewCred(u), now)
<1>1. u \in DOMAIN db.users
  BY DEF UpdateProfile, ChangePassword, Principal, UserActive
<1>2. Sound(e)
  BY <1>1, UserRecord, SaveUserSound DEF Inv
<1>3. db' = e \/ db' = DeleteUserSessions(e, u, now)
  BY DEF UpdateProfile, ChangePassword
<1> HIDE DEF e, u
<1> QED BY <1>2, <1>3, DeleteUserSessionsSound DEF Inv

\* Every administration step keeps the store sound.
LEMMA AdminStepSound ==
    ASSUME Inv, AdminStep
    PROVE  Sound(db')
<1>0. MaxRev \in Nat
  BY ProviderAssumption DEF ProviderAssumption
<1>1. ASSUME NEW u \in Users, NEW cred \in 0..MaxRev, NEW active \in BOOLEAN, NEW role \in Roles,
             UpdateUser(u, cred, active, role)
      PROVE  Sound(db')
  BY <1>0, <1>1, UpdateUserSound
<1>2. ASSUME NEW u \in Users, RemoveUser(u) PROVE Sound(db')
  BY <1>2, DeleteUserSound DEF RemoveUser, Inv
<1>3. ASSUME NEW u \in Users, NEW allowed \in BOOLEAN, SetOAuthAccess(u, allowed)
      PROVE  Sound(db')
  BY <1>3, SaveOAuthAccessSound DEF SetOAuthAccess, Inv
<1>4. ASSUME NEW h, NEW cred, UpdateProfile(h) \/ ChangePassword(h, cred) PROVE Sound(db')
  BY <1>4, CredentialsSound
<1>5. ASSUME NEW c \in Clients, UpdateClient(c) PROVE Sound(db')
  BY <1>5, SaveClientSound DEF UpdateClient, Inv
<1>6. ASSUME NEW c \in Clients, RemoveClient(c) PROVE Sound(db')
  BY <1>6, DeleteClientSound DEF RemoveClient, Inv
<1>7. ASSUME NEW c \in Clients, NEW p \in SUBSET PolicyGrants, SetOAuthPolicy(c, p)
      PROVE  Sound(db')
  BY <1>7, SaveOAuthPolicySound DEF SetOAuthPolicy, Inv
<1> QED BY <1>1, <1>2, <1>3, <1>4, <1>5, <1>6, <1>7 DEF AdminStep

(***************************************************************************)
(* /token and /revoke.                                                     *)
(***************************************************************************)
\* The code exchange joins or opens an app session under a session it rechecked.
LEMMA ExchangeCodeSound ==
    ASSUME Inv, NEW k, NEW c \in Clients, NEW snap, ExchangeCode(k, c, snap)
    PROVE  Sound(db')
<1> DEFINE code == db.codes[k]
           d1   == JoinApp(db, code)
           live == LiveApps(d1, code.op, c)
           app  == IF code.op = 0 THEN 0 ELSE CHOOSE a \in live : TRUE
           off  == Offline \in code.scopes
           f    == NewFamily(code, k, app)
           fid  == IF off THEN d1.next["family"] ELSE 0
           d2   == IF off THEN InitialRefresh(d1, f) ELSE d1
           used == [code EXCEPT !.consumed = TRUE, !.retain = CodeRetain(off)]
           tok  == [op |-> code.op, app |-> app, family |-> fid, code |-> k,
                    client |-> c, user |-> code.user, grant |-> "authorization_code",
                    scopes |-> code.scopes, rev |-> db.clients[c].rev,
                    exp |-> now + AccessTokenTTL, revoked |-> FALSE,
                    cred |-> code.cred, snap |-> snap]
           d3   == [d2 EXCEPT !.codes = Put(d2.codes, k, used)]
<1>1. /\ k \in Id \ {0} /\ code \in AuthorizationCode /\ code.client = c
      /\ snap \in Nat /\ db.clients[c].rev \in Nat /\ now \in Nat
      /\ code.op # 0 => OpenSession(db, code.op)
      /\ db' = PruneOIDCState(AddToken(d3, tok), now)
  <2>1. k \in Id \ {0} /\ code \in AuthorizationCode /\ now \in Nat
    BY DEF ExchangeCode, BoundCode, Inv, Sound, StoreOK, IsMap
  <2>2. db.clients[c] \in Client /\ db.clients[c].rev = snap /\ code.client = c
    BY DEF ExchangeCode, BoundCode, Inv, Sound, StoreOK, IsMap
  <2>3. code.op # 0 => OpenSession(db, code.op)
    BY DEF ExchangeCode, SessionActive, OpenSession
  <2>4. db' = PruneOIDCState(AddToken(d3, tok), now)
    BY DEF ExchangeCode
  <2> QED BY <2>1, <2>2, <2>3, <2>4 DEF Client
<1>2. /\ code.op \in Id /\ code.user \in Users /\ code.scopes \in SUBSET Scopes
      /\ code.rev \in Nat /\ code.cred \in Nat
  BY <1>1 DEF AuthorizationCode
<1>3. /\ AccessTokenTTL \in Nat /\ RefreshMaxTTL \in Nat /\ RefreshInactivityTTL \in Nat
      /\ FamilyRetain \in Nat /\ CodeRetain(off) \in Nat
  BY <1>1, Lifetimes DEF FamilyRetain, CodeRetain
<1>4. used \in AuthorizationCode
  BY <1>1, <1>3 DEF AuthorizationCode, Time
<1>5. Sound(d1) /\ (code.op # 0 => live # {})
  <2> DEFINE v == [op |-> code.op, client |-> code.client, user |-> code.user, ended |-> 0]
  <2>1. v \in AppSession /\ v.op = code.op /\ v.client = code.client /\ v.ended = 0
    BY <1>1, <1>2 DEF AppSession, Time
  <2> HIDE DEF v
  <2>2. CASE code.op = 0 \/ LiveApps(db, code.op, code.client) # {}
    BY <1>1, <2>2 DEF JoinApp, Inv
  <2>3. CASE ~(code.op = 0 \/ LiveApps(db, code.op, code.client) # {})
    <3>1. d1 = AddApp(db, v)
      BY <2>3 DEF JoinApp, NewApp, v
    <3>2. Sound(AddApp(db, v))
      BY <1>1, <2>1, <2>3, AddAppSound DEF Inv
    <3>3. AddApp(db, v).apps = Put(db.apps, db.next["app"], v)
      BY DEF AddApp, Draw, Inv, Sound, StoreOK
    <3>4. db.next["app"] \in LiveApps(AddApp(db, v), code.op, c)
      BY <1>1, <2>1, <3>3 DEF LiveApps, Put
    <3> QED BY <3>1, <3>2, <3>4
  <2> QED BY <2>2, <2>3
<1>6. app \in Id
  <2>1. live \subseteq Id
    BY <1>5 DEF LiveApps, Sound, StoreOK, IsMap
  <2> QED BY <1>5, <2>1 DEF Id
<1> HIDE DEF code, d1, app
<1>7. fid \in Id
  BY <1>5 DEF Sound, StoreOK, Kinds, Id
<1> HIDE DEF fid
<1>8. tok \in AccessToken
  BY <1>1, <1>2, <1>3, <1>6, <1>7 DEF AccessToken, Time, Id
<1> HIDE DEF tok, used
<1>9. Sound(d2)
  <2>1. f \in RefreshFamily
    BY <1>1, <1>2, <1>3, <1>6 DEF NewFamily, RefreshFamily, Time, Id, AuthorizationCode
  <2>2. f.scopes \in SUBSET Scopes /\ d1.next["family"] \in Id
    BY <1>5, <2>1 DEF RefreshFamily, Sound, StoreOK, Kinds, Id
  <2> HIDE DEF f
  <2>3. [family |-> d1.next["family"], scopes |-> f.scopes, consumed |-> FALSE] \in RefreshToken
    BY <2>2 DEF RefreshToken
  <2>4. Sound(InitialRefresh(d1, f))
    BY <1>5, <2>1, <2>3, AddGrantsSound DEF InitialRefresh
  <2> QED BY <1>5, <2>4
<1> HIDE DEF d2
<1>10. Sound(d3)
  <2>1. IsMap(Put(d2.codes, k, used), Id \ {0}, AuthorizationCode)
    BY <1>1, <1>4, <1>9, PutMap DEF Sound, StoreOK
  <2> QED BY <1>9, <2>1, SetCodes
<1> HIDE DEF d3
<1> QED BY <1>1, <1>8, <1>10, AddGrantsSound, PruneOIDCStateSound

\* A family whose inactivity deadline moves is still one.
LEMMA IdleMoved ==
    ASSUME NEW f \in RefreshFamily, NEW t \in Time
    PROVE  [f EXCEPT !.idle = t] \in RefreshFamily
BY DEF RefreshFamily

\* The access token a rotation issues takes its owner from the family.
LEMMA RotatedToken ==
    ASSUME NEW f \in RefreshFamily, NEW id \in Id, NEW c \in Clients,
           NEW scopes \in SUBSET Scopes, NEW rev \in Nat, NEW t \in Time, NEW snap \in Nat
    PROVE  [op |-> f.op, app |-> f.app, family |-> id, code |-> f.code,
            client |-> c, user |-> f.user, grant |-> "refresh_token",
            scopes |-> scopes, rev |-> rev, exp |-> t, revoked |-> FALSE, cred |-> f.cred,
            snap |-> snap] \in AccessToken
BY DEF AccessToken, RefreshFamily

\* Refresh rotation.
LEMMA RotateSound ==
    ASSUME Inv, NEW r, NEW c \in Clients, NEW snap, NEW scopes \in SUBSET Scopes,
           Rotate(r, c, snap, scopes)
    PROVE  Sound(db')
<1> DEFINE old == db.refresh[r]
           f   == db.families[old.family]
           f2  == [f EXCEPT !.idle = Lesser(now + RefreshInactivityTTL, f.abs)]
           re  == Spend(db.refresh, r)
           fa  == Put(db.families, old.family, f2)
           d1  == [db EXCEPT !.refresh = re, !.families = fa]
           nr  == [family |-> old.family, scopes |-> scopes, consumed |-> FALSE]
           d2  == AddRefresh(d1, nr)
           tok == [op |-> f.op, app |-> f.app, family |-> old.family, code |-> f.code,
                   client |-> c, user |-> f.user, grant |-> "refresh_token",
                   scopes |-> scopes, rev |-> db.clients[c].rev,
                   exp |-> now + AccessTokenTTL, revoked |-> FALSE, cred |-> f.cred,
                   snap |-> snap]
<1>1. /\ r \in Id \ {0} /\ old \in RefreshToken /\ old.family \in Id \ {0}
      /\ f \in RefreshFamily /\ snap \in Nat /\ db.clients[c].rev \in Nat /\ now \in Nat
      /\ r \in DOMAIN db.refresh
      /\ db' = PruneOIDCState(AddToken(d2, tok), now)
  <2>1. r \in Id \ {0} /\ old \in RefreshToken /\ now \in Nat /\ r \in DOMAIN db.refresh
    BY DEF Rotate, BoundRefresh, Inv, Sound, StoreOK, IsMap
  <2>2. old.family \in Id \ {0} /\ f \in RefreshFamily
    BY DEF Rotate, BoundRefresh, Inv, Sound, StoreOK, IsMap
  <2>3. db.clients[c] \in Client /\ db.clients[c].rev = snap
    BY DEF Rotate, BoundRefresh, Inv, Sound, StoreOK, IsMap
  <2>4. db' = PruneOIDCState(AddToken(d2, tok), now)
    BY DEF Rotate
  <2> QED BY <2>1, <2>2, <2>3, <2>4 DEF Client
<1>2. AccessTokenTTL \in Nat /\ RefreshInactivityTTL \in Nat
  BY Lifetimes
<1>3. f2 \in RefreshFamily
  <2>1. f.abs \in Nat
    BY <1>1 DEF RefreshFamily, Time
  <2>2. Lesser(now + RefreshInactivityTTL, f.abs) \in Time
    <3> HIDE DEF f
    <3> QED BY <1>1, <1>2, <2>1 DEF Lesser, Time
  <2> HIDE DEF f
  <2> QED BY <1>1, <2>2, IdleMoved
<1>4. [old EXCEPT !.consumed = TRUE] \in RefreshToken
  BY <1>1 DEF RefreshToken
<1>5. nr \in RefreshToken
  BY <1>1 DEF RefreshToken
<1>6. tok \in AccessToken
  <2>1. now + AccessTokenTTL \in Time
    BY SMTT(30), <1>1, <1>2 DEF Time
  <2>2. old.family \in Id
    BY <1>1
  <2> HIDE DEF f, old
  <2> QED BY <1>1, <2>1, <2>2, RotatedToken
<1>7. /\ IsMap(re, Id \ {0}, RefreshToken)
      /\ IsMap(fa, Id \ {0}, RefreshFamily)
  BY <1>1, <1>3, <1>4, PutMap DEF Spend, Inv, Sound, StoreOK
<1> HIDE DEF re, fa, nr, tok
<1>8. Sound(d1)
  <2> DEFINE e == [db EXCEPT !.refresh = re]
  <2>1. Sound(e)
    BY <1>7, SetRefresh DEF Inv
  <2>2. Sound([e EXCEPT !.families = fa])
    <3> HIDE DEF e
    <3> QED BY <1>7, <2>1, SetFamilies
  <2>3. [e EXCEPT !.families = fa] = d1
    OBVIOUS
  <2> QED BY <2>2, <2>3
<1> HIDE DEF d1
<1>9. Sound(d2)
  BY <1>5, <1>8, AddGrantsSound
<1> HIDE DEF d2
<1> QED BY <1>1, <1>6, <1>9, AddGrantsSound, PruneOIDCStateSound

\* The password and client-credentials grants.
LEMMA IssueResourceTokenSound ==
    ASSUME Inv, NEW c \in Clients, NEW grant \in {"password", "client_credentials"},
           NEW u \in Users \cup {0}, NEW cred \in Nat, NEW snap,
           IssueResourceToken(c, grant, u, cred, snap)
    PROVE  Sound(db')
<1> DEFINE tok == [op |-> 0, app |-> 0, family |-> 0, code |-> 0, client |-> c, user |-> u,
                   grant |-> grant, scopes |-> {}, rev |-> db.clients[c].rev,
                   exp |-> now + AccessTokenTTL, revoked |-> FALSE, cred |-> cred,
                   snap |-> snap]
<1>1. db.clients[c] \in Client /\ db.clients[c].rev = snap /\ now \in Nat
  BY DEF IssueResourceToken, MayIssue, Inv, Sound, StoreOK, IsMap
<1>2. tok \in AccessToken
  BY <1>1, Lifetimes DEF AccessToken, Client, Id, Time
<1>3. db' = PruneOIDCState(AddToken(db, tok), now)
  BY DEF IssueResourceToken
<1> HIDE DEF tok
<1> QED BY <1>2, <1>3, AddGrantsSound, PruneOIDCStateSound DEF Inv

\* Every token endpoint step keeps the store sound.
LEMMA TokenStepSound ==
    ASSUME Inv, TokenStep
    PROVE  Sound(db')
<1>1. PICK c \in Clients : \E snap \in ReadRevs(c) : TokenRequest(c, snap)
  BY DEF TokenStep
<1>8. PICK snap \in ReadRevs(c) : TokenRequest(c, snap)
  BY <1>1
<1>2. ASSUME NEW k, ExchangeCode(k, c, snap) \/ ReplayCode(k, c, snap) PROVE Sound(db')
  BY <1>2, ExchangeCodeSound, RevokeAccessTokensSound DEF ReplayCode, Inv
<1>3. ASSUME NEW r, NEW scopes \in SUBSET Scopes, Rotate(r, c, snap, scopes) PROVE Sound(db')
  BY <1>3, RotateSound
<1>4. ASSUME NEW r, ReplayRefresh(r, c, snap) \/ RevokeRefresh(r, c, snap) PROVE Sound(db')
  BY <1>4, RevokeRefreshFamilySound DEF ReplayRefresh, RevokeRefresh, Inv
<1>5. ASSUME NEW u \in Users, NEW cred \in Creds(u),
             IssueResourceToken(c, "password", u, cred, snap)
      PROVE  Sound(db')
  <2>1. cred \in Nat
    BY DEF Creds, Inv, Sound, StoreOK, IsMap, User
  <2> QED BY <1>5, <2>1, IssueResourceTokenSound
<1>6. ASSUME IssueResourceToken(c, "client_credentials", 0, 0, snap) PROVE Sound(db')
  BY <1>6, IssueResourceTokenSound
<1>7. ASSUME NEW k, RevokeToken(k, c, snap) PROVE Sound(db')
  BY <1>7, RevokeAccessTokensSound DEF RevokeToken, Inv
<1> QED BY <1>8, <1>2, <1>3, <1>4, <1>5, <1>6, <1>7 DEF TokenRequest

(***************************************************************************)
(* The activity page.                                                      *)
(***************************************************************************)
\* revokeCode, on a set of codes.
LEMMA RevokeCodesSound ==
    ASSUME NEW d, Sound(d), NEW K
    PROVE  Sound(RevokeCodes(d, K))
<1> DEFINE A  == ActiveCodes(d, K)
           co == Revoke(d.codes, A)
           to == Revoke(d.tokens, {t \in DOMAIN d.tokens :
                     d.tokens[t].code \in A /\ now < d.tokens[t].exp})
           e  == [d EXCEPT !.codes = co]
<1>1. IsMap(co, Id \ {0}, AuthorizationCode) /\ IsMap(to, Id \ {0}, AccessToken)
  BY RevokeGrants DEF Sound
<1>2. RevokeCodes(d, K) = [d EXCEPT !.codes = co, !.tokens = to]
  BY DEF RevokeCodes
<1> HIDE DEF co, to
<1>3. Sound(e)
  BY <1>1, SetCodes
<1>4. Sound([e EXCEPT !.tokens = to])
  <2> HIDE DEF e
  <2> QED BY <1>1, <1>3, SetTokens
<1>5. [e EXCEPT !.tokens = to] = [d EXCEPT !.codes = co, !.tokens = to]
  OBVIOUS
<1> QED BY <1>2, <1>4, <1>5

\* Revoking transactions.
LEMMA RevokeTxnsSound ==
    ASSUME NEW d, Sound(d), NEW X
    PROVE  Sound([d EXCEPT !.txns = Revoke(d.txns, X)])
BY SetTxns, RevokeGrants DEF Sound

\* The activity page revokes a consent.
LEMMA RevokeActiveConsentSound ==
    ASSUME Inv, NEW u \in Users, NEW c \in Clients, RevokeActiveConsent(u, c)
    PROVE  Sound(db')
<1> DEFINE own == db.consents[<<u, c>>]
           d1  == SaveConsent(db, u, c, [own EXCEPT !.revoked = TRUE], now)
           mine(m) == {x \in DOMAIN m : m[x].user = u /\ m[x].client = c}
           dx  == [d1 EXCEPT !.txns = Revoke(d1.txns, {x \in mine(d1.txns) : ActiveTxn(d1, x)})]
           d2  == RevokeCodes(dx, mine(d1.codes))
<1>1. Sound(d1)
  BY SaveConsentSound, ConsentRecord DEF Inv, RevokeActiveConsent
<1>2. db' = [d2 EXCEPT !.tokens = Revoke(d2.tokens,
                     {k \in mine(d2.tokens) : now < d2.tokens[k].exp})]
  BY DEF RevokeActiveConsent
<1> HIDE DEF d1
<1>3. Sound(dx)
  BY <1>1, RevokeTxnsSound
<1> HIDE DEF dx
<1>4. Sound(d2)
  BY <1>3, RevokeCodesSound
<1> HIDE DEF d2
<1> QED BY <1>2, <1>4, RevokeTokensSound

\* Every step of the activity page keeps the store sound.
LEMMA ActivityStepSound ==
    ASSUME Inv, ActivityStep
    PROVE  Sound(db')
<1>1. ASSUME NEW r, RevokeActiveRefresh(r) PROVE Sound(db')
  BY <1>1, RevokeRefreshFamilySound DEF RevokeActiveRefresh, Inv
<1>2. ASSUME NEW k, RevokeActiveToken(k) PROVE Sound(db')
  BY <1>2, RevokeAccessTokensSound DEF RevokeActiveToken, Inv
<1>3. ASSUME NEW k, RevokeActiveCode(k) PROVE Sound(db')
  BY <1>3, RevokeCodesSound DEF RevokeActiveCode, Inv
<1>4. ASSUME NEW x, RevokeActiveTxn(x) PROVE Sound(db')
  BY <1>4, RevokeTxnsSound, RevokeCodesSound DEF RevokeActiveTxn, Inv
<1> QED BY <1>1, <1>2, <1>3, <1>4, RevokeActiveConsentSound DEF ActivityStep

(***************************************************************************)
(* The theorems.                                                           *)
(***************************************************************************)
\* The empty store is sound.
LEMMA InitInv == Init => Inv
<1> SUFFICES ASSUME Init PROVE Inv
  OBVIOUS
<1>1. PICK r \in [Users -> Roles] :
         db = [users |-> [u \in Users |-> [cred |-> 0, active |-> TRUE, role |-> r[u]]],
               clients |-> [c \in Clients |-> [rev |-> 0]],
               policy |-> [c \in Clients |-> PolicyGrants],
               access |-> [u \in Users |-> TRUE],
               sessions |-> <<>>, apps |-> <<>>, txns |-> <<>>, codes |-> <<>>,
               tokens |-> <<>>, families |-> <<>>, refresh |-> <<>>,
               consents |-> <<>>,
               next |-> [k \in Kinds |-> 1]]
  BY DEF Init
<1>2. \A K, V : IsMap(<<>>, K, V)
  BY DEF IsMap
<1>3. /\ IsMap([u \in Users |-> [cred |-> 0, active |-> TRUE, role |-> r[u]]], Users, User)
      /\ IsMap([c \in Clients |-> [rev |-> 0]], Clients, Client)
  BY DEF IsMap, User, Client
<1>4. StoreOK(db)
  BY <1>1, <1>2, <1>3 DEF StoreOK
<1>5. Lineage(db) /\ KeysDrawn(db)
  BY <1>1 DEF Lineage, KeysDrawn
<1>6. now = 1
  BY DEF Init
<1> QED BY <1>4, <1>5, <1>6 DEF Inv, Sound

\* Only the clock's own step moves the clock.
LEMMA ClockStands ==
    ASSUME SessionStep \/ AuthorizeStep \/ TokenStep \/ AdminStep \/ ActivityStep
    PROVE  now' = now
<1>1. CASE SessionStep
  <2>1. \A x1, x2, x3, x4 : Login(x1, x2, x3, x4) => now' = now
    BY DEF Login
  <2>2. \A x1 : Logout(x1) => now' = now
    BY DEF Logout
  <2>3. \A x1, x2 : EndOPSession(x1, x2) => now' = now
    BY DEF EndOPSession
  <2>4. \A x1, x2, x3 : EndUserSessions(x1, x2, x3) => now' = now
    BY DEF EndUserSessions
  <2>5. \A x1, x2 : EndAppSession(x1, x2) => now' = now
    BY DEF EndAppSession
  <2>6. ASSUME NEW u, NEW c, EndClientAccess(u, c) PROVE now' = now
    BY <2>6 DEF EndClientAccess
  <2>7. Sweep => now' = now
    BY DEF Sweep
  <2> QED BY <1>1, <2>1, <2>2, <2>3, <2>4, <2>5, <2>6, <2>7 DEF SessionStep
<1>2. CASE AuthorizeStep
  <2>1. \A x1, x2, x3, x4, x5, x6, x7, x8 : Authorize(x1, x2, x3, x4, x5, x6, x7, x8) => now' = now
    BY DEF Authorize
  <2>2. \A x1, x2, x3, x4, x5 : AuthorizeSilently(x1, x2, x3, x4, x5) => now' = now
    BY DEF AuthorizeSilently
  <2>3. \A x1, x2 : AskConsent(x1, x2) => now' = now
    BY DEF AskConsent
  <2>4. \A x1, x2 : CompleteCovered(x1, x2) => now' = now
    BY DEF CompleteCovered
  <2>5. \A x1, x2, x3 : Approve(x1, x2, x3) => now' = now
    BY DEF Approve
  <2>6. \A x1, x2 : Deny(x1, x2) => now' = now
    BY DEF Deny
  <2> QED BY <1>2, <2>1, <2>2, <2>3, <2>4, <2>5, <2>6 DEF AuthorizeStep
<1>3. CASE TokenStep
  <2>1. \A x1, x2, x3 : ExchangeCode(x1, x2, x3) => now' = now
    BY DEF ExchangeCode
  <2>2. \A x1, x2, x3 : ReplayCode(x1, x2, x3) => now' = now
    BY DEF ReplayCode
  <2>3. \A x1, x2, x3, x4 : Rotate(x1, x2, x3, x4) => now' = now
    BY DEF Rotate
  <2>4. \A x1, x2, x3 : ReplayRefresh(x1, x2, x3) => now' = now
    BY DEF ReplayRefresh
  <2>5. \A x1, x2, x3 : RevokeRefresh(x1, x2, x3) => now' = now
    BY DEF RevokeRefresh
  <2>6. \A x1, x2, x3, x4, x5 : IssueResourceToken(x1, x2, x3, x4, x5) => now' = now
    BY DEF IssueResourceToken
  <2>7. \A x1, x2, x3 : RevokeToken(x1, x2, x3) => now' = now
    BY DEF RevokeToken
  <2> QED BY <1>3, <2>1, <2>2, <2>3, <2>4, <2>5, <2>6, <2>7 DEF TokenStep, TokenRequest
<1>4. CASE AdminStep
  <2>1. \A x1, x2, x3, x4 : UpdateUser(x1, x2, x3, x4) => now' = now
    BY DEF UpdateUser
  <2>2. \A x1 : RemoveUser(x1) => now' = now
    BY DEF RemoveUser
  <2>3. \A x1, x2 : SetOAuthAccess(x1, x2) => now' = now
    BY DEF SetOAuthAccess
  <2>4. \A x1 : UpdateProfile(x1) => now' = now
    BY DEF UpdateProfile
  <2>5. \A x1, x2 : ChangePassword(x1, x2) => now' = now
    BY DEF ChangePassword
  <2>6. \A x1 : UpdateClient(x1) => now' = now
    BY DEF UpdateClient
  <2>7. \A x1 : RemoveClient(x1) => now' = now
    BY DEF RemoveClient
  <2>8. \A x1, x2 : SetOAuthPolicy(x1, x2) => now' = now
    BY DEF SetOAuthPolicy
  <2> QED BY <1>4, <2>1, <2>2, <2>3, <2>4, <2>5, <2>6, <2>7, <2>8 DEF AdminStep
<1>5. CASE ActivityStep
  <2>1. \A x1 : RevokeActiveRefresh(x1) => now' = now
    BY DEF RevokeActiveRefresh
  <2>2. \A x1 : RevokeActiveToken(x1) => now' = now
    BY DEF RevokeActiveToken
  <2>3. \A x1 : RevokeActiveCode(x1) => now' = now
    BY DEF RevokeActiveCode
  <2>4. \A x1 : RevokeActiveTxn(x1) => now' = now
    BY DEF RevokeActiveTxn
  <2>5. ASSUME NEW u, NEW c, RevokeActiveConsent(u, c) PROVE now' = now
    BY <2>5 DEF RevokeActiveConsent
  <2> QED BY <1>5, <2>1, <2>2, <2>3, <2>4, <2>5 DEF ActivityStep
<1> QED BY <1>1, <1>2, <1>3, <1>4, <1>5

\* The invariant is inductive.
LEMMA StepInv == Inv /\ [Next]_vars => Inv'
<1> SUFFICES ASSUME Inv, [Next]_vars PROVE Sound(db') /\ now' \in Nat \ {0}
  BY DEF Inv
<1>1. CASE SessionStep
  BY <1>1, ClockStands, SessionStepSound DEF Inv
<1>2. CASE AuthorizeStep
  BY <1>2, ClockStands, AuthorizeStepSound DEF Inv
<1>3. CASE TokenStep
  BY <1>3, ClockStands, TokenStepSound DEF Inv
<1>4. CASE AdminStep
  BY <1>4, ClockStands, AdminStepSound DEF Inv
<1>5. CASE ActivityStep
  BY <1>5, ClockStands, ActivityStepSound DEF Inv
<1>6. CASE Tick
  BY <1>6 DEF Tick, Inv
<1>7. CASE UNCHANGED vars
  BY <1>7 DEF vars, Inv
<1> QED BY <1>1, <1>2, <1>3, <1>4, <1>5, <1>6, <1>7 DEF Next

\* The invariant holds of every reachable state.
LEMMA InvHolds == Spec => []Inv
BY InitInv, StepInv, PTL DEF Spec

\* The store keeps its shape: every record every handler and every cascade
\* leaves behind is of its type.
THEOREM TypeCorrect == Spec => []TypeOK
<1>1. Inv => TypeOK
  BY DEF Inv, Sound, TypeOK
<1> QED BY <1>1, InvHolds, PTL

\* No client stays signed in under an OP session that ended: logout, the
\* device list, expiry, account switch and account changes reach every app
\* session, and no code exchange opens one afterwards.
THEOREM LineageHolds == Spec => []AppSessionLineage
<1>1. Inv => AppSessionLineage
  BY DEF Inv, Sound, AppSessionLineage
<1> QED BY <1>1, InvHolds, PTL

(***************************************************************************)
(* For every set of users, clients and scopes, every choice of lifetimes   *)
(* and every bound: the session records stay within the store's capacity,  *)
(* one cookie at most carries a session ID that is signed in, one app      *)
(* session at most is open per session and client, and a session ID that   *)
(* was signed out is never signed in again.                                *)
(*                                                                         *)
(* All store methods but one addition each do no more to the two maps of   *)
(* session records than end some and drop some: they settle the store.     *)
(* Settling composes, so a handler that only calls such methods settles it *)
(* too, and keeps what the counts say.  Left are the two handlers that add *)
(* a record, Login and the code exchange, each under its own check.        *)
(***************************************************************************)
Fields(d) ==
    d = [users |-> d.users, clients |-> d.clients, policy |-> d.policy,
         access |-> d.access, sessions |-> d.sessions, apps |-> d.apps,
         txns |-> d.txns, codes |-> d.codes, tokens |-> d.tokens,
         families |-> d.families, refresh |-> d.refresh,
         consents |-> d.consents, next |-> d.next]

\* the fields, with the two maps of session records typed
Shape(d) ==
    /\ Fields(d)
    /\ IsMap(d.sessions, Id \ {0}, Session)
    /\ IsMap(d.apps, Id \ {0}, AppSession)
    /\ d.next \in [Kinds -> Nat \ {0}]

\* from m to n records were ended or dropped, and nothing else
OnlyEnds(m, n) ==
    /\ DOMAIN n \subseteq DOMAIN m
    /\ \A x \in DOMAIN n : n[x].ended = 0 => n[x] = m[x]

Settles(d, e) ==
    /\ Shape(e)
    /\ OnlyEnds(d.sessions, e.sessions)
    /\ \A h \in DOMAIN e.sessions : e.sessions[h].id = d.sessions[h].id
    /\ OnlyEnds(d.apps, e.apps)
    /\ e.next["session"] = d.next["session"]

\* session IDs are drawn from next, as credentials are
IdsDrawn(d) == \A h \in DOMAIN d.sessions : d.sessions[h].id < d.next["session"]

OneCookie(d) ==
    \A g, h \in DOMAIN d.sessions :
        d.sessions[g].id = d.sessions[h].id /\ d.sessions[g].ended = 0 => g = h

OneApp(d) ==
    \A a, b \in DOMAIN d.apps :
        /\ d.apps[a].ended = 0 /\ d.apps[b].ended = 0
        /\ d.apps[a].op = d.apps[b].op /\ d.apps[a].client = d.apps[b].client
        => a = b

Within(S, n) == IsFiniteSet(S) /\ Cardinality(S) <= n

Tally(d) ==
    /\ IdsDrawn(d) /\ OneCookie(d) /\ OneApp(d)
    /\ Within(DOMAIN d.sessions, SessionCapacity)
    /\ Within(DOMAIN d.apps, AppCapacity)

(***************************************************************************)
(* Settling.                                                               *)
(***************************************************************************)
\* A sound store has the shape.
LEMMA SoundShape == ASSUME NEW d, Sound(d) PROVE Shape(d)
BY DEF Sound, StoreOK, Shape, Fields

\* A method that leaves the session records alone settles the store.
LEMMA Untouched ==
    ASSUME NEW d, Shape(d), NEW e, Fields(e),
           e.sessions = d.sessions, e.apps = d.apps,
           e.next \in [Kinds -> Nat \ {0}], e.next["session"] = d.next["session"]
    PROVE  Settles(d, e)
BY DEF Shape, Settles, OnlyEnds

\* Doing nothing settles the store.
LEMMA SettlesSelf == ASSUME NEW d, Shape(d) PROVE Settles(d, d)
BY DEF Shape, Settles, OnlyEnds

\* A settled store has the shape.
LEMMA SettlesShape == ASSUME NEW d, NEW e, Settles(d, e) PROVE Shape(e)
BY DEF Settles

\* One method after another.
LEMMA SettlesTwice ==
    ASSUME NEW d, NEW e, NEW g, Settles(d, e), Settles(e, g)
    PROVE  Settles(d, g)
<1>1. ASSUME NEW m, NEW n, NEW o, OnlyEnds(m, n), OnlyEnds(n, o) PROVE OnlyEnds(m, o)
  BY <1>1 DEF OnlyEnds
<1>2. \A h \in DOMAIN g.sessions : g.sessions[h].id = d.sessions[h].id
  BY DEF Settles, OnlyEnds
<1> QED BY <1>1, <1>2 DEF Settles

\* Replacing one of the other fields settles the store.
LEMMA OtherField ==
    ASSUME NEW d, Shape(d), NEW m
    PROVE  /\ Settles(d, [d EXCEPT !.users = m])
           /\ Settles(d, [d EXCEPT !.clients = m])
           /\ Settles(d, [d EXCEPT !.policy = m])
           /\ Settles(d, [d EXCEPT !.access = m])
           /\ Settles(d, [d EXCEPT !.txns = m])
           /\ Settles(d, [d EXCEPT !.codes = m])
           /\ Settles(d, [d EXCEPT !.tokens = m])
           /\ Settles(d, [d EXCEPT !.families = m])
           /\ Settles(d, [d EXCEPT !.refresh = m])
           /\ Settles(d, [d EXCEPT !.consents = m])
<1>1. Settles(d, [d EXCEPT !.users = m])
  BY DEF Shape, Fields, Settles, OnlyEnds
<1>2. Settles(d, [d EXCEPT !.clients = m])
  BY DEF Shape, Fields, Settles, OnlyEnds
<1>3. Settles(d, [d EXCEPT !.policy = m])
  BY DEF Shape, Fields, Settles, OnlyEnds
<1>4. Settles(d, [d EXCEPT !.access = m])
  BY DEF Shape, Fields, Settles, OnlyEnds
<1>5. Settles(d, [d EXCEPT !.txns = m])
  BY DEF Shape, Fields, Settles, OnlyEnds
<1>6. Settles(d, [d EXCEPT !.codes = m])
  BY DEF Shape, Fields, Settles, OnlyEnds
<1>7. Settles(d, [d EXCEPT !.tokens = m])
  BY DEF Shape, Fields, Settles, OnlyEnds
<1>8. Settles(d, [d EXCEPT !.families = m])
  BY DEF Shape, Fields, Settles, OnlyEnds
<1>9. Settles(d, [d EXCEPT !.refresh = m])
  BY DEF Shape, Fields, Settles, OnlyEnds
<1>10. Settles(d, [d EXCEPT !.consents = m])
  BY DEF Shape, Fields, Settles, OnlyEnds
<1> QED BY <1>1, <1>2, <1>3, <1>4, <1>5, <1>6, <1>7, <1>8, <1>9, <1>10

\* So does replacing the fields that methods replace together.
LEMMA OtherFields ==
    ASSUME NEW d, Shape(d), NEW m, NEW n, NEW o
    PROVE  /\ Settles(d, [d EXCEPT !.families = m, !.tokens = n])
           /\ Settles(d, [d EXCEPT !.txns = m, !.codes = n])
           /\ Settles(d, [d EXCEPT !.codes = m, !.tokens = n])
           /\ Settles(d, [d EXCEPT !.refresh = m, !.families = n])
           /\ Settles(d, [d EXCEPT !.users = m, !.access = n])
           /\ Settles(d, [d EXCEPT !.codes = m, !.txns = n, !.consents = o])
<1>1. Settles(d, [d EXCEPT !.families = m, !.tokens = n])
  <2> DEFINE e == [d EXCEPT !.families = m]
  <2>1. Settles(d, e)
    BY OtherField
  <2>2. Settles(e, [e EXCEPT !.tokens = n])
    <3> HIDE DEF e
    <3> QED BY <2>1, SettlesShape, OtherField
  <2>3. [e EXCEPT !.tokens = n] = [d EXCEPT !.families = m, !.tokens = n]
    OBVIOUS
  <2> QED BY <2>1, <2>2, <2>3, SettlesTwice
<1>2. Settles(d, [d EXCEPT !.txns = m, !.codes = n])
  <2> DEFINE e == [d EXCEPT !.txns = m]
  <2>1. Settles(d, e)
    BY OtherField
  <2>2. Settles(e, [e EXCEPT !.codes = n])
    <3> HIDE DEF e
    <3> QED BY <2>1, SettlesShape, OtherField
  <2>3. [e EXCEPT !.codes = n] = [d EXCEPT !.txns = m, !.codes = n]
    OBVIOUS
  <2> QED BY <2>1, <2>2, <2>3, SettlesTwice
<1>3. Settles(d, [d EXCEPT !.codes = m, !.tokens = n])
  <2> DEFINE e == [d EXCEPT !.codes = m]
  <2>1. Settles(d, e)
    BY OtherField
  <2>2. Settles(e, [e EXCEPT !.tokens = n])
    <3> HIDE DEF e
    <3> QED BY <2>1, SettlesShape, OtherField
  <2>3. [e EXCEPT !.tokens = n] = [d EXCEPT !.codes = m, !.tokens = n]
    OBVIOUS
  <2> QED BY <2>1, <2>2, <2>3, SettlesTwice
<1>4. Settles(d, [d EXCEPT !.refresh = m, !.families = n])
  <2> DEFINE e == [d EXCEPT !.refresh = m]
  <2>1. Settles(d, e)
    BY OtherField
  <2>2. Settles(e, [e EXCEPT !.families = n])
    <3> HIDE DEF e
    <3> QED BY <2>1, SettlesShape, OtherField
  <2>3. [e EXCEPT !.families = n] = [d EXCEPT !.refresh = m, !.families = n]
    OBVIOUS
  <2> QED BY <2>1, <2>2, <2>3, SettlesTwice
<1>5. Settles(d, [d EXCEPT !.users = m, !.access = n])
  <2> DEFINE e == [d EXCEPT !.users = m]
  <2>1. Settles(d, e)
    BY OtherField
  <2>2. Settles(e, [e EXCEPT !.access = n])
    <3> HIDE DEF e
    <3> QED BY <2>1, SettlesShape, OtherField
  <2>3. [e EXCEPT !.access = n] = [d EXCEPT !.users = m, !.access = n]
    OBVIOUS
  <2> QED BY <2>1, <2>2, <2>3, SettlesTwice
<1>6. Settles(d, [d EXCEPT !.codes = m, !.txns = n])
  <2> DEFINE e == [d EXCEPT !.codes = m]
  <2>1. Settles(d, e)
    BY OtherField
  <2>2. Settles(e, [e EXCEPT !.txns = n])
    <3> HIDE DEF e
    <3> QED BY <2>1, SettlesShape, OtherField
  <2>3. [e EXCEPT !.txns = n] = [d EXCEPT !.codes = m, !.txns = n]
    OBVIOUS
  <2> QED BY <2>1, <2>2, <2>3, SettlesTwice
<1>7. Settles(d, [d EXCEPT !.codes = m, !.txns = n, !.consents = o])
  <2> DEFINE e == [d EXCEPT !.codes = m, !.txns = n]
  <2>1. Settles(d, e)
    BY <1>6
  <2>2. Settles(e, [e EXCEPT !.consents = o])
    <3> HIDE DEF e
    <3> QED BY <2>1, SettlesShape, OtherField
  <2>3. [e EXCEPT !.consents = o] = [d EXCEPT !.codes = m, !.txns = n, !.consents = o]
    OBVIOUS
  <2> QED BY <2>1, <2>2, <2>3, SettlesTwice
<1> QED BY <1>1, <1>2, <1>3, <1>4, <1>5, <1>7

(***************************************************************************)
(* The store's methods.                                                    *)
(***************************************************************************)
\* Revocation of grants.
LEMMA RevocationSettles ==
    ASSUME NEW d, Shape(d), NEW x
    PROVE  /\ Settles(d, RevokeFamilies(d, x))
           /\ Settles(d, RevokeRefreshFamily(d, x))
           /\ Settles(d, RevokeAccessToken(d, x))
           /\ Settles(d, RevokeAccessTokensForUser(d, x))
           /\ Settles(d, RevokeAccessTokensForClient(d, x))
           /\ Settles(d, RevokeAccessTokensForCode(d, x))
<1>1. ASSUME NEW F PROVE Settles(d, RevokeFamilies(d, F)) /\ Shape(RevokeFamilies(d, F))
  <2>1. Settles(d, RevokeFamilies(d, F))
    BY OtherFields DEF RevokeFamilies
  <2> QED BY <2>1, SettlesShape
<1>2. ASSUME NEW F, NEW T
      PROVE  LET e == RevokeFamilies(d, F) IN
             Settles(d, [e EXCEPT !.tokens = Revoke(e.tokens, T)])
  <2> DEFINE e == RevokeFamilies(d, F)
  <2>1. Settles(d, e) /\ Shape(e)
    BY <1>1
  <2> HIDE DEF e
  <2>2. Settles(e, [e EXCEPT !.tokens = Revoke(e.tokens, T)])
    BY <2>1, OtherField
  <2> QED BY <2>1, <2>2, SettlesTwice DEF e
<1>3. Settles(d, RevokeRefreshFamily(d, x))
  BY <1>1 DEF RevokeRefreshFamily
<1>4. Settles(d, RevokeAccessToken(d, x))
  BY OtherField DEF RevokeAccessToken
<1>5. Settles(d, RevokeAccessTokensForUser(d, x))
  BY <1>2 DEF RevokeAccessTokensForUser
<1>6. Settles(d, RevokeAccessTokensForClient(d, x))
  BY <1>2 DEF RevokeAccessTokensForClient
<1>7. Settles(d, RevokeAccessTokensForCode(d, x))
  BY <1>2 DEF RevokeAccessTokensForCode
<1> QED BY <1>1, <1>3, <1>4, <1>5, <1>6, <1>7

\* Ending records ends them and keeps their session IDs.
LEMMA EndOnlyEnds ==
    ASSUME NEW d, Shape(d), NEW K, NEW t \in Nat \ {0}
    PROVE  /\ OnlyEnds(d.sessions, End(d.sessions, K, t))
           /\ OnlyEnds(d.apps, End(d.apps, K, t))
           /\ \A h \in DOMAIN d.sessions : End(d.sessions, K, t)[h].id = d.sessions[h].id
           /\ IsMap(End(d.sessions, K, t), Id \ {0}, Session)
           /\ IsMap(End(d.apps, K, t), Id \ {0}, AppSession)
<1>1. ASSUME NEW v \in Session
      PROVE  LET w == [v EXCEPT !.ended = t] IN
             w \in Session /\ w.ended # 0 /\ w.id = v.id
  BY DEF Session, Time
<1>2. ASSUME NEW v \in AppSession
      PROVE  LET w == [v EXCEPT !.ended = t] IN w \in AppSession /\ w.ended # 0
  BY DEF AppSession, Time
<1>3. /\ \A h \in DOMAIN d.sessions : d.sessions[h] \in Session
      /\ \A a \in DOMAIN d.apps : d.apps[a] \in AppSession
  BY DEF Shape, IsMap
<1>4. OnlyEnds(d.sessions, End(d.sessions, K, t))
  BY <1>1, <1>3 DEF OnlyEnds, End
<1>5. OnlyEnds(d.apps, End(d.apps, K, t))
  BY <1>2, <1>3 DEF OnlyEnds, End
<1>6. \A h \in DOMAIN d.sessions : End(d.sessions, K, t)[h].id = d.sessions[h].id
  BY <1>1, <1>3 DEF End
<1>7. /\ IsMap(End(d.sessions, K, t), Id \ {0}, Session)
      /\ IsMap(End(d.apps, K, t), Id \ {0}, AppSession)
  BY <1>1, <1>2, EndMap DEF Shape
<1> QED BY <1>4, <1>5, <1>6, <1>7

\* Replacing a map of session records by one in which some ended or went.
LEMMA RecordsSettle ==
    ASSUME NEW d, Shape(d), NEW m
    PROVE  /\ /\ OnlyEnds(d.sessions, m) /\ IsMap(m, Id \ {0}, Session)
              /\ \A h \in DOMAIN m : m[h].id = d.sessions[h].id
              => Settles(d, [d EXCEPT !.sessions = m])
           /\ /\ OnlyEnds(d.apps, m) /\ IsMap(m, Id \ {0}, AppSession)
              => Settles(d, [d EXCEPT !.apps = m])
<1>1. ASSUME OnlyEnds(d.sessions, m), IsMap(m, Id \ {0}, Session),
             \A h \in DOMAIN m : m[h].id = d.sessions[h].id
      PROVE  Settles(d, [d EXCEPT !.sessions = m])
  BY <1>1 DEF Shape, Fields, Settles, OnlyEnds
<1>2. ASSUME OnlyEnds(d.apps, m), IsMap(m, Id \ {0}, AppSession)
      PROVE  Settles(d, [d EXCEPT !.apps = m])
  BY <1>2 DEF Shape, Fields, Settles, OnlyEnds
<1> QED BY <1>1, <1>2

\* EndAppSession, on a set of app sessions.
LEMMA EndAppSessionsSettles ==
    ASSUME NEW d, Shape(d), NEW A, NEW t \in Nat \ {0}
    PROVE  Settles(d, EndAppSessions(d, A, t))
<1> DEFINE E == {a \in A \cap DOMAIN d.apps : d.apps[a].ended = 0}
           Cut(m) == {x \in DOMAIN m : \E a \in E : /\ m[x].op = d.apps[a].op
                                                    /\ m[x].client = d.apps[a].client}
           to == Revoke(d.tokens, {k \in DOMAIN d.tokens :
                     d.tokens[k].app \in E /\ d.tokens[k].family = 0})
           co == Revoke(d.codes, Cut(d.codes))
           tx == Revoke(d.txns, Cut(d.txns))
           ap == End(d.apps, E, t)
           e1 == [d EXCEPT !.apps = ap]
           e2 == [e1 EXCEPT !.tokens = to]
           e3 == [e2 EXCEPT !.codes = co]
           e4 == [e3 EXCEPT !.txns = tx]
<1>1. EndAppSessions(d, A, t) =
          [d EXCEPT !.apps = ap, !.tokens = to, !.codes = co, !.txns = tx]
  BY DEF EndAppSessions
<1>2. OnlyEnds(d.apps, ap) /\ IsMap(ap, Id \ {0}, AppSession)
  BY EndOnlyEnds
<1> HIDE DEF E, Cut, to, co, tx, ap
<1>3. Settles(d, e1)
  BY <1>2, RecordsSettle
<1>4. Settles(d, e2)
  <2> HIDE DEF e1
  <2> QED BY <1>3, SettlesShape, OtherField, SettlesTwice
<1>5. Settles(d, e3)
  <2> HIDE DEF e2
  <2> QED BY <1>4, SettlesShape, OtherField, SettlesTwice
<1>6. Settles(d, e4)
  <2> HIDE DEF e3
  <2> QED BY <1>5, SettlesShape, OtherField, SettlesTwice
<1>7. e4 = [d EXCEPT !.apps = ap, !.tokens = to, !.codes = co, !.txns = tx]
  OBVIOUS
<1> QED BY <1>1, <1>6, <1>7

\* EndSessions and EndSession.
LEMMA EndSessionsSettles ==
    ASSUME NEW d, Shape(d), NEW I, NEW t \in Nat \ {0}
    PROVE  Settles(d, EndSessions(d, I, t))
<1> DEFINE H  == ToEnd(d, I)
           J  == {d.sessions[h].id : h \in H}
           d1 == EndAppSessions(d, Under(d.apps, J), t)
           se == End(d1.sessions, H, t)
           tx == Revoke(d1.txns, Under(d1.txns, J))
           co == Revoke(d1.codes, Under(d1.codes, J))
           e  == [d1 EXCEPT !.sessions = se]
           g  == [e EXCEPT !.txns = tx, !.codes = co]
<1>1. EndSessions(d, I, t) = [d1 EXCEPT !.sessions = se, !.txns = tx, !.codes = co]
  BY DEF EndSessions
<1>2. Settles(d, d1) /\ Shape(d1)
  BY EndAppSessionsSettles, SettlesShape
<1> HIDE DEF d1, H, J
<1>3. DOMAIN se = DOMAIN d1.sessions
  BY DEF End
<1>4. Settles(d1, e)
  <2>1. /\ OnlyEnds(d1.sessions, se) /\ IsMap(se, Id \ {0}, Session)
        /\ \A h \in DOMAIN d1.sessions : se[h].id = d1.sessions[h].id
    BY <1>2, EndOnlyEnds
  <2> HIDE DEF se
  <2> QED BY <1>2, <1>3, <2>1, RecordsSettle
<1> HIDE DEF se, tx, co
<1>5. Settles(d, g)
  <2>1. Settles(d, e)
    BY <1>2, <1>4, SettlesTwice
  <2> HIDE DEF e
  <2> QED BY <2>1, SettlesShape, OtherFields, SettlesTwice
<1>6. g = [d1 EXCEPT !.sessions = se, !.txns = tx, !.codes = co]
  OBVIOUS
<1> QED BY <1>1, <1>5, <1>6

\* DeleteUserSessions.
LEMMA DeleteUserSessionsSettles ==
    ASSUME NEW d, Shape(d), NEW u, NEW t \in Nat \ {0}
    PROVE  Settles(d, DeleteUserSessions(d, u, t))
<1> DEFINE d1 == RevokeAccessTokensForUser(d, u)
           co == Drop(d1.codes, {k \in DOMAIN d1.codes : d1.codes[k].user = u})
           tx == Drop(d1.txns, {k \in DOMAIN d1.txns : d1.txns[k].user = u})
           cs == Drop(d1.consents, {w \in DOMAIN d1.consents : w[1] = u})
           d2 == [d1 EXCEPT !.codes = co, !.txns = tx, !.consents = cs]
<1>1. Settles(d, d1)
  BY RevocationSettles
<1> HIDE DEF d1
<1>2. Settles(d, d2)
  <2> HIDE DEF co, tx, cs
  <2> QED BY <1>1, SettlesShape, OtherFields, SettlesTwice
<1>3. Settles(d, EndSessions(d2, SessionsOf(d2, u), t))
  <2> HIDE DEF d2
  <2> QED BY <1>2, SettlesShape, EndSessionsSettles, SettlesTwice
<1> QED BY <1>3 DEF DeleteUserSessions, d1

\* SaveUser and DeleteUser.
LEMMA UsersSettle ==
    ASSUME NEW d, Shape(d), NEW u, NEW new, NEW t \in Nat \ {0}
    PROVE  Settles(d, SaveUser(d, u, new, t)) /\ Settles(d, DeleteUser(d, u, t))
<1>1. Settles(d, SaveUser(d, u, new, t))
  <2> DEFINE d1 == IF u \in DOMAIN d.users /\ d.users[u] # new
                   THEN DeleteUserSessions(d, u, t) ELSE d
  <2>1. Settles(d, d1)
    BY DeleteUserSessionsSettles, SettlesSelf
  <2>2. SaveUser(d, u, new, t) = [d1 EXCEPT !.users = Put(d1.users, u, new)]
    BY DEF SaveUser
  <2> HIDE DEF d1
  <2> QED BY <2>1, <2>2, SettlesShape, OtherField, SettlesTwice
<1>2. Settles(d, DeleteUser(d, u, t))
  <2> DEFINE us == Drop(d.users, {u})
             ac == [d.access EXCEPT ![u] = FALSE]
             d1 == [d EXCEPT !.users = us, !.access = ac]
  <2>1. DeleteUser(d, u, t) = DeleteUserSessions(d1, u, t)
    BY DEF DeleteUser
  <2> HIDE DEF us, ac
  <2>2. Settles(d, d1)
    BY OtherFields
  <2> HIDE DEF d1
  <2> QED BY <2>1, <2>2, SettlesShape, DeleteUserSessionsSettles, SettlesTwice
<1> QED BY <1>1, <1>2

\* The cut-off of a client.
LEMMA InvalidateClientGrantsSettles ==
    ASSUME NEW d, Shape(d), NEW c, NEW t \in Nat \ {0}
    PROVE  Settles(d, InvalidateClientGrants(d, c, t))
<1> DEFINE d1 == EndAppSessions(d, {a \in DOMAIN d.apps : d.apps[a].client = c}, t)
           d2 == RevokeAccessTokensForClient(d1, c)
           co == Drop(d2.codes, {k \in DOMAIN d2.codes : d2.codes[k].client = c})
           tx == Drop(d2.txns, {k \in DOMAIN d2.txns : d2.txns[k].client = c})
           cs == Drop(d2.consents, {w \in DOMAIN d2.consents : w[2] = c})
           e  == [d2 EXCEPT !.codes = co, !.txns = tx, !.consents = cs]
<1>1. InvalidateClientGrants(d, c, t) = e
  BY DEF InvalidateClientGrants
<1>2. Settles(d, d1)
  BY EndAppSessionsSettles
<1> HIDE DEF d1
<1>3. Settles(d, d2)
  BY <1>2, SettlesShape, RevocationSettles, SettlesTwice
<1> HIDE DEF d2, co, tx, cs
<1>4. Settles(d, e)
  BY <1>3, SettlesShape, OtherFields, SettlesTwice
<1> QED BY <1>1, <1>4

\* SaveClient, SaveOAuthPolicy and DeleteClient.
LEMMA ClientsSettle ==
    ASSUME NEW d, Shape(d), NEW c, NEW p, NEW t \in Nat \ {0}
    PROVE  /\ Settles(d, SaveClient(d, c, t))
           /\ Settles(d, SaveOAuthPolicy(d, c, p, t))
           /\ Settles(d, DeleteClient(d, c, t))
<1>1. Settles(d, SaveClient(d, c, t))
  <2> DEFINE d1 == InvalidateClientGrants(d, c, t)
  <2>1. Settles(d, d1)
    BY InvalidateClientGrantsSettles
  <2>2. SaveClient(d, c, t) =
            [d1 EXCEPT !.clients = Put(d1.clients, c, [rev |-> d1.clients[c].rev + 1])]
    BY DEF SaveClient
  <2> HIDE DEF d1
  <2> QED BY <2>1, <2>2, SettlesShape, OtherField, SettlesTwice
<1>2. ASSUME NEW q PROVE Settles(d, SaveOAuthPolicy(d, c, q, t))
  <2> DEFINE po == [d.policy EXCEPT ![c] = q]
             d1 == [d EXCEPT !.policy = po]
  <2>1. SaveOAuthPolicy(d, c, q, t) = InvalidateClientGrants(d1, c, t)
    BY DEF SaveOAuthPolicy
  <2> HIDE DEF po
  <2>2. Settles(d, d1)
    BY OtherField
  <2> HIDE DEF d1
  <2> QED BY <2>1, <2>2, SettlesShape, InvalidateClientGrantsSettles, SettlesTwice
<1>3. Settles(d, DeleteClient(d, c, t))
  <2> DEFINE d1 == SaveOAuthPolicy(d, c, {}, t)
  <2>1. Settles(d, d1)
    BY <1>2
  <2>2. DeleteClient(d, c, t) = [d1 EXCEPT !.clients = Drop(d1.clients, {c})]
    BY DEF DeleteClient, SaveOAuthPolicy
  <2> HIDE DEF d1
  <2> QED BY <2>1, <2>2, SettlesShape, OtherField, SettlesTwice
<1> QED BY <1>1, <1>2, <1>3

\* SaveOAuthAccess.
LEMMA SaveOAuthAccessSettles ==
    ASSUME NEW d, Shape(d), NEW u, NEW allowed, NEW t \in Nat \ {0}
    PROVE  Settles(d, SaveOAuthAccess(d, u, allowed, t))
<1> DEFINE ac == [d.access EXCEPT ![u] = allowed]
           d1 == [d EXCEPT !.access = ac]
           d2 == EndAppSessions(d1, {a \in DOMAIN d1.apps : d1.apps[a].user = u}, t)
<1>1. SaveOAuthAccess(d, u, allowed, t) = RevokeAccessTokensForUser(d2, u)
  BY DEF SaveOAuthAccess
<1> HIDE DEF ac
<1>2. Settles(d, d1)
  BY OtherField
<1> HIDE DEF d1
<1>3. Settles(d, d2)
  BY <1>2, SettlesShape, EndAppSessionsSettles, SettlesTwice
<1> HIDE DEF d2
<1> QED BY <1>1, <1>3, SettlesShape, RevocationSettles, SettlesTwice

\* SaveConsent, revoked or granted.
LEMMA SaveConsentSettles ==
    ASSUME NEW d, Shape(d), NEW u, NEW c, NEW new, NEW t \in Nat \ {0}
    PROVE  Settles(d, SaveConsent(d, u, c, new, t))
<1> DEFINE d1 == EndAppSessions(d, AppSessionsOf(d, u, c), t)
           d2 == RevokeFamilies(d1, {f \in DOMAIN d1.families :
                     d1.families[f].user = u /\ d1.families[f].client = c})
           d3 == IF new.revoked THEN d2 ELSE d
<1>1. SaveConsent(d, u, c, new, t) = [d3 EXCEPT !.consents = Put(d3.consents, <<u, c>>, new)]
  BY DEF SaveConsent
<1>2. Settles(d, d1)
  BY EndAppSessionsSettles
<1> HIDE DEF d1
<1>3. Settles(d, d2)
  BY <1>2, SettlesShape, RevocationSettles, SettlesTwice
<1> HIDE DEF d2
<1>4. Settles(d, d3)
  BY <1>3, SettlesSelf
<1> HIDE DEF d3
<1> QED BY <1>1, <1>4, SettlesShape, OtherField, SettlesTwice

\* Pruning drops ended records, and grants.
LEMMA PruningSettles ==
    ASSUME NEW d, Shape(d), NEW t \in Nat \ {0}
    PROVE  Settles(d, PruneLogoutState(d, t))
<1> DEFINE d1 == PruneSessions(d, t)
           ap == Drop(d1.apps, Retired(d1.apps, t))
           se == Drop(d1.sessions, Retired(d1.sessions, t))
           e1 == [d1 EXCEPT !.apps = ap]
           e2 == [e1 EXCEPT !.sessions = se]
<1>1. PruneLogoutState(d, t) = [d1 EXCEPT !.apps = ap, !.sessions = se]
  BY DEF PruneLogoutState
<1>2. Settles(d, d1) /\ Shape(d1)
  BY EndSessionsSettles, SettlesShape DEF PruneSessions
<1> HIDE DEF d1
<1>3. /\ OnlyEnds(d1.apps, ap) /\ OnlyEnds(d1.sessions, se)
      /\ \A h \in DOMAIN se : se[h].id = d1.sessions[h].id
      /\ IsMap(ap, Id \ {0}, AppSession) /\ IsMap(se, Id \ {0}, Session)
  <2>1. \A m, S : OnlyEnds(m, Drop(m, S))
    BY DEF OnlyEnds, Drop
  <2>2. \A h \in DOMAIN se : se[h].id = d1.sessions[h].id
    BY DEF Drop
  <2>3. IsMap(ap, Id \ {0}, AppSession) /\ IsMap(se, Id \ {0}, Session)
    BY <1>2, DropMap DEF Shape
  <2> QED BY <2>1, <2>2, <2>3
<1> HIDE DEF ap, se
<1>4. Settles(d1, e1) /\ Shape(e1)
  BY <1>2, <1>3, RecordsSettle, SettlesShape
<1>5. e1.sessions = d1.sessions
  BY <1>2 DEF Shape, Fields
<1>6. Settles(e1, e2)
  <2> HIDE DEF e1
  <2> QED BY <1>3, <1>4, <1>5, RecordsSettle
<1>7. e2 = [d1 EXCEPT !.apps = ap, !.sessions = se]
  OBVIOUS
<1> HIDE DEF e1, e2
<1>8. Settles(d, e2)
  BY <1>2, <1>4, <1>6, SettlesTwice
<1> QED BY <1>1, <1>7, <1>8

\* PruneOIDCState drops grants only.
LEMMA PruneOIDCStateSettles ==
    ASSUME NEW d, Shape(d), NEW t
    PROVE  Settles(d, PruneOIDCState(d, t))
<1> DEFINE F  == {f \in DOMAIN d.families : d.families[f].retain <= t}
           fa == Drop(d.families, F)
           re == Drop(d.refresh, {r \in DOMAIN d.refresh : d.refresh[r].family \in F})
           tx == Drop(d.txns, {x \in DOMAIN d.txns : d.txns[x].exp <= t})
           co == Drop(d.codes, {k \in DOMAIN d.codes :
                     d.codes[k].exp <= t /\ d.codes[k].retain <= t})
           to == Drop(d.tokens, {k \in DOMAIN d.tokens : d.tokens[k].exp <= t})
           e1 == [d EXCEPT !.families = fa]
           e2 == [e1 EXCEPT !.refresh = re]
           e3 == [e2 EXCEPT !.txns = tx, !.codes = co]
           e4 == [e3 EXCEPT !.tokens = to]
<1>1. PruneOIDCState(d, t) =
        [d EXCEPT !.families = fa, !.refresh = re, !.txns = tx, !.codes = co, !.tokens = to]
  BY DEF PruneOIDCState
<1> HIDE DEF F, fa, re, tx, co, to
<1>2. Settles(d, e1)
  BY OtherField
<1>3. Settles(d, e2)
  <2> HIDE DEF e1
  <2> QED BY <1>2, SettlesShape, OtherField, SettlesTwice
<1>4. Settles(d, e3)
  <2> HIDE DEF e2
  <2> QED BY <1>3, SettlesShape, OtherFields, SettlesTwice
<1>5. Settles(d, e4)
  <2> HIDE DEF e3
  <2> QED BY <1>4, SettlesShape, OtherField, SettlesTwice
<1>6. e4 = [d EXCEPT !.families = fa, !.refresh = re, !.txns = tx, !.codes = co, !.tokens = to]
  OBVIOUS
<1> QED BY <1>1, <1>5, <1>6

(***************************************************************************)
(* The handlers that only settle the store.                                *)
(***************************************************************************)
\* What the handlers start from.
LEMMA StartShape == ASSUME Inv PROVE Shape(db) /\ now \in Nat \ {0}
BY SoundShape DEF Inv

\* Adding a transaction, code, token, family or refresh token.
LEMMA AddGrantsSettle ==
    ASSUME NEW d, Shape(d), NEW v
    PROVE  /\ Settles(d, AddTxn(d, v))
           /\ Settles(d, AddCode(d, v))
           /\ Settles(d, AddToken(d, v))
           /\ Settles(d, AddFamily(d, v))
           /\ Settles(d, AddRefresh(d, v))
<1>1. ASSUME NEW kind \in Kinds \ {"session"}
      PROVE  Settles(d, Draw(d, kind)) /\ Shape(Draw(d, kind))
  <2> DEFINE n == [d.next EXCEPT ![kind] = d.next[kind] + 1]
             e == [d EXCEPT !.next = n]
  <2>1. n \in [Kinds -> Nat \ {0}] /\ n["session"] = d.next["session"]
    BY DEF Shape, Kinds
  <2> HIDE DEF n
  <2>2. Fields(e) /\ e.sessions = d.sessions /\ e.apps = d.apps /\ e.next = n
    BY DEF Shape, Fields
  <2> HIDE DEF e
  <2>3. Settles(d, e)
    BY <2>1, <2>2, Untouched
  <2> QED BY <2>3, SettlesShape DEF Draw, n, e
<1>2. Settles(d, AddTxn(d, v))
  <2> DEFINE e == Draw(d, "txn")
  <2>1. Settles(d, e) /\ Shape(e)
    BY <1>1 DEF Kinds
  <2> HIDE DEF e
  <2>2. Settles(d, [e EXCEPT !.txns = Put(d.txns, d.next["txn"], v)])
    BY <2>1, OtherField, SettlesTwice
  <2> QED BY <2>2 DEF AddTxn, e
<1>3. Settles(d, AddCode(d, v))
  <2> DEFINE e == Draw(d, "code")
  <2>1. Settles(d, e) /\ Shape(e)
    BY <1>1 DEF Kinds
  <2> HIDE DEF e
  <2>2. Settles(d, [e EXCEPT !.codes = Put(d.codes, d.next["code"], v)])
    BY <2>1, OtherField, SettlesTwice
  <2> QED BY <2>2 DEF AddCode, e
<1>4. Settles(d, AddToken(d, v))
  <2> DEFINE e == Draw(d, "token")
  <2>1. Settles(d, e) /\ Shape(e)
    BY <1>1 DEF Kinds
  <2> HIDE DEF e
  <2>2. Settles(d, [e EXCEPT !.tokens = Put(d.tokens, d.next["token"], v)])
    BY <2>1, OtherField, SettlesTwice
  <2> QED BY <2>2 DEF AddToken, e
<1>5. Settles(d, AddFamily(d, v))
  <2> DEFINE e == Draw(d, "family")
  <2>1. Settles(d, e) /\ Shape(e)
    BY <1>1 DEF Kinds
  <2> HIDE DEF e
  <2>2. Settles(d, [e EXCEPT !.families = Put(d.families, d.next["family"], v)])
    BY <2>1, OtherField, SettlesTwice
  <2> QED BY <2>2 DEF AddFamily, e
<1>6. Settles(d, AddRefresh(d, v))
  <2> DEFINE e == Draw(d, "refresh")
  <2>1. Settles(d, e) /\ Shape(e)
    BY <1>1 DEF Kinds
  <2> HIDE DEF e
  <2>2. Settles(d, [e EXCEPT !.refresh = Put(d.refresh, d.next["refresh"], v)])
    BY <2>1, OtherField, SettlesTwice
  <2> QED BY <2>2 DEF AddRefresh, e
<1> QED BY <1>2, <1>3, <1>4, <1>5, <1>6

\* The session steps besides the sign-in.
LEMMA SessionStepSettles ==
    ASSUME Inv, SessionStep,
           ~ \E u \in Users : \E cred \in Creds(u), old \in DOMAIN db.sessions \cup {0},
                               at \in ReadTimes : Login(u, cred, old, at)
    PROVE  Settles(db, db')
<1>0. Shape(db) /\ now \in Nat \ {0}
  BY StartShape
<1>1. ASSUME NEW h, Logout(h) PROVE Settles(db, db')
  BY <1>0, <1>1, EndSessionsSettles DEF Logout, EndSession
<1>2. ASSUME NEW id, NEW offline, EndOPSession(id, offline) PROVE Settles(db, db')
  <2> DEFINE d1 == EndSession(db, id, now)
             F  == {f \in DOMAIN d1.families : d1.families[f].op = id}
  <2>1. Settles(db, d1)
    BY <1>0, EndSessionsSettles DEF EndSession
  <2>2. db' = IF offline THEN RevokeFamilies(d1, F) ELSE d1
    BY <1>2 DEF EndOPSession
  <2> HIDE DEF d1, F
  <2> QED BY <2>1, <2>2, SettlesShape, RevocationSettles, SettlesTwice
<1>3. ASSUME NEW u, NEW keep, NEW offline, EndUserSessions(u, keep, offline)
      PROVE  Settles(db, db')
  <2> DEFINE d1 == EndSessions(db, SessionsOf(db, u) \ {keep}, now)
  <2>1. Settles(db, d1)
    BY <1>0, EndSessionsSettles
  <2>2. db' = IF offline THEN RevokeAccessTokensForUser(d1, u) ELSE d1
    BY <1>3 DEF EndUserSessions
  <2> HIDE DEF d1
  <2> QED BY <2>1, <2>2, SettlesShape, RevocationSettles, SettlesTwice
<1>4. ASSUME NEW a, NEW offline, EndAppSession(a, offline) PROVE Settles(db, db')
  <2> DEFINE d1 == EndAppSessions(db, {a}, now)
             F  == {f \in DOMAIN d1.families : d1.families[f].app = a}
  <2>1. Settles(db, d1)
    BY <1>0, EndAppSessionsSettles
  <2>2. db' = IF offline THEN RevokeFamilies(d1, F) ELSE d1
    BY <1>4 DEF EndAppSession
  <2> HIDE DEF d1, F
  <2> QED BY <2>1, <2>2, SettlesShape, RevocationSettles, SettlesTwice
<1>5. ASSUME NEW u, NEW c, EndClientAccess(u, c) PROVE Settles(db, db')
  <2> DEFINE mine(m) == {x \in DOMAIN m : m[x].user = u /\ m[x].client = c}
             d1 == SaveConsent(db, u, c, [db.consents[<<u, c>>] EXCEPT !.revoked = TRUE], now)
             d2 == [d1 EXCEPT !.txns = Revoke(d1.txns, mine(d1.txns)),
                              !.codes = Revoke(d1.codes, mine(d1.codes))]
             d3 == EndAppSessions(d2, mine(d2.apps), now)
  <2>1. Settles(db, d1)
    BY <1>0, SaveConsentSettles
  <2>2. db' = [d3 EXCEPT !.tokens = Revoke(d3.tokens, mine(d3.tokens))]
    BY <1>5 DEF EndClientAccess
  <2> HIDE DEF d1
  <2>3. Settles(db, d2)
    BY <2>1, SettlesShape, OtherFields, SettlesTwice
  <2> HIDE DEF d2
  <2>4. Settles(db, d3)
    BY <1>0, <2>3, SettlesShape, EndAppSessionsSettles, SettlesTwice
  <2> HIDE DEF d3
  <2> QED BY <2>2, <2>4, SettlesShape, OtherField, SettlesTwice
<1>6. ASSUME Sweep PROVE Settles(db, db')
  BY <1>0, <1>6, PruningSettles DEF Sweep
<1> QED BY <1>1, <1>2, <1>3, <1>4, <1>5, <1>6 DEF SessionStep

\* MintCode adds a code.
LEMMA MintCodeSettles ==
    ASSUME NEW d, Shape(d), NEW txn, NEW u, NEW c, NEW h, NEW scopes
    PROVE  Settles(d, MintCode(d, txn, u, c, h, scopes))
<1> DEFINE v == [txn |-> txn, op |-> d.sessions[h].id, client |-> c, user |-> u,
                 rev |-> d.clients[c].rev, scopes |-> scopes, auth |-> d.sessions[h].auth,
                 exp |-> now + CodeTTL, retain |-> 0, revoked |-> FALSE,
                 consumed |-> FALSE, cred |-> d.sessions[h].cred]
           e == PruneOIDCState(d, now)
<1>1. Settles(d, e)
  BY PruneOIDCStateSettles
<1>2. MintCode(d, txn, u, c, h, scopes) = AddCode(e, v)
  BY DEF MintCode
<1> HIDE DEF e, v
<1> QED BY <1>1, <1>2, SettlesShape, AddGrantsSettle, SettlesTwice

\* /authorize and its continuation.
LEMMA AuthorizeStepSettles ==
    ASSUME Inv, AuthorizeStep
    PROVE  Settles(db, db')
<1>0. Shape(db) /\ now \in Nat \ {0}
  BY StartShape
<1>1. ASSUME NEW c, NEW rev, NEW s, NEW login, NEW scopes, NEW prompt, NEW maxAge, NEW at,
             Authorize(c, rev, s, login, scopes, prompt, maxAge, at)
      PROVE  Settles(db, db')
  <2>1. PICK v : db' = AddTxn(PruneOIDCState(db, at), v)
    BY <1>1 DEF Authorize
  <2> QED BY <1>0, <2>1, PruneOIDCStateSettles, SettlesShape, AddGrantsSettle, SettlesTwice
<1>2. ASSUME NEW c, NEW rev, NEW h, NEW scopes, NEW maxAge,
             AuthorizeSilently(c, rev, h, scopes, maxAge)
      PROVE  Settles(db, db')
  BY <1>0, <1>2, MintCodeSettles DEF AuthorizeSilently
<1>3. ASSUME NEW d, Settles(db, d), NEW x, NEW t PROVE Settles(db, SaveTxn(d, x, t))
  BY <1>3, SettlesShape, OtherField, SettlesTwice DEF SaveTxn
<1>4. ASSUME NEW x, NEW h, AskConsent(x, h) \/ Deny(x, h) PROVE Settles(db, db')
  BY <1>0, <1>3, <1>4, SettlesSelf DEF AskConsent, Deny
<1>5. ASSUME NEW x, NEW h, CompleteCovered(x, h) PROVE Settles(db, db')
  BY <1>0, <1>3, <1>5, MintCodeSettles DEF CompleteCovered
<1>6. ASSUME NEW x, NEW h, NEW approved, Approve(x, h, approved) PROVE Settles(db, db')
  <2> DEFINE t == Claimed(db, x, h)
             g == t.scopes \cap approved
             w == [scopes |-> g, rev |-> t.rev, revoked |-> FALSE]
             d1 == SaveConsent(db, t.user, t.client, w, now)
             d2 == MintCode(d1, x, t.user, t.client, h, g)
  <2>1. Settles(db, d1)
    BY <1>0, SaveConsentSettles
  <2>2. db' = SaveTxn(d2, x, [t EXCEPT !.consumed = TRUE])
    BY <1>6 DEF Approve
  <2> HIDE DEF t, g, w, d1
  <2>3. Settles(db, d2)
    BY <2>1, SettlesShape, MintCodeSettles, SettlesTwice
  <2> QED BY <1>3, <2>2, <2>3
<1> QED BY <1>1, <1>2, <1>4, <1>5, <1>6 DEF AuthorizeStep

\* The token endpoint besides the code exchange, and revocation.
LEMMA TokenRequestSettles ==
    ASSUME Inv, NEW c \in Clients, NEW snap, TokenRequest(c, snap),
           ~ \E k \in DOMAIN db.codes : ExchangeCode(k, c, snap)
    PROVE  Settles(db, db')
<1>0. Shape(db)
  BY StartShape
<1>1. ASSUME NEW k, ReplayCode(k, c, snap) PROVE Settles(db, db')
  BY <1>0, <1>1, RevocationSettles DEF ReplayCode
<1>2. ASSUME NEW r, NEW scopes, Rotate(r, c, snap, scopes) PROVE Settles(db, db')
  <2>1. PICK re, fa, nr, tok :
            db' = PruneOIDCState(AddToken(AddRefresh(
                      [db EXCEPT !.refresh = re, !.families = fa], nr), tok), now)
    BY <1>2 DEF Rotate
  <2> DEFINE d1 == [db EXCEPT !.refresh = re, !.families = fa]
             d2 == AddRefresh(d1, nr)
             d3 == AddToken(d2, tok)
  <2>2. Settles(db, d1)
    BY <1>0, OtherFields
  <2> HIDE DEF d1
  <2>3. Settles(db, d2)
    BY <2>2, SettlesShape, AddGrantsSettle, SettlesTwice
  <2> HIDE DEF d2
  <2>4. Settles(db, d3)
    BY <2>3, SettlesShape, AddGrantsSettle, SettlesTwice
  <2>5. db' = PruneOIDCState(d3, now)
    BY <2>1 DEF d1, d2
  <2> HIDE DEF d3
  <2> QED BY <2>4, <2>5, SettlesShape, PruneOIDCStateSettles, SettlesTwice
<1>3. ASSUME NEW r, ReplayRefresh(r, c, snap) \/ RevokeRefresh(r, c, snap)
      PROVE  Settles(db, db')
  BY <1>0, <1>3, RevocationSettles DEF ReplayRefresh, RevokeRefresh
<1>4. ASSUME NEW grant, NEW u, NEW cred, IssueResourceToken(c, grant, u, cred, snap)
      PROVE  Settles(db, db')
  <2>1. PICK tok : db' = PruneOIDCState(AddToken(db, tok), now)
    BY <1>4 DEF IssueResourceToken
  <2> QED BY <1>0, <2>1, AddGrantsSettle, SettlesShape, PruneOIDCStateSettles, SettlesTwice
<1>5. ASSUME NEW k, RevokeToken(k, c, snap) PROVE Settles(db, db')
  BY <1>0, <1>5, RevocationSettles DEF RevokeToken
<1> QED BY <1>1, <1>2, <1>3, <1>4, <1>5 DEF TokenRequest

\* Account, client, policy and access changes.
LEMMA AdminStepSettles ==
    ASSUME Inv, AdminStep
    PROVE  Settles(db, db')
<1>0. Shape(db) /\ now \in Nat \ {0}
  BY StartShape
<1>1. ASSUME NEW u, NEW cred, NEW active, NEW role, UpdateUser(u, cred, active, role)
      PROVE  Settles(db, db')
  <2> DEFINE new == [cred |-> cred, active |-> active, role |-> role]
             d1  == IF new # db.users[u] THEN DeleteUserSessions(db, u, now) ELSE db
  <2>1. Settles(db, d1)
    BY <1>0, DeleteUserSessionsSettles, SettlesSelf
  <2>2. db' = SaveUser(d1, u, new, now)
    BY <1>1 DEF UpdateUser
  <2> HIDE DEF new, d1
  <2> QED BY <1>0, <2>1, <2>2, SettlesShape, UsersSettle, SettlesTwice
<1>2. ASSUME NEW u, RemoveUser(u) PROVE Settles(db, db')
  BY <1>0, <1>2, UsersSettle DEF RemoveUser
<1>3. ASSUME NEW u, NEW allowed, SetOAuthAccess(u, allowed) PROVE Settles(db, db')
  BY <1>0, <1>3, SaveOAuthAccessSettles DEF SetOAuthAccess
<1>4. ASSUME NEW h, NEW cred, UpdateProfile(h) \/ ChangePassword(h, cred)
      PROVE  Settles(db, db')
  <2> DEFINE u == db.sessions[h].user
             e == SaveUser(db, u, NewCred(u), now)
  <2>1. Settles(db, e)
    BY <1>0, UsersSettle
  <2>2. db' = e \/ db' = DeleteUserSessions(e, u, now)
    BY <1>4 DEF UpdateProfile, ChangePassword
  <2> HIDE DEF e, u
  <2> QED BY <1>0, <2>1, <2>2, SettlesShape, DeleteUserSessionsSettles, SettlesTwice
<1>5. ASSUME NEW c, UpdateClient(c) PROVE Settles(db, db')
  BY <1>0, <1>5, ClientsSettle DEF UpdateClient
<1>6. ASSUME NEW c, RemoveClient(c) PROVE Settles(db, db')
  BY <1>0, <1>6, ClientsSettle DEF RemoveClient
<1>7. ASSUME NEW c, NEW p, SetOAuthPolicy(c, p) PROVE Settles(db, db')
  BY <1>0, <1>7, ClientsSettle DEF SetOAuthPolicy
<1> QED BY <1>1, <1>2, <1>3, <1>4, <1>5, <1>6, <1>7 DEF AdminStep

\* The activity page.
LEMMA ActivityStepSettles ==
    ASSUME Inv, ActivityStep
    PROVE  Settles(db, db')
<1>0. Shape(db) /\ now \in Nat \ {0}
  BY StartShape
<1>1. ASSUME NEW d, Shape(d), NEW K PROVE Settles(d, RevokeCodes(d, K))
  BY <1>1, OtherFields DEF RevokeCodes
<1>2. ASSUME NEW r, RevokeActiveRefresh(r) PROVE Settles(db, db')
  BY <1>0, <1>2, RevocationSettles DEF RevokeActiveRefresh
<1>3. ASSUME NEW k, RevokeActiveToken(k) PROVE Settles(db, db')
  BY <1>0, <1>3, RevocationSettles DEF RevokeActiveToken
<1>4. ASSUME NEW k, RevokeActiveCode(k) PROVE Settles(db, db')
  BY <1>0, <1>1, <1>4 DEF RevokeActiveCode
<1>5. ASSUME NEW x, RevokeActiveTxn(x) PROVE Settles(db, db')
  <2> DEFINE d1 == [db EXCEPT !.txns = Revoke(db.txns, {x})]
  <2>1. PICK K : db' = RevokeCodes(d1, K)
    BY <1>5 DEF RevokeActiveTxn
  <2>2. Settles(db, d1)
    BY <1>0, OtherField
  <2> HIDE DEF d1
  <2> QED BY <1>1, <2>1, <2>2, SettlesShape, SettlesTwice
<1>6. ASSUME NEW u, NEW c, RevokeActiveConsent(u, c) PROVE Settles(db, db')
  <2> DEFINE own == db.consents[<<u, c>>]
             d1  == SaveConsent(db, u, c, [own EXCEPT !.revoked = TRUE], now)
             mine(m) == {x \in DOMAIN m : m[x].user = u /\ m[x].client = c}
             dx  == [d1 EXCEPT !.txns =
                        Revoke(d1.txns, {x \in mine(d1.txns) : ActiveTxn(d1, x)})]
             d2  == RevokeCodes(dx, mine(d1.codes))
  <2>1. Settles(db, d1)
    BY <1>0, SaveConsentSettles
  <2>2. db' = [d2 EXCEPT !.tokens = Revoke(d2.tokens,
                     {k \in mine(d2.tokens) : now < d2.tokens[k].exp})]
    BY <1>6 DEF RevokeActiveConsent
  <2> HIDE DEF d1
  <2>3. Settles(db, dx)
    BY <2>1, SettlesShape, OtherField, SettlesTwice
  <2> HIDE DEF dx
  <2>4. Settles(db, d2)
    BY <1>1, <2>3, SettlesShape, SettlesTwice
  <2> HIDE DEF d2
  <2> QED BY <2>2, <2>4, SettlesShape, OtherField, SettlesTwice
<1> QED BY <1>2, <1>3, <1>4, <1>5, <1>6 DEF ActivityStep

(***************************************************************************)
(* What the counts say.                                                    *)
(***************************************************************************)
\* One more element than a set that is below its bound is within it.
LEMMA OneMore ==
    ASSUME NEW n \in Nat, NEW S, IsFiniteSet(S), Cardinality(S) < n, NEW x, NEW T,
           T \subseteq S \cup {x}
    PROVE  Within(T, n)
<1>1. IsFiniteSet(S \cup {x}) /\ Cardinality(S \cup {x}) <= Cardinality(S) + 1
      /\ Cardinality(S) \in Nat
  <2>1. Cardinality(S) \in Nat
    BY FS_CardinalityType
  <2>2. /\ IsFiniteSet(S \cup {x})
        /\ Cardinality(S \cup {x}) =
              IF x \in S THEN Cardinality(S) ELSE Cardinality(S) + 1
    BY FS_AddElement
  <2> QED BY <2>1, <2>2
<1>2. IsFiniteSet(T) /\ Cardinality(T) <= Cardinality(S \cup {x})
  BY <1>1, FS_Subset
<1>3. Cardinality(T) \in Nat /\ Cardinality(S \cup {x}) \in Nat
  BY <1>1, <1>2, FS_CardinalityType
<1> QED BY <1>1, <1>2, <1>3 DEF Within

\* Fewer elements are within the same bound.
LEMMA NoMore ==
    ASSUME NEW n \in Nat, NEW S, Within(S, n), NEW T, T \subseteq S
    PROVE  Within(T, n)
<1>1. IsFiniteSet(T) /\ Cardinality(T) <= Cardinality(S)
  BY FS_Subset DEF Within
<1>2. Cardinality(T) \in Nat /\ Cardinality(S) \in Nat
  BY <1>1, FS_CardinalityType DEF Within
<1> QED BY <1>1, <1>2 DEF Within

\* The capacities are numbers.
LEMMA Capacities == SessionCapacity \in Nat /\ AppCapacity \in Nat
BY ProviderAssumption DEF ProviderAssumption

\* Settling keeps the counts, and signs no session ID in.
LEMMA SettlesTally ==
    ASSUME NEW d, Tally(d), NEW e, Settles(d, e)
    PROVE  /\ Tally(e)
           /\ \A id : OpenSession(e, id) => OpenSession(d, id)
<1>1. IdsDrawn(e)
  BY DEF Tally, IdsDrawn, Settles, OnlyEnds
<1>2. OneCookie(e)
  BY DEF Tally, OneCookie, Settles, OnlyEnds
<1>3. OneApp(e)
  BY DEF Tally, OneApp, Settles, OnlyEnds
<1>4. Within(DOMAIN e.sessions, SessionCapacity) /\ Within(DOMAIN e.apps, AppCapacity)
  BY Capacities, NoMore DEF Tally, Settles, OnlyEnds
<1>5. \A id : OpenSession(e, id) => OpenSession(d, id)
  BY DEF OpenSession, Settles, OnlyEnds
<1> QED BY <1>1, <1>2, <1>3, <1>4, <1>5 DEF Tally

\* A new credential, with a new session ID or with that of an open one which
\* it replaces.
LEMMA SignInTally ==
    ASSUME NEW d, Shape(d), Tally(d), KeysDrawn(d), HasRoom(d.sessions, SessionCapacity),
           NEW e, Settles(d, e), NEW v \in Session,
           \/ v.id = d.next["session"]
           \/ \E o \in DOMAIN d.sessions \ DOMAIN e.sessions :
                 d.sessions[o].ended = 0 /\ d.sessions[o].id = v.id
    PROVE  LET g == AddSession(e, v) IN
           /\ Tally(g)
           /\ \A id : OpenSession(g, id) => OpenSession(d, id) \/ id = d.next["session"]
<1> DEFINE k  == d.next["session"]
           g  == AddSession(e, v)
           se == Put(e.sessions, k, v)
<1>1. Shape(e) /\ e.next["session"] = k /\ k \in Nat
  BY DEF Settles, Shape, Kinds
<1>2. g.sessions = se /\ g.apps = e.apps /\ g.next["session"] = k + 1
  BY <1>1 DEF AddSession, Draw, Shape, Fields, Kinds
<1>3. /\ DOMAIN se = DOMAIN e.sessions \cup {k} /\ se[k] = v
      /\ \A x \in DOMAIN e.sessions : x # k => se[x] = e.sessions[x]
  BY DEF Put
<1>4. \A x \in DOMAIN e.sessions :
         /\ x \in DOMAIN d.sessions /\ x # k
         /\ e.sessions[x].id = d.sessions[x].id
         /\ e.sessions[x].id \in Nat /\ e.sessions[x].id < k
  <2>1. SUFFICES ASSUME NEW x \in DOMAIN e.sessions
                 PROVE  /\ x \in DOMAIN d.sessions /\ x # k
                        /\ e.sessions[x].id = d.sessions[x].id
                        /\ e.sessions[x].id \in Nat /\ e.sessions[x].id < k
    OBVIOUS
  <2>2. x \in DOMAIN d.sessions /\ e.sessions[x].id = d.sessions[x].id
    BY DEF Settles, OnlyEnds
  <2>3. x \in Nat /\ d.sessions[x] \in Session
    BY <2>2 DEF Shape, IsMap, Id
  <2>4. x < k /\ d.sessions[x].id < k
    BY <2>2 DEF KeysDrawn, Tally, IdsDrawn
  <2> QED BY <1>1, <2>2, <2>3, <2>4 DEF Session, Id
<1>5. /\ v.id \in Nat /\ v.id <= k
      /\ \A x \in DOMAIN e.sessions : e.sessions[x].id # v.id
  <2>1. CASE v.id = k
    BY <1>1, <1>4, <2>1
  <2>2. CASE \E o \in DOMAIN d.sessions \ DOMAIN e.sessions :
                 d.sessions[o].ended = 0 /\ d.sessions[o].id = v.id
    <3>1. PICK o \in DOMAIN d.sessions \ DOMAIN e.sessions :
                 d.sessions[o].ended = 0 /\ d.sessions[o].id = v.id
      BY <2>2
    <3>2. v.id \in Nat /\ v.id < k
      BY <3>1 DEF Tally, IdsDrawn, Session, Id
    <3>3. \A x \in DOMAIN e.sessions : e.sessions[x].id # v.id
      BY <1>4, <3>1 DEF Tally, OneCookie
    <3> QED BY <1>1, <3>2, <3>3
  <2> QED BY <2>1, <2>2
<1>6. Tally(e) /\ \A id : OpenSession(e, id) => OpenSession(d, id)
  BY SettlesTally
<1> HIDE DEF g, se
<1>7. IdsDrawn(g)
  BY <1>1, <1>2, <1>3, <1>4, <1>5 DEF IdsDrawn
<1>8. OneCookie(g)
  <2>1. SUFFICES ASSUME NEW x \in DOMAIN se, NEW y \in DOMAIN se,
                        se[x].id = se[y].id, se[x].ended = 0
                 PROVE  x = y
    BY <1>2 DEF OneCookie
  <2>2. CASE x # k /\ y # k
    BY <1>3, <1>6, <2>1, <2>2 DEF Tally, OneCookie
  <2>3. CASE x = k \/ y = k
    BY <1>3, <1>4, <1>5, <2>1, <2>3
  <2> QED BY <2>2, <2>3
<1>9. OneApp(g)
  BY <1>2, <1>6 DEF Tally, OneApp
<1>10. Within(DOMAIN g.sessions, SessionCapacity) /\ Within(DOMAIN g.apps, AppCapacity)
  <2>1. IsFiniteSet(DOMAIN d.sessions) /\ Cardinality(DOMAIN d.sessions) < SessionCapacity
    BY DEF Tally, Within, HasRoom
  <2>2. DOMAIN g.sessions \subseteq DOMAIN d.sessions \cup {k}
    BY <1>2, <1>3, <1>4
  <2> QED BY <1>2, <1>6, <2>1, <2>2, Capacities, OneMore DEF Tally
<1>11. ASSUME NEW id, OpenSession(g, id) PROVE OpenSession(d, id) \/ id = k
  <2>1. PICK x \in DOMAIN se : se[x].id = id /\ se[x].ended = 0
    BY <1>2, <1>11 DEF OpenSession
  <2>2. CASE x # k
    BY <1>3, <1>6, <2>1, <2>2 DEF OpenSession
  <2>3. CASE x = k
    BY <1>3, <2>1, <2>3 DEF OpenSession
  <2> QED BY <2>2, <2>3
<1> QED BY <1>7, <1>8, <1>9, <1>10, <1>11 DEF Tally, g

\* Login.
LEMMA LoginTally ==
    ASSUME Inv, Tally(db), NEW u \in Users, NEW cred \in Nat, NEW old, NEW at \in ReadTimes,
           Login(u, cred, old, at)
    PROVE  /\ Tally(db')
           /\ \A id : OpenSession(db', id) => OpenSession(db, id) \/ id = db.next["session"]
<1> DEFINE d1   == PruneLogoutState(db, now)
           h    == d1.next["session"]
           live == LiveSession(d1, old)
           same == live /\ d1.sessions[old].user = u /\ at < d1.sessions[old].exp
           id   == IF same THEN d1.sessions[old].id ELSE h
           v    == [id |-> id, user |-> u, auth |-> at, exp |-> at + SessionTTL,
                    ended |-> 0, cred |-> cred]
           dr   == [d1 EXCEPT !.sessions = Drop(d1.sessions, {old})]
           en   == EndSession(d1, d1.sessions[old].id, at)
           d2   == IF same THEN dr ELSE IF live THEN en ELSE d1
<1>1. db' = AddSession(d2, v) /\ HasRoom(d1.sessions, SessionCapacity)
  BY DEF Login
<1>2. Sound(d1) /\ Settles(db, d1)
  BY PruneLogoutStateSound, PruningSettles, StartShape DEF Inv
<1>3. Tally(d1) /\ \A i : OpenSession(d1, i) => OpenSession(db, i)
  BY <1>2, SettlesTally
<1>4. /\ Shape(d1) /\ KeysDrawn(d1) /\ h \in Nat /\ h = db.next["session"]
      /\ at \in Nat \ {0} /\ SessionTTL \in Nat
  <2>1. Shape(d1) /\ KeysDrawn(d1) /\ h = db.next["session"]
    BY <1>2, SettlesShape DEF Sound, Settles
  <2>2. h \in Nat
    BY <1>2 DEF Sound, StoreOK, Kinds
  <2> QED BY <2>1, <2>2, ReadTimesAreTimes, Lifetimes
<1> HIDE DEF d1
<1>5. same => old \in DOMAIN d1.sessions /\ d1.sessions[old].ended = 0
              /\ d1.sessions[old].id \in Id /\ id = d1.sessions[old].id
  BY <1>4 DEF LiveSession, Shape, IsMap, Session
<1>6. v \in Session /\ v.id = id
  <2>1. id \in Id
    BY <1>4, <1>5 DEF Id
  <2> HIDE DEF id
  <2> QED BY <1>4, <2>1 DEF Session, Time
<1>7. Settles(d1, dr) /\ old \notin DOMAIN dr.sessions
  <2> DEFINE m == Drop(d1.sessions, {old})
  <2>1. /\ OnlyEnds(d1.sessions, m) /\ old \notin DOMAIN m
        /\ \A x \in DOMAIN m : m[x].id = d1.sessions[x].id
    BY DEF Drop, OnlyEnds
  <2>2. IsMap(m, Id \ {0}, Session)
    BY <1>4, DropMap DEF Shape
  <2> HIDE DEF m
  <2>3. Settles(d1, [d1 EXCEPT !.sessions = m])
    BY <1>4, <2>1, <2>2, RecordsSettle
  <2>4. [d1 EXCEPT !.sessions = m].sessions = m
    BY <1>4 DEF Shape, Fields
  <2> QED BY <2>1, <2>3, <2>4 DEF m
<1>8. Settles(d1, d2)
  <2>1. Settles(d1, en)
    BY <1>4, EndSessionsSettles DEF EndSession
  <2> HIDE DEF dr, en
  <2> QED BY <1>4, <1>7, <2>1, SettlesSelf
<1>9. \/ v.id = h
      \/ \E o \in DOMAIN d1.sessions \ DOMAIN d2.sessions :
            d1.sessions[o].ended = 0 /\ d1.sessions[o].id = v.id
  <2>1. CASE same
    <3>1. old \in DOMAIN d1.sessions \ DOMAIN d2.sessions
      BY <1>5, <1>7, <2>1
    <3> QED BY <1>5, <1>6, <2>1, <3>1
  <2>2. CASE ~same
    BY <1>6, <2>2
  <2> QED BY <2>1, <2>2
<1> HIDE DEF d2, v
<1>10. /\ Tally(AddSession(d2, v))
       /\ \A i : OpenSession(AddSession(d2, v), i) => OpenSession(d1, i) \/ i = h
  BY <1>1, <1>3, <1>4, <1>6, <1>8, <1>9, SignInTally
<1> QED BY <1>1, <1>3, <1>4, <1>10

\* The code exchange, which opens an app session at most.
LEMMA ExchangeTally ==
    ASSUME Inv, Tally(db), NEW k, NEW c \in Clients, NEW snap, ExchangeCode(k, c, snap)
    PROVE  /\ Tally(db')
           /\ \A id : OpenSession(db', id) => OpenSession(db, id)
<1> DEFINE code == db.codes[k]
           d1   == JoinApp(db, code)
           v    == [op |-> code.op, client |-> code.client, user |-> code.user, ended |-> 0]
           a    == db.next["app"]
           ap   == Put(db.apps, a, v)
<1>1. Shape(db)
  BY StartShape
<1>2. d1 # db => HasRoom(db.apps, AppCapacity)
  BY DEF ExchangeCode
<1>3. Settles(d1, db') \/ ~Shape(d1)
  <2> DEFINE live == LiveApps(d1, code.op, c)
             app  == IF code.op = 0 THEN 0 ELSE CHOOSE x \in live : TRUE
             off  == Offline \in code.scopes
             f    == NewFamily(code, k, app)
             fid  == IF off THEN d1.next["family"] ELSE 0
             used == [code EXCEPT !.consumed = TRUE, !.retain = CodeRetain(off)]
             tok  == [op |-> code.op, app |-> app, family |-> fid, code |-> k,
                      client |-> c, user |-> code.user, grant |-> "authorization_code",
                      scopes |-> code.scopes, rev |-> db.clients[c].rev,
                      exp |-> now + AccessTokenTTL, revoked |-> FALSE,
                      cred |-> code.cred, snap |-> snap]
             d2   == IF off THEN InitialRefresh(d1, f) ELSE d1
             d3   == [d2 EXCEPT !.codes = Put(d2.codes, k, used)]
             d4   == AddToken(d3, tok)
  <2>2. db' = PruneOIDCState(d4, now)
    BY DEF ExchangeCode
  <2> HIDE DEF app, f, fid, used, tok
  <2>3. SUFFICES ASSUME Shape(d1) PROVE Settles(d1, db')
    OBVIOUS
  <2> HIDE DEF code, d1
  <2>4. Settles(d1, d2)
    <3> DEFINE e == AddFamily(d1, f)
    <3>1. Settles(d1, e)
      BY <2>3, AddGrantsSettle
    <3> HIDE DEF e
    <3>2. \A w : Settles(d1, AddRefresh(e, w))
      BY <3>1, SettlesShape, AddGrantsSettle, SettlesTwice
    <3> QED BY <2>3, <3>2, SettlesSelf DEF InitialRefresh, e
  <2> HIDE DEF d2
  <2>5. Settles(d1, d3)
    BY <2>4, SettlesShape, OtherField, SettlesTwice
  <2> HIDE DEF d3
  <2>6. Settles(d1, d4)
    BY <2>5, SettlesShape, AddGrantsSettle, SettlesTwice
  <2> HIDE DEF d4
  <2> QED BY <2>2, <2>6, SettlesShape, PruneOIDCStateSettles, SettlesTwice
<1>4. Tally(d1) /\ Shape(d1) /\ \A id : OpenSession(d1, id) => OpenSession(db, id)
  <2>1. CASE d1 = db
    BY <1>1, <2>1
  <2>2. CASE d1 # db
    <3>1. code.op # 0 /\ LiveApps(db, code.op, code.client) = {} /\ d1 = AddApp(db, v)
      BY <2>2 DEF JoinApp, NewApp
    <3>2. v \in AppSession /\ OpenSession(db, v.op)
      <4>1. code \in AuthorizationCode
        BY DEF ExchangeCode, BoundCode, Inv, Sound, StoreOK, IsMap
      <4>2. OpenSession(db, code.op)
        BY <3>1 DEF ExchangeCode, SessionActive, OpenSession
      <4> HIDE DEF code
      <4> QED BY <4>1, <4>2 DEF AuthorizationCode, AppSession, Time
    <3>3. v.op = code.op /\ v.client = code.client
      OBVIOUS
    <3> HIDE DEF code, v
    <3>4. Shape(d1)
      BY <3>1, <3>2, AddAppSound, SoundShape DEF Inv
    <3>5. d1.sessions = db.sessions /\ d1.apps = ap /\ d1.next["session"] = db.next["session"]
      BY <1>1, <3>1 DEF AddApp, Draw, Shape, Fields, Kinds
    <3>6. /\ DOMAIN ap = DOMAIN db.apps \cup {a} /\ ap[a] = v
          /\ \A x \in DOMAIN db.apps : x # a => ap[x] = db.apps[x]
      BY DEF Put
    <3> HIDE DEF d1, ap, a
    <3>7. OneApp(d1)
      <4>1. SUFFICES ASSUME NEW x \in DOMAIN ap, NEW y \in DOMAIN ap,
                            ap[x].ended = 0, ap[y].ended = 0,
                            ap[x].op = ap[y].op, ap[x].client = ap[y].client
                     PROVE  x = y
        BY <3>5 DEF OneApp
      <4>2. \A z \in DOMAIN db.apps :
               ~(db.apps[z].op = v.op /\ db.apps[z].client = v.client /\ db.apps[z].ended = 0)
        BY <3>1, <3>3 DEF LiveApps
      <4>3. CASE x # a /\ y # a
        BY <3>6, <4>1, <4>3 DEF Tally, OneApp
      <4>4. CASE x = a \/ y = a
        BY <3>6, <4>1, <4>2, <4>4
      <4> QED BY <4>3, <4>4
    <3>8. Within(DOMAIN d1.apps, AppCapacity)
      BY <1>2, <2>2, <3>5, <3>6, Capacities, OneMore DEF Tally, Within, HasRoom
    <3>9. IdsDrawn(d1) /\ OneCookie(d1) /\ Within(DOMAIN d1.sessions, SessionCapacity)
      BY <3>5 DEF Tally, IdsDrawn, OneCookie
    <3>10. \A id : OpenSession(d1, id) => OpenSession(db, id)
      BY <3>5 DEF OpenSession
    <3> QED BY <3>4, <3>7, <3>8, <3>9, <3>10 DEF Tally
  <2> QED BY <2>1, <2>2
<1> HIDE DEF d1
<1>5. Settles(d1, db')
  BY <1>3, <1>4
<1> QED BY <1>4, <1>5, SettlesTally

(***************************************************************************)
(* The theorems.                                                           *)
(***************************************************************************)
\* A step keeps the counts, and signs in no session ID but a new one.
LEMMA StepTally ==
    ASSUME Inv, Tally(db), [Next]_vars
    PROVE  /\ Tally(db')
           /\ \A id : OpenSession(db', id) => OpenSession(db, id) \/ id = db.next["session"]
<1> DEFINE P == /\ Tally(db')
                /\ \A id : OpenSession(db', id) =>
                               OpenSession(db, id) \/ id = db.next["session"]
<1>1. ASSUME Settles(db, db') PROVE P
  BY <1>1, SettlesTally
<1>2. CASE SessionStep
  <2>1. CASE \E u \in Users : \E cred \in Creds(u), old \in DOMAIN db.sessions \cup {0},
                                 at \in ReadTimes : Login(u, cred, old, at)
    <3>1. PICK u \in Users : \E cred \in Creds(u), old \in DOMAIN db.sessions \cup {0},
                                at \in ReadTimes : Login(u, cred, old, at)
      BY <2>1
    <3>2. PICK cred \in Creds(u), old \in DOMAIN db.sessions \cup {0}, at \in ReadTimes :
               Login(u, cred, old, at)
      BY <3>1
    <3>3. cred \in Nat
      BY DEF Creds, Inv, Sound, StoreOK, IsMap, User
    <3> QED BY <3>2, <3>3, LoginTally
  <2>2. CASE ~ \E u \in Users : \E cred \in Creds(u), old \in DOMAIN db.sessions \cup {0},
                                   at \in ReadTimes : Login(u, cred, old, at)
    BY <1>1, <1>2, <2>2, SessionStepSettles
  <2> QED BY <2>1, <2>2
<1>3. CASE AuthorizeStep
  BY <1>1, <1>3, AuthorizeStepSettles
<1>4. CASE TokenStep
  <2>4. PICK c \in Clients : \E snap \in ReadRevs(c) : TokenRequest(c, snap)
    BY <1>4 DEF TokenStep
  <2>1. PICK snap \in ReadRevs(c) : TokenRequest(c, snap)
    BY <2>4
  <2>2. CASE \E k \in DOMAIN db.codes : ExchangeCode(k, c, snap)
    BY <2>2, ExchangeTally
  <2>3. CASE ~ \E k \in DOMAIN db.codes : ExchangeCode(k, c, snap)
    BY <1>1, <2>1, <2>3, TokenRequestSettles
  <2> QED BY <2>2, <2>3
<1>5. CASE AdminStep
  BY <1>1, <1>5, AdminStepSettles
<1>6. CASE ActivityStep
  BY <1>1, <1>6, ActivityStepSettles
<1>7. CASE Tick
  BY <1>1, <1>7, StartShape, SettlesSelf DEF Tick
<1>8. CASE UNCHANGED vars
  BY <1>1, <1>8, StartShape, SettlesSelf DEF vars
<1> QED BY <1>2, <1>3, <1>4, <1>5, <1>6, <1>7, <1>8 DEF Next

\* No record, nothing to count.
LEMMA InitTally == Init => Tally(db)
<1> SUFFICES ASSUME Init PROVE Tally(db)
  OBVIOUS
<1>1. db.sessions = <<>> /\ db.apps = <<>>
  BY DEF Init
<1>2. DOMAIN <<>> = {} /\ IsFiniteSet({}) /\ Cardinality({}) = 0
  BY FS_EmptySet
<1> QED BY <1>1, <1>2, Capacities DEF Tally, IdsDrawn, OneCookie, OneApp, Within

\* The counts hold of every reachable state.
LEMMA TallyHolds == Spec => [](Inv /\ Tally(db))
<1>1. Inv /\ Tally(db) /\ [Next]_vars => (Inv /\ Tally(db))'
  BY StepInv, StepTally
<1> QED BY <1>1, InitTally, InitInv, PTL DEF Spec

\* The store never keeps more session records than it is sized for, although
\* ended ones stay for the retention period and a sign-in both adds a record
\* and ends or drops another.
THEOREM CapacityIsHeld == Spec => []CapacityHeld
<1>1. Tally(db) => CapacityHeld
  BY DEF Tally, Within, CapacityHeld
<1> QED BY <1>1, TallyHolds, PTL

\* However sign-ins, exchanges and terminations interleave, one cookie at most
\* carries an open session ID and a client has one open app session under it.
THEOREM OneOfEachHolds == Spec => []OneOfEach
<1>1. Tally(db) => OneOfEach
  BY DEF Tally, OneCookie, OneApp, OneOfEach, OpenApp
<1> QED BY <1>1, TallyHolds, PTL

\* No step, whatever cookie it presents, signs a session ID in again whose
\* session ended.
THEOREM SignOutIsFinal == Spec => SignOutFinal
<1>1. Inv /\ Tally(db) /\ [Next]_vars =>
          [\A h \in DOMAIN db.sessions :
              LET id == db.sessions[h].id IN ~OpenSession(db, id) => ~OpenSession(db', id)]_vars
  <2> SUFFICES ASSUME Inv, Tally(db), [Next]_vars, NEW h \in DOMAIN db.sessions,
                      OpenSession(db', db.sessions[h].id)
               PROVE  OpenSession(db, db.sessions[h].id)
    OBVIOUS
  <2>1. db.sessions[h].id # db.next["session"]
    <3>1. db.sessions[h].id < db.next["session"]
      BY DEF Tally, IdsDrawn
    <3>2. db.sessions[h].id \in Nat /\ db.next["session"] \in Nat
      BY DEF Inv, Sound, StoreOK, IsMap, Session, Id, Kinds
    <3> QED BY <3>1, <3>2
  <2> QED BY <2>1, StepTally
<1> QED BY <1>1, TallyHolds, PTL DEF Spec, SignOutFinal
=============================================================================
