------------------------ MODULE IdentityStore_proofs ------------------------
(***************************************************************************)
(* Every store method maps a well-formed store, with every open app        *)
(* session under an open OP session, to one: the lemmas the theorems about *)
(* the components that write the store rest on.                            *)
(*                                                                         *)
(* The first group is about maps, the second about replacing one field of  *)
(* the store, the third has one lemma per method, and the fourth says what *)
(* the cascades among them take away and leave.                            *)
(***************************************************************************)
EXTENDS IdentityStore, TLAPS

\* credentials are drawn from next, so a new one is not in use
KeysDrawn(d) == \A h \in DOMAIN d.sessions : h < d.next["session"]

\* well formed, and no app session open under an ended OP session
Sound(d) == StoreOK(d) /\ Lineage(d) /\ KeysDrawn(d)

(***************************************************************************)
(* Maps.                                                                   *)
(***************************************************************************)
\* Insertion, deletion and the two flag updates keep a map's type.
LEMMA PutMap ==
    ASSUME NEW K, NEW V, NEW m, IsMap(m, K, V), NEW k \in K, NEW v \in V
    PROVE  IsMap(Put(m, k, v), K, V)
BY DEF IsMap, Put

\* Deletion keeps a map's type.
LEMMA DropMap ==
    ASSUME NEW K, NEW V, NEW m, IsMap(m, K, V), NEW S
    PROVE  IsMap(Drop(m, S), K, V)
BY DEF IsMap, Drop

\* Setting the revoked flag keeps a map's type.
LEMMA RevokeMap ==
    ASSUME NEW K, NEW V, NEW m, IsMap(m, K, V), NEW S,
           \A v \in V : [v EXCEPT !.revoked = TRUE] \in V
    PROVE  IsMap(Revoke(m, S), K, V)
BY DEF IsMap, Revoke

\* So does setting the end of sessions.
LEMMA EndMap ==
    ASSUME NEW K, NEW V, NEW m, IsMap(m, K, V), NEW S, NEW t,
           \A v \in V : [v EXCEPT !.ended = t] \in V
    PROVE  IsMap(End(m, S, t), K, V)
BY DEF IsMap, End

\* Revocation keeps the type of every kind of grant, whichever records it is
\* applied to.
LEMMA RevokeGrants ==
    ASSUME NEW d, StoreOK(d), NEW S
    PROVE  /\ IsMap(Revoke(d.txns, S), Id \ {0}, AuthzTransaction)
           /\ IsMap(Revoke(d.codes, S), Id \ {0}, AuthorizationCode)
           /\ IsMap(Revoke(d.tokens, S), Id \ {0}, AccessToken)
           /\ IsMap(Revoke(d.families, S), Id \ {0}, RefreshFamily)
<1>1. \A v \in AuthzTransaction : [v EXCEPT !.revoked = TRUE] \in AuthzTransaction
  BY DEF AuthzTransaction
<1>2. \A v \in AuthorizationCode : [v EXCEPT !.revoked = TRUE] \in AuthorizationCode
  BY DEF AuthorizationCode
<1>3. \A v \in AccessToken : [v EXCEPT !.revoked = TRUE] \in AccessToken
  BY DEF AccessToken
<1>4. \A v \in RefreshFamily : [v EXCEPT !.revoked = TRUE] \in RefreshFamily
  BY DEF RefreshFamily
<1> QED BY <1>1, <1>2, <1>3, <1>4, RevokeMap DEF StoreOK

\* Ending at a time keeps the type of sessions and app sessions.
LEMMA EndRecords ==
    ASSUME NEW d, StoreOK(d), NEW S, NEW t \in Nat
    PROVE  /\ IsMap(End(d.sessions, S, t), Id \ {0}, Session)
           /\ IsMap(End(d.apps, S, t), Id \ {0}, AppSession)
<1>1. \A v \in Session : [v EXCEPT !.ended = t] \in Session
  BY DEF Session, Time
<1>2. \A v \in AppSession : [v EXCEPT !.ended = t] \in AppSession
  BY DEF AppSession, Time
<1> QED BY <1>1, <1>2, EndMap DEF StoreOK

(***************************************************************************)
(* One field of the store replaced.                                        *)
(***************************************************************************)
\* The lineage is a matter of the sessions and app sessions alone.
LEMMA SameSessions ==
    ASSUME NEW d, NEW e, Lineage(d), KeysDrawn(d), e.sessions = d.sessions,
           e.apps = d.apps, e.next = d.next
    PROVE  Lineage(e) /\ KeysDrawn(e)
BY DEF Lineage, OpenSession, KeysDrawn

\* The accounts can be replaced by any map of accounts.
LEMMA SetUsers ==
    ASSUME NEW d, Sound(d), NEW m, IsMap(m, Users, User)
    PROVE  Sound([d EXCEPT !.users = m])
<1> DEFINE e == [d EXCEPT !.users = m]
<1>1. StoreOK(e) /\ e.sessions = d.sessions /\ e.apps = d.apps /\ e.next = d.next
  BY DEF Sound, StoreOK
<1> QED BY <1>1, SameSessions DEF Sound

\* So can the clients,
LEMMA SetClients ==
    ASSUME NEW d, Sound(d), NEW m, IsMap(m, Clients, Client)
    PROVE  Sound([d EXCEPT !.clients = m])
<1> DEFINE e == [d EXCEPT !.clients = m]
<1>1. StoreOK(e) /\ e.sessions = d.sessions /\ e.apps = d.apps /\ e.next = d.next
  BY DEF Sound, StoreOK
<1> QED BY <1>1, SameSessions DEF Sound

\* the OAuth policies,
LEMMA SetPolicy ==
    ASSUME NEW d, Sound(d), NEW m, m \in [Clients -> SUBSET PolicyGrants]
    PROVE  Sound([d EXCEPT !.policy = m])
<1> DEFINE e == [d EXCEPT !.policy = m]
<1>1. StoreOK(e) /\ e.sessions = d.sessions /\ e.apps = d.apps /\ e.next = d.next
  BY DEF Sound, StoreOK
<1> QED BY <1>1, SameSessions DEF Sound

\* the OAuth entitlements,
LEMMA SetAccess ==
    ASSUME NEW d, Sound(d), NEW m, m \in [Users -> BOOLEAN]
    PROVE  Sound([d EXCEPT !.access = m])
<1> DEFINE e == [d EXCEPT !.access = m]
<1>1. StoreOK(e) /\ e.sessions = d.sessions /\ e.apps = d.apps /\ e.next = d.next
  BY DEF Sound, StoreOK
<1> QED BY <1>1, SameSessions DEF Sound

\* the authorization transactions,
LEMMA SetTxns ==
    ASSUME NEW d, Sound(d), NEW m, IsMap(m, Id \ {0}, AuthzTransaction)
    PROVE  Sound([d EXCEPT !.txns = m])
<1> DEFINE e == [d EXCEPT !.txns = m]
<1>1. StoreOK(e) /\ e.sessions = d.sessions /\ e.apps = d.apps /\ e.next = d.next
  BY DEF Sound, StoreOK
<1> QED BY <1>1, SameSessions DEF Sound

\* the codes,
LEMMA SetCodes ==
    ASSUME NEW d, Sound(d), NEW m, IsMap(m, Id \ {0}, AuthorizationCode)
    PROVE  Sound([d EXCEPT !.codes = m])
<1> DEFINE e == [d EXCEPT !.codes = m]
<1>1. StoreOK(e) /\ e.sessions = d.sessions /\ e.apps = d.apps /\ e.next = d.next
  BY DEF Sound, StoreOK
<1> QED BY <1>1, SameSessions DEF Sound

\* the access tokens,
LEMMA SetTokens ==
    ASSUME NEW d, Sound(d), NEW m, IsMap(m, Id \ {0}, AccessToken)
    PROVE  Sound([d EXCEPT !.tokens = m])
<1> DEFINE e == [d EXCEPT !.tokens = m]
<1>1. StoreOK(e) /\ e.sessions = d.sessions /\ e.apps = d.apps /\ e.next = d.next
  BY DEF Sound, StoreOK
<1> QED BY <1>1, SameSessions DEF Sound

\* the refresh families,
LEMMA SetFamilies ==
    ASSUME NEW d, Sound(d), NEW m, IsMap(m, Id \ {0}, RefreshFamily)
    PROVE  Sound([d EXCEPT !.families = m])
<1> DEFINE e == [d EXCEPT !.families = m]
<1>1. StoreOK(e) /\ e.sessions = d.sessions /\ e.apps = d.apps /\ e.next = d.next
  BY DEF Sound, StoreOK
<1> QED BY <1>1, SameSessions DEF Sound

\* the refresh tokens,
LEMMA SetRefresh ==
    ASSUME NEW d, Sound(d), NEW m, IsMap(m, Id \ {0}, RefreshToken)
    PROVE  Sound([d EXCEPT !.refresh = m])
<1> DEFINE e == [d EXCEPT !.refresh = m]
<1>1. StoreOK(e) /\ e.sessions = d.sessions /\ e.apps = d.apps /\ e.next = d.next
  BY DEF Sound, StoreOK
<1> QED BY <1>1, SameSessions DEF Sound

\* the consents,
LEMMA SetConsents ==
    ASSUME NEW d, Sound(d), NEW m, IsMap(m, Users \X Clients, Consent)
    PROVE  Sound([d EXCEPT !.consents = m])
<1> DEFINE e == [d EXCEPT !.consents = m]
<1>1. StoreOK(e) /\ e.sessions = d.sessions /\ e.apps = d.apps /\ e.next = d.next
  BY DEF Sound, StoreOK
<1> QED BY <1>1, SameSessions DEF Sound

\* and the key counters, as long as they do not go back.
LEMMA SetNext ==
    ASSUME NEW d, Sound(d), NEW m \in [Kinds -> Nat \ {0}],
           d.next["session"] <= m["session"]
    PROVE  Sound([d EXCEPT !.next = m])
<1> DEFINE e == [d EXCEPT !.next = m]
<1>1. StoreOK(e) /\ e.sessions = d.sessions /\ e.apps = d.apps /\ e.next = m
  BY DEF Sound, StoreOK
<1>2. Lineage(e)
  BY <1>1 DEF Sound, Lineage, OpenSession
<1>3. ASSUME NEW h \in DOMAIN d.sessions PROVE h < m["session"]
  <2>1. h \in Nat /\ h < d.next["session"] /\ d.next["session"] \in Nat /\ m["session"] \in Nat
    BY DEF Sound, StoreOK, IsMap, KeysDrawn, Id, Kinds
  <2> QED BY <2>1
<1> QED BY <1>1, <1>2, <1>3 DEF Sound, KeysDrawn

\* The sessions and app sessions, with what the methods below need to know of
\* the other fields.
LEMMA SetSessions ==
    ASSUME NEW d, StoreOK(d), NEW m, IsMap(m, Id \ {0}, Session)
    PROVE  LET e == [d EXCEPT !.sessions = m] IN
           StoreOK(e) /\ e.sessions = m /\ e.apps = d.apps /\ e.next = d.next
BY DEF StoreOK

\* App sessions may be replaced where that opens none.
LEMMA SetApps ==
    ASSUME NEW d, StoreOK(d), NEW m, IsMap(m, Id \ {0}, AppSession)
    PROVE  LET e == [d EXCEPT !.apps = m] IN
           StoreOK(e) /\ e.sessions = d.sessions /\ e.apps = m /\ e.next = d.next
BY DEF StoreOK

\* Two fields at once.
LEMMA SetFamiliesTokens ==
    ASSUME NEW d, Sound(d), NEW f, IsMap(f, Id \ {0}, RefreshFamily),
           NEW m, IsMap(m, Id \ {0}, AccessToken)
    PROVE  Sound([d EXCEPT !.families = f, !.tokens = m])
<1> DEFINE e == [d EXCEPT !.families = f]
<1>1. Sound(e)
  BY SetFamilies
<1>2. Sound([e EXCEPT !.tokens = m])
  BY <1>1, SetTokens
<1>3. [e EXCEPT !.tokens = m] = [d EXCEPT !.families = f, !.tokens = m]
  OBVIOUS
<1> QED BY <1>2, <1>3

\* Transactions and codes replaced together.
LEMMA SetTxnsCodes ==
    ASSUME NEW d, Sound(d), NEW x, IsMap(x, Id \ {0}, AuthzTransaction),
           NEW k, IsMap(k, Id \ {0}, AuthorizationCode)
    PROVE  /\ Sound([d EXCEPT !.txns = x, !.codes = k])
           /\ Sound([d EXCEPT !.codes = k, !.txns = x])
<1> DEFINE e == [d EXCEPT !.txns = x]
           g == [d EXCEPT !.codes = k]
<1>1. Sound(e) /\ Sound(g)
  BY SetTxns, SetCodes
<1>2. Sound([e EXCEPT !.codes = k]) /\ Sound([g EXCEPT !.txns = x])
  BY <1>1, SetCodes, SetTxns
<1>3. /\ [e EXCEPT !.codes = k] = [d EXCEPT !.txns = x, !.codes = k]
      /\ [g EXCEPT !.txns = x] = [d EXCEPT !.codes = k, !.txns = x]
  OBVIOUS
<1> QED BY <1>2, <1>3

\* Codes, transactions and consents replaced together.
LEMMA SetCodesTxnsConsents ==
    ASSUME NEW d, Sound(d), NEW k, IsMap(k, Id \ {0}, AuthorizationCode),
           NEW x, IsMap(x, Id \ {0}, AuthzTransaction),
           NEW w, IsMap(w, Users \X Clients, Consent)
    PROVE  Sound([d EXCEPT !.codes = k, !.txns = x, !.consents = w])
<1> DEFINE e == [d EXCEPT !.codes = k, !.txns = x]
<1>1. Sound(e)
  BY SetTxnsCodes
<1>2. Sound([e EXCEPT !.consents = w])
  BY <1>1, SetConsents
<1>3. [e EXCEPT !.consents = w] = [d EXCEPT !.codes = k, !.txns = x, !.consents = w]
  OBVIOUS
<1> QED BY <1>2, <1>3

(***************************************************************************)
(* Grant revocation.                                                       *)
(***************************************************************************)
\* RevokeRefreshFamily on a set of families.
LEMMA RevokeFamiliesSound ==
    ASSUME NEW d, Sound(d), NEW F
    PROVE  Sound(RevokeFamilies(d, F))
<1> DEFINE T == {k \in DOMAIN d.tokens : d.tokens[k].family \in F \cap DOMAIN d.families}
<1>1. IsMap(Revoke(d.families, F), Id \ {0}, RefreshFamily)
      /\ IsMap(Revoke(d.tokens, T), Id \ {0}, AccessToken)
  BY RevokeGrants DEF Sound
<1> HIDE DEF T
<1>2. Sound([d EXCEPT !.families = Revoke(d.families, F), !.tokens = Revoke(d.tokens, T)])
  BY <1>1, SetFamiliesTokens
<1> QED BY <1>2 DEF RevokeFamilies, T

\* RevokeRefreshFamily.
LEMMA RevokeRefreshFamilySound ==
    ASSUME NEW d, Sound(d), NEW f
    PROVE  Sound(RevokeRefreshFamily(d, f))
BY RevokeFamiliesSound DEF RevokeRefreshFamily

\* Revoking any set of access tokens.
LEMMA RevokeTokensSound ==
    ASSUME NEW d, Sound(d), NEW S
    PROVE  Sound([d EXCEPT !.tokens = Revoke(d.tokens, S)])
BY SetTokens, RevokeGrants DEF Sound

\* RevokeAccessToken and its ForUser, ForClient and ForCode variants.
LEMMA RevokeAccessTokensSound ==
    ASSUME NEW d, Sound(d), NEW x
    PROVE  /\ Sound(RevokeAccessToken(d, x))
           /\ Sound(RevokeAccessTokensForUser(d, x))
           /\ Sound(RevokeAccessTokensForClient(d, x))
           /\ Sound(RevokeAccessTokensForCode(d, x))
<1>1. Sound(RevokeAccessToken(d, x))
  BY RevokeTokensSound DEF RevokeAccessToken
<1>2. Sound(RevokeAccessTokensForUser(d, x))
  BY RevokeFamiliesSound, RevokeTokensSound DEF RevokeAccessTokensForUser
<1>3. Sound(RevokeAccessTokensForClient(d, x))
  BY RevokeFamiliesSound, RevokeTokensSound DEF RevokeAccessTokensForClient
<1>4. Sound(RevokeAccessTokensForCode(d, x))
  BY RevokeFamiliesSound, RevokeTokensSound DEF RevokeAccessTokensForCode
<1> QED BY <1>1, <1>2, <1>3, <1>4

(***************************************************************************)
(* Session termination.                                                    *)
(***************************************************************************)
\* Ending app sessions leaves open exactly those it was not asked to end.
LEMMA EndAppSessionsSound ==
    ASSUME NEW d, StoreOK(d), NEW A, NEW t \in Nat \ {0}
    PROVE  LET e == EndAppSessions(d, A, t) IN
           /\ StoreOK(e) /\ e.sessions = d.sessions /\ e.clients = d.clients
           /\ e.next = d.next
           /\ \A a \in DOMAIN e.apps :
                  e.apps[a].ended = 0 => /\ a \in DOMAIN d.apps /\ a \notin A
                                         /\ d.apps[a] = e.apps[a]
           /\ Sound(d) => Sound(e)
<1> DEFINE E == {a \in A \cap DOMAIN d.apps : d.apps[a].ended = 0}
           Cut(m) == {x \in DOMAIN m : \E a \in E : /\ m[x].op = d.apps[a].op
                                                    /\ m[x].client = d.apps[a].client}
           T == {k \in DOMAIN d.tokens : d.tokens[k].app \in E /\ d.tokens[k].family = 0}
           ap == End(d.apps, E, t)
           to == Revoke(d.tokens, T)
           co == Revoke(d.codes, Cut(d.codes))
           tx == Revoke(d.txns, Cut(d.txns))
           e  == EndAppSessions(d, A, t)
<1>1. /\ IsMap(ap, Id \ {0}, AppSession) /\ IsMap(to, Id \ {0}, AccessToken)
      /\ IsMap(co, Id \ {0}, AuthorizationCode) /\ IsMap(tx, Id \ {0}, AuthzTransaction)
  BY EndRecords, RevokeGrants
<1>2. e = [d EXCEPT !.apps = ap, !.tokens = to, !.codes = co, !.txns = tx]
  BY DEF EndAppSessions
<1>3. StoreOK(e) /\ e.sessions = d.sessions /\ e.clients = d.clients /\ e.apps = ap
      /\ e.next = d.next
  <2> HIDE DEF ap, to, co, tx, e
  <2> DEFINE e1 == [d EXCEPT !.apps = ap]
             e2 == [e1 EXCEPT !.tokens = to]
             e3 == [e2 EXCEPT !.codes = co]
             e4 == [e3 EXCEPT !.txns = tx]
  <2>1. StoreOK(e1) /\ e1.sessions = d.sessions /\ e1.clients = d.clients /\ e1.apps = ap
        /\ e1.next = d.next
    BY <1>1 DEF StoreOK
  <2>2. StoreOK(e2) /\ e2.sessions = d.sessions /\ e2.clients = d.clients /\ e2.apps = ap
        /\ e2.next = d.next
    <3> HIDE DEF e1
    <3> QED BY <1>1, <2>1 DEF StoreOK
  <2>3. StoreOK(e3) /\ e3.sessions = d.sessions /\ e3.clients = d.clients /\ e3.apps = ap
        /\ e3.next = d.next
    <3> HIDE DEF e2
    <3> QED BY <1>1, <2>2 DEF StoreOK
  <2>4. StoreOK(e4) /\ e4.sessions = d.sessions /\ e4.clients = d.clients /\ e4.apps = ap
        /\ e4.next = d.next
    <3> HIDE DEF e3
    <3> QED BY <1>1, <2>3 DEF StoreOK
  <2>5. e = e4
    BY <1>2
  <2> QED BY <2>4, <2>5
<1>4. \A a \in DOMAIN e.apps :
         e.apps[a].ended = 0 => /\ a \in DOMAIN d.apps /\ a \notin A
                                /\ d.apps[a] = e.apps[a]
  <2>1. SUFFICES ASSUME NEW a \in DOMAIN ap, ap[a].ended = 0
                 PROVE  a \in DOMAIN d.apps /\ a \notin A /\ d.apps[a] = ap[a]
    BY <1>3
  <2>2. a \in DOMAIN d.apps
    BY DEF End
  <2>3. d.apps[a] \in AppSession
    BY <2>2 DEF StoreOK, IsMap
  <2>4. a \notin E
    <3>1. SUFFICES ASSUME a \in E PROVE FALSE
      OBVIOUS
    <3>2. ap[a] = [d.apps[a] EXCEPT !.ended = t]
      BY <2>2, <3>1 DEF End
    <3>3. ap[a].ended = t
      BY <2>3, <3>2 DEF AppSession
    <3> QED BY <2>1, <3>3
  <2>5. ap[a] = d.apps[a]
    BY <2>2, <2>4 DEF End
  <2> QED BY <2>1, <2>2, <2>4, <2>5
<1>5. Lineage(d) => Lineage(e)
  <2> HIDE DEF e
  <2>1. SUFFICES ASSUME Lineage(d), NEW a \in DOMAIN e.apps, e.apps[a].ended = 0
                 PROVE  OpenSession(e, e.apps[a].op)
    BY DEF Lineage
  <2>2. OpenSession(d, d.apps[a].op)
    BY <1>4, <2>1 DEF Lineage
  <2> QED BY <1>3, <1>4, <2>1, <2>2 DEF OpenSession
<1>6. KeysDrawn(d) => KeysDrawn(e)
  <2> HIDE DEF e
  <2> QED BY <1>3 DEF KeysDrawn
<1> QED BY <1>3, <1>4, <1>5, <1>6 DEF Sound

\* Ending OP sessions ends every app session under them, so the lineage stands.
LEMMA EndSessionsSound ==
    ASSUME NEW d, Sound(d), NEW I, NEW t \in Nat \ {0}
    PROVE  Sound(EndSessions(d, I, t)) /\ EndSessions(d, I, t).clients = d.clients
<1> DEFINE H  == ToEnd(d, I)
           J  == {d.sessions[h].id : h \in H}
           A  == Under(d.apps, J)
           d1 == EndAppSessions(d, A, t)
           se == End(d1.sessions, H, t)
           tx == Revoke(d1.txns, Under(d1.txns, J))
           co == Revoke(d1.codes, Under(d1.codes, J))
           e  == [d1 EXCEPT !.sessions = se]
<1>1. /\ StoreOK(d1) /\ d1.sessions = d.sessions /\ d1.clients = d.clients
      /\ d1.next = d.next
      /\ \A a \in DOMAIN d1.apps :
            d1.apps[a].ended = 0 => /\ a \in DOMAIN d.apps /\ a \notin A
                                    /\ d.apps[a] = d1.apps[a]
  BY EndAppSessionsSound DEF Sound
<1> HIDE DEF d1
<1>2. /\ IsMap(se, Id \ {0}, Session) /\ IsMap(tx, Id \ {0}, AuthzTransaction)
      /\ IsMap(co, Id \ {0}, AuthorizationCode)
  BY <1>1, EndRecords, RevokeGrants
<1>3. StoreOK(e) /\ e.sessions = se /\ e.apps = d1.apps /\ e.clients = d.clients
      /\ e.txns = d1.txns /\ e.codes = d1.codes /\ e.next = d.next
  <2> HIDE DEF se
  <2> QED BY <1>1, <1>2 DEF StoreOK
<1>4. Lineage(e)
  <2>1. SUFFICES ASSUME NEW a \in DOMAIN d1.apps, d1.apps[a].ended = 0
                 PROVE  OpenSession(e, d1.apps[a].op)
    BY <1>3 DEF Lineage
  <2>2. PICK h \in DOMAIN d.sessions : /\ d.sessions[h].id = d1.apps[a].op
                                      /\ d.sessions[h].ended = 0
    BY ZenonT(40), <1>1, <2>1 DEF Sound, Lineage, OpenSession
  <2>3. h \notin H
    <3>1. SUFFICES ASSUME h \in H PROVE FALSE
      OBVIOUS
    <3>2. a \in A
      BY <1>1, <2>1, <2>2, <3>1 DEF Under
    <3> QED BY <1>1, <2>1, <3>2
  <2>4. h \in DOMAIN se /\ se[h] = d.sessions[h]
    BY <1>1, <2>2, <2>3 DEF End
  <2> QED BY <1>3, <2>2, <2>4 DEF OpenSession
<1>5. Sound(e)
  <2>1. KeysDrawn(e)
    BY <1>1, <1>3 DEF Sound, KeysDrawn, End
  <2> QED BY <1>3, <1>4, <2>1 DEF Sound
<1>6. Sound([e EXCEPT !.txns = tx, !.codes = co])
  <2> HIDE DEF e, tx, co
  <2> QED BY <1>2, <1>5, SetTxnsCodes
<1>7. [e EXCEPT !.txns = tx, !.codes = co].clients = d.clients
  <2> HIDE DEF e, tx, co
  <2>1. [e EXCEPT !.txns = tx].clients = d.clients /\ StoreOK([e EXCEPT !.txns = tx])
    BY <1>2, <1>3 DEF StoreOK
  <2>2. [[e EXCEPT !.txns = tx] EXCEPT !.codes = co].clients = d.clients
    BY <2>1 DEF StoreOK
  <2>3. [[e EXCEPT !.txns = tx] EXCEPT !.codes = co] = [e EXCEPT !.txns = tx, !.codes = co]
    OBVIOUS
  <2> QED BY <2>2, <2>3
<1>8. EndSessions(d, I, t) = [e EXCEPT !.txns = tx, !.codes = co]
  BY DEF EndSessions, d1
<1> QED BY <1>6, <1>7, <1>8

\* EndSession, one session ID.
LEMMA EndSessionSound ==
    ASSUME NEW d, Sound(d), NEW id, NEW t \in Nat \ {0}
    PROVE  Sound(EndSession(d, id, t))
BY EndSessionsSound DEF EndSession

(***************************************************************************)
(* Account, client, policy and consent changes.                            *)
(***************************************************************************)
\* DeleteUserSessions: grants, transactions and consents go, sessions end.
LEMMA DeleteUserSessionsSound ==
    ASSUME NEW d, Sound(d), NEW u, NEW t \in Nat \ {0}
    PROVE  Sound(DeleteUserSessions(d, u, t))
<1> DEFINE d1 == RevokeAccessTokensForUser(d, u)
           co == Drop(d1.codes, {k \in DOMAIN d1.codes : d1.codes[k].user = u})
           tx == Drop(d1.txns, {k \in DOMAIN d1.txns : d1.txns[k].user = u})
           cs == Drop(d1.consents, {w \in DOMAIN d1.consents : w[1] = u})
           d2 == [d1 EXCEPT !.codes = co, !.txns = tx, !.consents = cs]
<1>1. Sound(d1)
  BY RevokeAccessTokensSound
<1> HIDE DEF d1
<1>2. /\ IsMap(co, Id \ {0}, AuthorizationCode) /\ IsMap(tx, Id \ {0}, AuthzTransaction)
      /\ IsMap(cs, Users \X Clients, Consent)
  BY <1>1, DropMap DEF Sound, StoreOK
<1>3. Sound(d2)
  <2> HIDE DEF co, tx, cs
  <2> QED BY <1>1, <1>2, SetCodesTxnsConsents
<1>4. Sound(EndSessions(d2, SessionsOf(d2, u), t))
  <2> HIDE DEF d2
  <2> QED BY <1>3, EndSessionsSound
<1> QED BY <1>4 DEF DeleteUserSessions, d1

\* SaveUser, with the cascade of a changed account.
LEMMA SaveUserSound ==
    ASSUME NEW d, Sound(d), NEW u \in Users, NEW new \in User, NEW t \in Nat \ {0}
    PROVE  Sound(SaveUser(d, u, new, t))
<1> DEFINE d1 == IF u \in DOMAIN d.users /\ d.users[u] # new
                 THEN DeleteUserSessions(d, u, t) ELSE d
<1>1. Sound(d1)
  BY DeleteUserSessionsSound
<1> HIDE DEF d1
<1>2. IsMap(Put(d1.users, u, new), Users, User)
  BY <1>1, PutMap DEF Sound, StoreOK
<1>3. Sound([d1 EXCEPT !.users = Put(d1.users, u, new)])
  BY <1>1, <1>2, SetUsers
<1> QED BY <1>3 DEF SaveUser, d1

\* DeleteUser.
LEMMA DeleteUserSound ==
    ASSUME NEW d, Sound(d), NEW u \in Users, NEW t \in Nat \ {0}
    PROVE  Sound(DeleteUser(d, u, t))
<1> DEFINE us == Drop(d.users, {u})
           ac == [d.access EXCEPT ![u] = FALSE]
           d1 == [d EXCEPT !.users = us]
<1>1. IsMap(us, Users, User) /\ ac \in [Users -> BOOLEAN]
  BY DropMap DEF Sound, StoreOK
<1> HIDE DEF us, ac
<1>2. Sound(d1)
  BY <1>1, SetUsers
<1>3. Sound([d1 EXCEPT !.access = ac])
  <2> HIDE DEF d1
  <2> QED BY <1>1, <1>2, SetAccess
<1>4. [d1 EXCEPT !.access = ac] = [d EXCEPT !.users = us, !.access = ac]
  OBVIOUS
<1>5. Sound(DeleteUserSessions([d EXCEPT !.users = us, !.access = ac], u, t))
  BY <1>3, <1>4, DeleteUserSessionsSound
<1> QED BY <1>5 DEF DeleteUser, us, ac

\* The cut-off of a client leaves the clients themselves alone.
LEMMA InvalidateClientGrantsSound ==
    ASSUME NEW d, Sound(d), NEW c, NEW t \in Nat \ {0}
    PROVE  /\ Sound(InvalidateClientGrants(d, c, t))
           /\ InvalidateClientGrants(d, c, t).clients = d.clients
<1> DEFINE d1 == EndAppSessions(d, {a \in DOMAIN d.apps : d.apps[a].client = c}, t)
           d2 == RevokeAccessTokensForClient(d1, c)
           co == Drop(d2.codes, {k \in DOMAIN d2.codes : d2.codes[k].client = c})
           tx == Drop(d2.txns, {k \in DOMAIN d2.txns : d2.txns[k].client = c})
           cs == Drop(d2.consents, {w \in DOMAIN d2.consents : w[2] = c})
           e  == [d2 EXCEPT !.codes = co, !.txns = tx, !.consents = cs]
<1>1. Sound(d1) /\ d1.clients = d.clients
  BY EndAppSessionsSound DEF Sound
<1> HIDE DEF d1
<1>2. Sound(d2)
  BY <1>1, RevokeAccessTokensSound
<1>3. d2.clients = d.clients
  BY <1>1 DEF RevokeAccessTokensForClient, RevokeFamilies, Sound, StoreOK
<1> HIDE DEF d2
<1>4. /\ IsMap(co, Id \ {0}, AuthorizationCode) /\ IsMap(tx, Id \ {0}, AuthzTransaction)
      /\ IsMap(cs, Users \X Clients, Consent)
  BY <1>2, DropMap DEF Sound, StoreOK
<1> HIDE DEF co, tx, cs
<1>5. Sound(e)
  BY <1>2, <1>4, SetCodesTxnsConsents
<1>6. e.clients = d2.clients
  BY <1>2 DEF Sound, StoreOK
<1>7. e = InvalidateClientGrants(d, c, t)
  BY DEF InvalidateClientGrants, d1, d2, co, tx, cs
<1> QED BY <1>3, <1>5, <1>6, <1>7

\* SaveClient, with the invalidation of the client's grants.
LEMMA SaveClientSound ==
    ASSUME NEW d, Sound(d), NEW c \in DOMAIN d.clients, NEW t \in Nat \ {0}
    PROVE  Sound(SaveClient(d, c, t))
<1> DEFINE d1 == InvalidateClientGrants(d, c, t)
           v  == [rev |-> d1.clients[c].rev + 1]
<1>1. Sound(d1) /\ d1.clients = d.clients
  BY InvalidateClientGrantsSound
<1> HIDE DEF d1
<1>2. c \in Clients /\ d.clients[c] \in Client
  BY DEF Sound, StoreOK, IsMap
<1>3. v \in Client
  BY <1>1, <1>2 DEF Client
<1> HIDE DEF v
<1>4. IsMap(Put(d1.clients, c, v), Clients, Client)
  BY <1>1, <1>2, <1>3, PutMap DEF Sound, StoreOK
<1>5. Sound([d1 EXCEPT !.clients = Put(d1.clients, c, v)])
  BY <1>1, <1>4, SetClients
<1> QED BY <1>5 DEF SaveClient, d1, v

\* SaveOAuthPolicy.
LEMMA SaveOAuthPolicySound ==
    ASSUME NEW d, Sound(d), NEW c, NEW p \in SUBSET PolicyGrants, NEW t \in Nat \ {0}
    PROVE  Sound(SaveOAuthPolicy(d, c, p, t))
<1> DEFINE po == [d.policy EXCEPT ![c] = p]
<1>1. po \in [Clients -> SUBSET PolicyGrants]
  BY DEF Sound, StoreOK
<1> HIDE DEF po
<1>2. Sound([d EXCEPT !.policy = po])
  BY <1>1, SetPolicy
<1>3. Sound(InvalidateClientGrants([d EXCEPT !.policy = po], c, t))
  BY <1>2, InvalidateClientGrantsSound
<1> QED BY <1>3 DEF SaveOAuthPolicy, po

\* DeleteClient.
LEMMA DeleteClientSound ==
    ASSUME NEW d, Sound(d), NEW c, NEW t \in Nat \ {0}
    PROVE  Sound(DeleteClient(d, c, t))
<1> DEFINE d1 == SaveOAuthPolicy(d, c, {}, t)
<1>1. Sound(d1)
  BY SaveOAuthPolicySound
<1>2. IsMap(Drop(d1.clients, {c}), Clients, Client)
  <2> HIDE DEF d1
  <2> QED BY <1>1, DropMap DEF Sound, StoreOK
<1>3. Sound([d1 EXCEPT !.clients = Drop(d1.clients, {c})])
  <2> HIDE DEF d1
  <2> QED BY <1>1, <1>2, SetClients
<1> QED BY <1>3 DEF DeleteClient, SaveOAuthPolicy

\* SaveOAuthAccess.
LEMMA SaveOAuthAccessSound ==
    ASSUME NEW d, Sound(d), NEW u, NEW allowed \in BOOLEAN, NEW t \in Nat \ {0}
    PROVE  Sound(SaveOAuthAccess(d, u, allowed, t))
<1> DEFINE ac == [d.access EXCEPT ![u] = allowed]
           d1 == [d EXCEPT !.access = ac]
           d2 == EndAppSessions(d1, {a \in DOMAIN d1.apps : d1.apps[a].user = u}, t)
<1>1. ac \in [Users -> BOOLEAN]
  BY DEF Sound, StoreOK
<1> HIDE DEF ac
<1>2. Sound(d1)
  BY <1>1, SetAccess
<1> HIDE DEF d1
<1>3. Sound(d2)
  BY <1>2, EndAppSessionsSound DEF Sound
<1> HIDE DEF d2
<1>4. Sound(RevokeAccessTokensForUser(d2, u))
  BY <1>3, RevokeAccessTokensSound
<1> QED BY <1>4 DEF SaveOAuthAccess, d2, d1, ac

\* SaveConsent, revoked or granted.
LEMMA SaveConsentSound ==
    ASSUME NEW d, Sound(d), NEW u \in Users, NEW c \in Clients, NEW new \in Consent,
           NEW t \in Nat \ {0}
    PROVE  Sound(SaveConsent(d, u, c, new, t))
<1> DEFINE d1 == EndAppSessions(d, AppSessionsOf(d, u, c), t)
           d2 == RevokeFamilies(d1, {f \in DOMAIN d1.families :
                     d1.families[f].user = u /\ d1.families[f].client = c})
           d3 == IF new.revoked THEN d2 ELSE d
<1>1. Sound(d1)
  BY EndAppSessionsSound DEF Sound
<1> HIDE DEF d1
<1>2. Sound(d2)
  BY <1>1, RevokeFamiliesSound
<1> HIDE DEF d2
<1>3. Sound(d3)
  BY <1>2
<1> HIDE DEF d3
<1>4. IsMap(Put(d3.consents, <<u, c>>, new), Users \X Clients, Consent)
  BY <1>3, PutMap DEF Sound, StoreOK
<1>5. Sound([d3 EXCEPT !.consents = Put(d3.consents, <<u, c>>, new)])
  BY <1>3, <1>4, SetConsents
<1> QED BY <1>5 DEF SaveConsent, d3, d2, d1

(***************************************************************************)
(* Pruning.                                                                *)
(***************************************************************************)
\* Only ended sessions and app sessions are dropped.
LEMMA PruneLogoutStateSound ==
    ASSUME NEW d, Sound(d), NEW t \in Nat \ {0}
    PROVE  Sound(PruneLogoutState(d, t))
<1> DEFINE d1 == PruneSessions(d, t)
           ap == Drop(d1.apps, Retired(d1.apps, t))
           se == Drop(d1.sessions, Retired(d1.sessions, t))
           e1 == [d1 EXCEPT !.apps = ap]
           e  == [e1 EXCEPT !.sessions = se]
<1>1. Sound(d1)
  BY EndSessionsSound DEF PruneSessions
<1> HIDE DEF d1
<1>2. IsMap(ap, Id \ {0}, AppSession) /\ IsMap(se, Id \ {0}, Session)
  BY <1>1, DropMap DEF Sound, StoreOK
<1>3. StoreOK(e) /\ e.sessions = se /\ e.apps = ap /\ e.next = d1.next
  <2> HIDE DEF ap, se
  <2>1. StoreOK(e1) /\ e1.apps = ap /\ e1.sessions = d1.sessions /\ e1.next = d1.next
    BY <1>1, <1>2, SetApps DEF Sound
  <2> HIDE DEF e1
  <2> QED BY <1>2, <2>1, SetSessions
<1>4. Lineage(e)
  <2>1. SUFFICES ASSUME NEW a \in DOMAIN ap, ap[a].ended = 0
                 PROVE  OpenSession(e, ap[a].op)
    BY <1>3 DEF Lineage
  <2>2. a \in DOMAIN d1.apps /\ ap[a] = d1.apps[a]
    BY DEF Drop
  <2>3. PICK h \in DOMAIN d1.sessions : /\ d1.sessions[h].id = ap[a].op
                                       /\ d1.sessions[h].ended = 0
    BY <1>1, <2>1, <2>2 DEF Sound, Lineage, OpenSession
  <2>4. h \in DOMAIN se /\ se[h] = d1.sessions[h]
    BY <2>3 DEF Drop, Retired
  <2> QED BY <1>3, <2>3, <2>4 DEF OpenSession
<1>5. e = PruneLogoutState(d, t)
  BY DEF PruneLogoutState, d1
<1>6. KeysDrawn(e)
  BY <1>1, <1>3 DEF Sound, KeysDrawn, Drop
<1> QED BY <1>3, <1>4, <1>5, <1>6 DEF Sound

\* PruneOIDCState.
LEMMA PruneOIDCStateSound ==
    ASSUME NEW d, Sound(d), NEW t
    PROVE  Sound(PruneOIDCState(d, t))
<1> DEFINE F  == {f \in DOMAIN d.families : d.families[f].retain <= t}
           fa == Drop(d.families, F)
           re == Drop(d.refresh, {r \in DOMAIN d.refresh : d.refresh[r].family \in F})
           tx == Drop(d.txns, {x \in DOMAIN d.txns : d.txns[x].exp <= t})
           co == Drop(d.codes, {k \in DOMAIN d.codes :
                     d.codes[k].exp <= t /\ d.codes[k].retain <= t})
           to == Drop(d.tokens, {k \in DOMAIN d.tokens : d.tokens[k].exp <= t})
           e1 == [d EXCEPT !.families = fa]
           e2 == [e1 EXCEPT !.refresh = re]
           e3 == [e2 EXCEPT !.txns = tx, !.codes = co]
           e4 == [e3 EXCEPT !.tokens = to]
<1>1. /\ IsMap(fa, Id \ {0}, RefreshFamily) /\ IsMap(re, Id \ {0}, RefreshToken)
      /\ IsMap(tx, Id \ {0}, AuthzTransaction) /\ IsMap(co, Id \ {0}, AuthorizationCode)
      /\ IsMap(to, Id \ {0}, AccessToken)
  BY DropMap DEF Sound, StoreOK
<1>2. PruneOIDCState(d, t) =
        [d EXCEPT !.families = fa, !.refresh = re, !.txns = tx, !.codes = co, !.tokens = to]
  BY DEF PruneOIDCState
<1> HIDE DEF F, fa, re, tx, co, to
<1>3. Sound(e1)
  BY <1>1, SetFamilies
<1>4. Sound(e2)
  <2> HIDE DEF e1
  <2> QED BY <1>1, <1>3, SetRefresh
<1>5. Sound(e3)
  <2> HIDE DEF e2
  <2> QED BY <1>1, <1>4, SetTxnsCodes
<1>6. Sound(e4)
  <2> HIDE DEF e3
  <2> QED BY <1>1, <1>5, SetTokens
<1>7. e4 = [d EXCEPT !.families = fa, !.refresh = re, !.txns = tx, !.codes = co, !.tokens = to]
  OBVIOUS
<1> QED BY <1>2, <1>6, <1>7

(***************************************************************************)
(* What the store's cascades take away, and what they leave.               *)
(*                                                                         *)
(* Every method that revokes, ends or prunes only cuts, ends or drops      *)
(* records (Fades), and does it so that what is left unrevoked still has   *)
(* what it rests on (Links).  One that also leaves accounts, clients and   *)
(* policies alone Withers the store.  Methods compose: Fades and Withers   *)
(* are transitive.  What each method is called for is a cut: after         *)
(* DeleteUserSessions the user, after InvalidateClientGrants the client    *)
(* has nothing left that can be used.                                      *)
(***************************************************************************)
\* a store has these fields

FieldsOf(d) ==
    d = [users |-> d.users, clients |-> d.clients, policy |-> d.policy,
         access |-> d.access, sessions |-> d.sessions, apps |-> d.apps,
         txns |-> d.txns, codes |-> d.codes, tokens |-> d.tokens,
         families |-> d.families, refresh |-> d.refresh,
         consents |-> d.consents, next |-> d.next]

\* from m to n records were revoked or dropped, and nothing else
OnlyCuts(m, n) ==
    /\ DOMAIN n \subseteq DOMAIN m
    /\ \A x \in DOMAIN n : \/ n[x] = m[x]
                           \/ n[x].revoked /\ n[x] = [m[x] EXCEPT !.revoked = TRUE]

\* from m to n records were dropped, and nothing else
OnlyDrops(m, n) ==
    /\ DOMAIN n \subseteq DOMAIN m
    /\ \A x \in DOMAIN n : n[x] = m[x]

\* from m to n open records were ended, others dropped, and nothing else
EndsOnce(m, n) ==
    /\ DOMAIN n \subseteq DOMAIN m
    /\ \A x \in DOMAIN n : n[x] = m[x] \/ (m[x].ended = 0 /\ n[x].ended # 0)

\* what a record is good for rests on others that are there
CodeLinks(d, v) == ~v.revoked => OpenSession(d, v.op)

TokenLinks(d, v) ==
    ~v.revoked =>
        /\ v.op # 0 /\ v.family = 0 => /\ v.app \in DOMAIN d.apps
                                       /\ d.apps[v.app].ended = 0
                                       /\ d.apps[v.app].op = v.op
        /\ v.family # 0 => /\ v.family \in DOMAIN d.families
                           /\ ~d.families[v.family].revoked
                           /\ v.exp <= d.families[v.family].retain
        /\ v.code # 0 => /\ v.code \in DOMAIN d.codes
                         /\ d.codes[v.code].consumed
                         /\ d.codes[v.code].user = v.user
                         /\ d.codes[v.code].client = v.client
                         /\ v.exp <= d.codes[v.code].retain

FamilyLinks(d, v) ==
    ~v.revoked => /\ v.code \in DOMAIN d.codes
                  /\ d.codes[v.code].consumed
                  /\ d.codes[v.code].user = v.user
                  /\ d.codes[v.code].client = v.client
                  /\ v.retain <= d.codes[v.code].retain

\* the refresh token of family f that was not presented yet is r
Turn(d, f, r) ==
    /\ r \in DOMAIN d.refresh /\ d.refresh[r].family = f /\ ~d.refresh[r].consumed
    /\ \A q \in DOMAIN d.refresh : d.refresh[q].family = f /\ ~d.refresh[q].consumed => q = r

Links(d) ==
    /\ \A k \in DOMAIN d.codes : CodeLinks(d, d.codes[k])
    /\ \A k \in DOMAIN d.tokens : TokenLinks(d, d.tokens[k])
    /\ \A f \in DOMAIN d.families : FamilyLinks(d, d.families[f])
    /\ \A r \in DOMAIN d.refresh : d.refresh[r].family \in DOMAIN d.families
    /\ \A f \in DOMAIN d.families : \E r : Turn(d, f, r)

\* from d to e records were only ended, revoked and dropped, and none that is
\* left lost what it rests on
Fades(d, e) ==
    /\ Sound(e)
    /\ e.next = d.next
    /\ EndsOnce(d.sessions, e.sessions)
    /\ EndsOnce(d.apps, e.apps)
    /\ OnlyCuts(d.txns, e.txns)
    /\ OnlyCuts(d.codes, e.codes)
    /\ OnlyCuts(d.tokens, e.tokens)
    /\ OnlyCuts(d.families, e.families)
    /\ OnlyDrops(d.refresh, e.refresh)
    /\ OnlyDrops(d.consents, e.consents)
    /\ Links(d) => Links(e)

\* the accounts, clients and policies are the same
Steady(d, e) ==
    /\ e.users = d.users /\ e.clients = d.clients
    /\ e.policy = d.policy /\ e.access = d.access

Withers(d, e) == Fades(d, e) /\ Steady(d, e)

(***************************************************************************)
(* Maps of records.                                                        *)
(***************************************************************************)
\* Revocation changes the flag alone.
LEMMA RevokedRecords ==
    /\ \A v \in AuthzTransaction : LET w == [v EXCEPT !.revoked = TRUE] IN
          /\ w.revoked /\ w.op = v.op /\ w.client = v.client /\ w.user = v.user
          /\ w.rev = v.rev /\ w.scopes = v.scopes /\ w.prompt = v.prompt
          /\ w.maxAge = v.maxAge /\ w.reauth = v.reauth /\ w.created = v.created
          /\ w.exp = v.exp /\ w.consumed = v.consumed
    /\ \A v \in AuthorizationCode : LET w == [v EXCEPT !.revoked = TRUE] IN
          /\ w.revoked /\ w.txn = v.txn /\ w.op = v.op /\ w.client = v.client
          /\ w.user = v.user /\ w.rev = v.rev /\ w.scopes = v.scopes
          /\ w.auth = v.auth /\ w.exp = v.exp /\ w.retain = v.retain
          /\ w.consumed = v.consumed /\ w.cred = v.cred
    /\ \A v \in AccessToken : LET w == [v EXCEPT !.revoked = TRUE] IN
          /\ w.revoked /\ w.op = v.op /\ w.app = v.app /\ w.family = v.family
          /\ w.code = v.code /\ w.client = v.client /\ w.user = v.user
          /\ w.grant = v.grant /\ w.exp = v.exp
    /\ \A v \in RefreshFamily : LET w == [v EXCEPT !.revoked = TRUE] IN
          /\ w.revoked /\ w.op = v.op /\ w.app = v.app /\ w.code = v.code
          /\ w.client = v.client /\ w.user = v.user /\ w.retain = v.retain
BY DEF AuthzTransaction, AuthorizationCode, AccessToken, RefreshFamily

\* What a store's maps hold.
LEMMA Records ==
    ASSUME NEW d, StoreOK(d)
    PROVE  /\ \A x \in DOMAIN d.sessions : x \in Id \ {0} /\ d.sessions[x] \in Session
           /\ \A x \in DOMAIN d.apps : x \in Id \ {0} /\ d.apps[x] \in AppSession
           /\ \A x \in DOMAIN d.txns : x \in Id \ {0} /\ d.txns[x] \in AuthzTransaction
           /\ \A x \in DOMAIN d.codes : x \in Id \ {0} /\ d.codes[x] \in AuthorizationCode
           /\ \A x \in DOMAIN d.tokens : x \in Id \ {0} /\ d.tokens[x] \in AccessToken
           /\ \A x \in DOMAIN d.families : x \in Id \ {0} /\ d.families[x] \in RefreshFamily
           /\ \A x \in DOMAIN d.refresh : x \in Id \ {0} /\ d.refresh[x] \in RefreshToken
           /\ \A w \in DOMAIN d.consents : w \in Users \X Clients /\ d.consents[w] \in Consent
BY DEF StoreOK, IsMap

\* Revoking the records of a set of keys cuts those and no others.
LEMMA RevokeCuts ==
    ASSUME NEW m, \A x \in DOMAIN m : [m[x] EXCEPT !.revoked = TRUE].revoked, NEW S
    PROVE  /\ OnlyCuts(m, Revoke(m, S))
           /\ DOMAIN Revoke(m, S) = DOMAIN m
           /\ \A x \in DOMAIN m : x \in S => Revoke(m, S)[x].revoked
           /\ \A x \in DOMAIN m : x \notin S => Revoke(m, S)[x] = m[x]
BY DEF OnlyCuts, Revoke

\* So for every kind of grant.
LEMMA GrantCuts ==
    ASSUME NEW d, StoreOK(d), NEW S
    PROVE  /\ OnlyCuts(d.txns, Revoke(d.txns, S))
           /\ OnlyCuts(d.codes, Revoke(d.codes, S))
           /\ OnlyCuts(d.tokens, Revoke(d.tokens, S))
           /\ OnlyCuts(d.families, Revoke(d.families, S))
           /\ \A m \in {d.txns, d.codes, d.tokens, d.families} :
                 /\ DOMAIN Revoke(m, S) = DOMAIN m
                 /\ \A x \in DOMAIN m : x \in S => Revoke(m, S)[x].revoked
                 /\ \A x \in DOMAIN m : x \notin S => Revoke(m, S)[x] = m[x]
<1>1. /\ \A x \in DOMAIN d.txns : [d.txns[x] EXCEPT !.revoked = TRUE].revoked
      /\ \A x \in DOMAIN d.codes : [d.codes[x] EXCEPT !.revoked = TRUE].revoked
      /\ \A x \in DOMAIN d.tokens : [d.tokens[x] EXCEPT !.revoked = TRUE].revoked
      /\ \A x \in DOMAIN d.families : [d.families[x] EXCEPT !.revoked = TRUE].revoked
  BY Records, RevokedRecords
<1> QED BY <1>1, RevokeCuts

\* Ending open records.
LEMMA EndEnds ==
    ASSUME NEW d, StoreOK(d), NEW S, NEW t \in Nat \ {0}
    PROVE  /\ S \subseteq {x \in DOMAIN d.sessions : d.sessions[x].ended = 0}
              => EndsOnce(d.sessions, End(d.sessions, S, t))
           /\ S \subseteq {x \in DOMAIN d.apps : d.apps[x].ended = 0}
              => EndsOnce(d.apps, End(d.apps, S, t))
           /\ \A m \in {d.sessions, d.apps} :
                 /\ DOMAIN End(m, S, t) = DOMAIN m
                 /\ \A x \in DOMAIN m : x \in S => End(m, S, t)[x].ended # 0
                 /\ \A x \in DOMAIN m : x \notin S => End(m, S, t)[x] = m[x]
<1>1. /\ \A x \in DOMAIN d.sessions : [d.sessions[x] EXCEPT !.ended = t].ended # 0
      /\ \A x \in DOMAIN d.apps : [d.apps[x] EXCEPT !.ended = t].ended # 0
  BY Records DEF Session, AppSession
<1>2. \A m \in {d.sessions, d.apps} :
                 /\ DOMAIN End(m, S, t) = DOMAIN m
                 /\ \A x \in DOMAIN m : x \in S => End(m, S, t)[x].ended # 0
                 /\ \A x \in DOMAIN m : x \notin S => End(m, S, t)[x] = m[x]
  BY <1>1 DEF End
<1> QED BY <1>2 DEF EndsOnce

\* Dropping records.
LEMMA Drops ==
    ASSUME NEW m, NEW S
    PROVE  /\ OnlyDrops(m, Drop(m, S)) /\ OnlyCuts(m, Drop(m, S)) /\ EndsOnce(m, Drop(m, S))
           /\ DOMAIN Drop(m, S) = DOMAIN m \ S
           /\ \A x \in DOMAIN m \ S : Drop(m, S)[x] = m[x]
BY DEF OnlyDrops, OnlyCuts, EndsOnce, Drop

\* Doing nothing.
LEMMA Nothing == ASSUME NEW m PROVE OnlyDrops(m, m) /\ OnlyCuts(m, m) /\ EndsOnce(m, m)
BY DEF OnlyDrops, OnlyCuts, EndsOnce

\* One change after another.
LEMMA MapsTwice ==
    ASSUME NEW m, NEW n, NEW o
    PROVE  /\ OnlyDrops(m, n) /\ OnlyDrops(n, o) => OnlyDrops(m, o)
           /\ OnlyCuts(m, n) /\ OnlyCuts(n, o) => OnlyCuts(m, o)
           /\ EndsOnce(m, n) /\ EndsOnce(n, o) => EndsOnce(m, o)
<1>1. OnlyDrops(m, n) /\ OnlyDrops(n, o) => OnlyDrops(m, o)
  BY DEF OnlyDrops
<1>2. ASSUME OnlyCuts(m, n), OnlyCuts(n, o) PROVE OnlyCuts(m, o)
  <2>1. \A v : [[v EXCEPT !.revoked = TRUE] EXCEPT !.revoked = TRUE]
                   = [v EXCEPT !.revoked = TRUE]
    OBVIOUS
  <2> QED BY ZenonT(40), <1>2, <2>1 DEF OnlyCuts
<1>3. EndsOnce(m, n) /\ EndsOnce(n, o) => EndsOnce(m, o)
  BY DEF EndsOnce
<1> QED BY <1>1, <1>2, <1>3

(***************************************************************************)
(* Fading.                                                                 *)
(***************************************************************************)
\* A sound store withers into itself.
LEMMA WithersSelf == ASSUME NEW d, Sound(d) PROVE Withers(d, d)
BY Nothing DEF Withers, Fades, Steady

\* One method after another.
LEMMA FadesTwice ==
    ASSUME NEW d, NEW e, NEW g, Fades(d, e), Fades(e, g)
    PROVE  Fades(d, g)
BY MapsTwice DEF Fades

\* The same, with the accounts, clients and policies unchanged.
LEMMA WithersTwice ==
    ASSUME NEW d, NEW e, NEW g, Withers(d, e), Withers(e, g)
    PROVE  Withers(d, g)
BY FadesTwice DEF Withers, Steady

\* The links are a matter of six maps.
LEMMA SameLinks ==
    ASSUME NEW d, NEW e, e.sessions = d.sessions, e.apps = d.apps, e.codes = d.codes,
           e.tokens = d.tokens, e.families = d.families, e.refresh = d.refresh
    PROVE  Links(d) => Links(e)
BY SMTT(30) DEF Links, CodeLinks, TokenLinks, FamilyLinks, Turn, OpenSession

\* the changes of Fades to the maps
MapsFade(d, e) ==
    /\ e.next = d.next
    /\ EndsOnce(d.sessions, e.sessions)
    /\ EndsOnce(d.apps, e.apps)
    /\ OnlyCuts(d.txns, e.txns)
    /\ OnlyCuts(d.codes, e.codes)
    /\ OnlyCuts(d.tokens, e.tokens)
    /\ OnlyCuts(d.families, e.families)
    /\ OnlyDrops(d.refresh, e.refresh)
    /\ OnlyDrops(d.consents, e.consents)

\* what is left unrevoked in e still has what it rested on in d
Rests(d, e) ==
    /\ \A k \in DOMAIN e.codes : LET v == e.codes[k] IN
          ~v.revoked /\ OpenSession(d, v.op) => OpenSession(e, v.op)
    /\ \A k \in DOMAIN e.tokens : LET v == e.tokens[k] IN
          ~v.revoked =>
              /\ /\ v.op # 0 /\ v.family = 0 /\ v.app \in DOMAIN d.apps
                 /\ d.apps[v.app].ended = 0 /\ d.apps[v.app].op = v.op
                 => v.app \in DOMAIN e.apps /\ e.apps[v.app].ended = 0
              /\ /\ v.family \in DOMAIN d.families /\ ~d.families[v.family].revoked
                 /\ v.exp <= d.families[v.family].retain
                 => v.family \in DOMAIN e.families /\ ~e.families[v.family].revoked
              /\ /\ v.code \in DOMAIN d.codes
                 /\ d.codes[v.code].user = v.user /\ d.codes[v.code].client = v.client
                 /\ v.exp <= d.codes[v.code].retain
                 => v.code \in DOMAIN e.codes
    /\ \A f \in DOMAIN e.families : LET v == e.families[f] IN
          /\ ~v.revoked /\ v.code \in DOMAIN d.codes
          /\ d.codes[v.code].user = v.user /\ d.codes[v.code].client = v.client
          /\ v.retain <= d.codes[v.code].retain
          => v.code \in DOMAIN e.codes
    /\ \A r \in DOMAIN d.refresh :
          d.refresh[r].family \in DOMAIN e.families => r \in DOMAIN e.refresh
    /\ \A r \in DOMAIN e.refresh :
          e.refresh[r].family \in DOMAIN d.families => e.refresh[r].family \in DOMAIN e.families

\* A code that was only cut has its fields.
LEMMA CutFields ==
    ASSUME NEW d, StoreOK(d), NEW e
    PROVE  /\ OnlyCuts(d.codes, e.codes) =>
                 \A k \in DOMAIN e.codes : LET v == d.codes[k] w == e.codes[k] IN
                    /\ k \in DOMAIN d.codes
                    /\ w.txn = v.txn /\ w.op = v.op /\ w.client = v.client
                    /\ w.user = v.user /\ w.rev = v.rev /\ w.scopes = v.scopes
                    /\ w.auth = v.auth /\ w.exp = v.exp /\ w.retain = v.retain
                    /\ w.consumed = v.consumed /\ w.cred = v.cred
                    /\ ~w.revoked => w = v
                    /\ v.revoked => w.revoked
           /\ OnlyCuts(d.tokens, e.tokens) =>
                 \A k \in DOMAIN e.tokens : LET v == d.tokens[k] w == e.tokens[k] IN
                    /\ k \in DOMAIN d.tokens
                    /\ w.op = v.op /\ w.app = v.app /\ w.family = v.family
                    /\ w.code = v.code /\ w.client = v.client /\ w.user = v.user
                    /\ w.grant = v.grant /\ w.exp = v.exp
                    /\ ~w.revoked => w = v
                    /\ v.revoked => w.revoked
           /\ OnlyCuts(d.families, e.families) =>
                 \A k \in DOMAIN e.families : LET v == d.families[k] w == e.families[k] IN
                    /\ k \in DOMAIN d.families
                    /\ w.op = v.op /\ w.app = v.app /\ w.code = v.code
                    /\ w.client = v.client /\ w.user = v.user /\ w.retain = v.retain
                    /\ ~w.revoked => w = v
                    /\ v.revoked => w.revoked
           /\ OnlyCuts(d.txns, e.txns) =>
                 \A k \in DOMAIN e.txns : LET v == d.txns[k] w == e.txns[k] IN
                    /\ k \in DOMAIN d.txns
                    /\ w.op = v.op /\ w.client = v.client /\ w.user = v.user
                    /\ w.rev = v.rev /\ w.scopes = v.scopes /\ w.prompt = v.prompt
                    /\ w.maxAge = v.maxAge /\ w.reauth = v.reauth /\ w.created = v.created
                    /\ w.exp = v.exp /\ w.consumed = v.consumed
                    /\ ~w.revoked => w = v
                    /\ v.revoked => w.revoked
<1>1. ASSUME OnlyCuts(d.codes, e.codes), NEW k \in DOMAIN e.codes
      PROVE  LET v == d.codes[k] w == e.codes[k] IN
                    /\ k \in DOMAIN d.codes
                    /\ w.txn = v.txn /\ w.op = v.op /\ w.client = v.client
                    /\ w.user = v.user /\ w.rev = v.rev /\ w.scopes = v.scopes
                    /\ w.auth = v.auth /\ w.exp = v.exp /\ w.retain = v.retain
                    /\ w.consumed = v.consumed /\ w.cred = v.cred
                    /\ ~w.revoked => w = v
                    /\ v.revoked => w.revoked
  <2>1. k \in DOMAIN d.codes /\ d.codes[k] \in AuthorizationCode
    BY <1>1, Records DEF OnlyCuts
  <2>2. CASE e.codes[k] = d.codes[k]
    BY <2>1, <2>2
  <2>3. CASE e.codes[k].revoked /\ e.codes[k] = [d.codes[k] EXCEPT !.revoked = TRUE]
    BY <2>1, <2>3, RevokedRecords
  <2> QED BY <1>1, <2>2, <2>3 DEF OnlyCuts
<1>2. ASSUME OnlyCuts(d.tokens, e.tokens), NEW k \in DOMAIN e.tokens
      PROVE  LET v == d.tokens[k] w == e.tokens[k] IN
                    /\ k \in DOMAIN d.tokens
                    /\ w.op = v.op /\ w.app = v.app /\ w.family = v.family
                    /\ w.code = v.code /\ w.client = v.client /\ w.user = v.user
                    /\ w.grant = v.grant /\ w.exp = v.exp
                    /\ ~w.revoked => w = v
                    /\ v.revoked => w.revoked
  <2>1. k \in DOMAIN d.tokens /\ d.tokens[k] \in AccessToken
    BY <1>2, Records DEF OnlyCuts
  <2>2. CASE e.tokens[k] = d.tokens[k]
    BY <2>1, <2>2
  <2>3. CASE e.tokens[k].revoked /\ e.tokens[k] = [d.tokens[k] EXCEPT !.revoked = TRUE]
    BY <2>1, <2>3, RevokedRecords
  <2> QED BY <1>2, <2>2, <2>3 DEF OnlyCuts
<1>3. ASSUME OnlyCuts(d.families, e.families), NEW k \in DOMAIN e.families
      PROVE  LET v == d.families[k] w == e.families[k] IN
                    /\ k \in DOMAIN d.families
                    /\ w.op = v.op /\ w.app = v.app /\ w.code = v.code
                    /\ w.client = v.client /\ w.user = v.user /\ w.retain = v.retain
                    /\ ~w.revoked => w = v
                    /\ v.revoked => w.revoked
  <2>1. k \in DOMAIN d.families /\ d.families[k] \in RefreshFamily
    BY <1>3, Records DEF OnlyCuts
  <2>2. CASE e.families[k] = d.families[k]
    BY <2>1, <2>2
  <2>3. CASE e.families[k].revoked /\ e.families[k] = [d.families[k] EXCEPT !.revoked = TRUE]
    BY <2>1, <2>3, RevokedRecords
  <2> QED BY <1>3, <2>2, <2>3 DEF OnlyCuts
<1>4. ASSUME OnlyCuts(d.txns, e.txns), NEW k \in DOMAIN e.txns
      PROVE  LET v == d.txns[k] w == e.txns[k] IN
                    /\ k \in DOMAIN d.txns
                    /\ w.op = v.op /\ w.client = v.client /\ w.user = v.user
                    /\ w.rev = v.rev /\ w.scopes = v.scopes /\ w.prompt = v.prompt
                    /\ w.maxAge = v.maxAge /\ w.reauth = v.reauth /\ w.created = v.created
                    /\ w.exp = v.exp /\ w.consumed = v.consumed
                    /\ ~w.revoked => w = v
                    /\ v.revoked => w.revoked
  <2>1. k \in DOMAIN d.txns /\ d.txns[k] \in AuthzTransaction
    BY <1>4, Records DEF OnlyCuts
  <2>2. CASE e.txns[k] = d.txns[k]
    BY <2>1, <2>2
  <2>3. CASE e.txns[k].revoked /\ e.txns[k] = [d.txns[k] EXCEPT !.revoked = TRUE]
    BY <2>1, <2>3, RevokedRecords
  <2> QED BY <1>4, <2>2, <2>3 DEF OnlyCuts
<1> QED BY <1>1, <1>2, <1>3, <1>4

\* A change that leaves what is unrevoked what it rests on keeps the links.
LEMMA RestsLinks ==
    ASSUME NEW d, StoreOK(d), NEW e, MapsFade(d, e), Rests(d, e), Links(d)
    PROVE  Links(e)
<1>1. ASSUME NEW k \in DOMAIN e.codes PROVE CodeLinks(e, e.codes[k])
  <2>1. ~e.codes[k].revoked => k \in DOMAIN d.codes /\ e.codes[k] = d.codes[k]
    BY CutFields DEF MapsFade
  <2> QED BY <2>1 DEF Links, CodeLinks, Rests
<1>2. ASSUME NEW k \in DOMAIN e.tokens PROVE TokenLinks(e, e.tokens[k])
  <2>1. SUFFICES ASSUME ~e.tokens[k].revoked PROVE TokenLinks(e, e.tokens[k])
    BY DEF TokenLinks
  <2> DEFINE v == e.tokens[k]
  <2>2. k \in DOMAIN d.tokens /\ v = d.tokens[k]
    BY <2>1, CutFields DEF MapsFade
  <2>3. TokenLinks(d, v)
    BY <2>2 DEF Links
  <2>4. \A a \in DOMAIN e.apps : e.apps[a].ended = 0 => e.apps[a] = d.apps[a]
    BY DEF MapsFade, EndsOnce
  <2>5. \A f \in DOMAIN e.families : e.families[f].retain = d.families[f].retain
    BY CutFields DEF MapsFade
  <2>6. \A c \in DOMAIN e.codes : /\ e.codes[c].consumed = d.codes[c].consumed
                                  /\ e.codes[c].user = d.codes[c].user
                                  /\ e.codes[c].client = d.codes[c].client
                                  /\ e.codes[c].retain = d.codes[c].retain
    BY CutFields DEF MapsFade
  <2>7. /\ /\ v.op # 0 /\ v.family = 0 /\ v.app \in DOMAIN d.apps
           /\ d.apps[v.app].ended = 0 /\ d.apps[v.app].op = v.op
           => v.app \in DOMAIN e.apps /\ e.apps[v.app].ended = 0
        /\ /\ v.family \in DOMAIN d.families /\ ~d.families[v.family].revoked
           /\ v.exp <= d.families[v.family].retain
           => v.family \in DOMAIN e.families /\ ~e.families[v.family].revoked
        /\ /\ v.code \in DOMAIN d.codes
           /\ d.codes[v.code].user = v.user /\ d.codes[v.code].client = v.client
           /\ v.exp <= d.codes[v.code].retain
           => v.code \in DOMAIN e.codes
    BY <2>1 DEF Rests
  <2> HIDE DEF v
  <2> QED BY <2>3, <2>4, <2>5, <2>6, <2>7 DEF TokenLinks, v
<1>3. ASSUME NEW f \in DOMAIN e.families PROVE FamilyLinks(e, e.families[f])
  <2>1. SUFFICES ASSUME ~e.families[f].revoked PROVE FamilyLinks(e, e.families[f])
    BY DEF FamilyLinks
  <2>2. f \in DOMAIN d.families /\ e.families[f] = d.families[f]
    BY <2>1, CutFields DEF MapsFade
  <2>3. FamilyLinks(d, e.families[f])
    BY <2>2 DEF Links
  <2>4. \A c \in DOMAIN e.codes : /\ e.codes[c].consumed = d.codes[c].consumed
                                  /\ e.codes[c].user = d.codes[c].user
                                  /\ e.codes[c].client = d.codes[c].client
                                  /\ e.codes[c].retain = d.codes[c].retain
    BY CutFields DEF MapsFade
  <2> QED BY <2>1, <2>3, <2>4 DEF FamilyLinks, Rests
<1>4. \A r \in DOMAIN e.refresh : e.refresh[r].family \in DOMAIN e.families
  BY DEF Links, Rests, MapsFade, OnlyDrops
<1>5. ASSUME NEW f \in DOMAIN e.families PROVE \E r : Turn(e, f, r)
  <2>1. f \in DOMAIN d.families
    BY DEF MapsFade, OnlyCuts
  <2>2. PICK r : Turn(d, f, r)
    BY <2>1 DEF Links
  <2>3. Turn(e, f, r)
    BY <2>2 DEF Turn, Rests, MapsFade, OnlyDrops
  <2> QED BY <2>3
<1> QED BY <1>1, <1>2, <1>3, <1>4, <1>5 DEF Links

\* What it takes to fade.
LEMMA Fading ==
    ASSUME NEW d, StoreOK(d), NEW e, Sound(e), MapsFade(d, e), Rests(d, e)
    PROVE  Fades(d, e)
BY RestsLinks DEF Fades, MapsFade

(***************************************************************************)
(* The store's methods.                                                    *)
(***************************************************************************)
\* A store is a record.
LEMMA StoreFields == ASSUME NEW d, StoreOK(d) PROVE FieldsOf(d)
BY DEF StoreOK, FieldsOf

\* Revoking access tokens.
LEMMA RevokeTokensWithers ==
    ASSUME NEW d, Sound(d), NEW S
    PROVE  LET e == [d EXCEPT !.tokens = Revoke(d.tokens, S)] IN
           /\ Withers(d, e)
           /\ e.sessions = d.sessions /\ e.apps = d.apps /\ e.txns = d.txns
           /\ e.codes = d.codes /\ e.families = d.families
           /\ e.refresh = d.refresh /\ e.consents = d.consents
           /\ \A k \in DOMAIN e.tokens : k \in S => e.tokens[k].revoked
<1> DEFINE to == Revoke(d.tokens, S)
           e  == [d EXCEPT !.tokens = to]
<1>1. /\ OnlyCuts(d.tokens, to)
      /\ DOMAIN to = DOMAIN d.tokens
      /\ \A x \in DOMAIN d.tokens : x \in S => to[x].revoked
  BY GrantCuts DEF Sound
<1>2. Sound(e)
  BY RevokeTokensSound
<1> HIDE DEF to
<1>3. /\ Steady(d, e) /\ e.next = d.next
      /\ e.sessions = d.sessions /\ e.apps = d.apps /\ e.txns = d.txns
      /\ e.codes = d.codes /\ e.families = d.families /\ e.tokens = to
      /\ e.refresh = d.refresh /\ e.consents = d.consents
  BY StoreFields DEF Sound, FieldsOf, Steady
<1> HIDE DEF e
<1>4. MapsFade(d, e)
  BY <1>1, <1>3, Nothing DEF MapsFade
<1>5. Rests(d, e)
  BY <1>3 DEF Rests, OpenSession
<1> QED BY <1>1, <1>2, <1>3, <1>4, <1>5, Fading DEF Withers, Sound, e, to

\* RevokeFamilies takes the families' access tokens along.
LEMMA RevokeFamiliesWithers ==
    ASSUME NEW d, Sound(d), NEW F
    PROVE  LET e == RevokeFamilies(d, F) IN
           /\ Withers(d, e)
           /\ e.sessions = d.sessions /\ e.apps = d.apps /\ e.txns = d.txns
           /\ e.codes = d.codes /\ e.refresh = d.refresh /\ e.consents = d.consents
           /\ \A f \in DOMAIN e.families : f \in F => e.families[f].revoked
<1> DEFINE T  == {k \in DOMAIN d.tokens : d.tokens[k].family \in F \cap DOMAIN d.families}
           fa == Revoke(d.families, F)
           to == Revoke(d.tokens, T)
           e  == [d EXCEPT !.families = fa, !.tokens = to]
<1>1. /\ OnlyCuts(d.tokens, to) /\ OnlyCuts(d.families, fa)
      /\ DOMAIN to = DOMAIN d.tokens /\ DOMAIN fa = DOMAIN d.families
      /\ \A x \in DOMAIN d.tokens : x \in T => to[x].revoked
      /\ \A x \in DOMAIN d.families : x \in F => fa[x].revoked
      /\ \A x \in DOMAIN d.families : x \notin F => fa[x] = d.families[x]
  BY ZenonT(40), GrantCuts DEF Sound
<1>2. e = RevokeFamilies(d, F) /\ Sound(e)
  BY RevokeFamiliesSound DEF RevokeFamilies
<1>3. ASSUME NEW k \in DOMAIN to, ~to[k].revoked, to[k].family \in DOMAIN d.families
      PROVE  to[k].family \notin F
  <2>1. to[k] = d.tokens[k] /\ k \notin T
    BY <1>1, <1>3 DEF OnlyCuts
  <2> QED BY <1>1, <1>3, <2>1
<1> HIDE DEF fa, to, T
<1>4. /\ Steady(d, e) /\ e.next = d.next
      /\ e.sessions = d.sessions /\ e.apps = d.apps /\ e.txns = d.txns
      /\ e.codes = d.codes /\ e.families = fa /\ e.tokens = to
      /\ e.refresh = d.refresh /\ e.consents = d.consents
  BY StoreFields DEF Sound, FieldsOf, Steady
<1> HIDE DEF e
<1>5. MapsFade(d, e)
  BY <1>1, <1>4, Nothing DEF MapsFade
<1>6. Rests(d, e)
  BY <1>1, <1>3, <1>4 DEF Rests, OpenSession
<1> QED BY <1>1, <1>2, <1>4, <1>5, <1>6, Fading DEF Withers, Sound

\* The variants of RevokeAccessToken: nothing of the user's, the client's or
\* the code's is left unrevoked.
LEMMA RevocationWithers ==
    ASSUME NEW d, Sound(d), NEW x
    PROVE  /\ Withers(d, RevokeRefreshFamily(d, x))
           /\ Withers(d, RevokeAccessToken(d, x))
           /\ Withers(d, RevokeAccessTokensForCode(d, x))
           /\ LET e == RevokeAccessTokensForUser(d, x) IN
              /\ Withers(d, e)
              /\ e.sessions = d.sessions /\ e.apps = d.apps /\ e.txns = d.txns
              /\ e.codes = d.codes /\ e.refresh = d.refresh /\ e.consents = d.consents
              /\ \A f \in DOMAIN e.families : e.families[f].user = x => e.families[f].revoked
              /\ \A k \in DOMAIN e.tokens : e.tokens[k].user = x => e.tokens[k].revoked
           /\ LET e == RevokeAccessTokensForClient(d, x) IN
              /\ Withers(d, e)
              /\ e.sessions = d.sessions /\ e.apps = d.apps /\ e.txns = d.txns
              /\ e.codes = d.codes /\ e.refresh = d.refresh /\ e.consents = d.consents
              /\ \A f \in DOMAIN e.families : e.families[f].client = x => e.families[f].revoked
              /\ \A k \in DOMAIN e.tokens : e.tokens[k].client = x => e.tokens[k].revoked
<1>1. ASSUME NEW F, NEW d1, d1 = RevokeFamilies(d, F), NEW S,
             NEW e, e = [d1 EXCEPT !.tokens = Revoke(d1.tokens, S)]
      PROVE  /\ Withers(d, e)
             /\ e.sessions = d.sessions /\ e.apps = d.apps /\ e.txns = d.txns
             /\ e.codes = d.codes /\ e.refresh = d.refresh /\ e.consents = d.consents
             /\ \A f \in DOMAIN e.families : f \in F => e.families[f].revoked
             /\ \A k \in DOMAIN e.tokens : k \in S => e.tokens[k].revoked
             /\ StoreOK(d) /\ StoreOK(d1)
             /\ OnlyCuts(d.families, e.families) /\ OnlyCuts(d1.tokens, e.tokens)
  <2>1. Withers(d, d1) /\ Sound(d1)
    BY <1>1, RevokeFamiliesWithers, RevokeFamiliesSound
  <2>2. Withers(d1, e)
    BY <1>1, <2>1, RevokeTokensWithers
  <2>3. Withers(d, e)
    BY <2>1, <2>2, WithersTwice
  <2> QED BY <1>1, <2>1, <2>2, <2>3, RevokeFamiliesWithers, RevokeTokensWithers
          DEF Withers, Fades, Sound
<1>2. Withers(d, RevokeRefreshFamily(d, x))
  BY RevokeFamiliesWithers DEF RevokeRefreshFamily
<1>3. Withers(d, RevokeAccessToken(d, x))
  BY RevokeTokensWithers DEF RevokeAccessToken
<1>4. Withers(d, RevokeAccessTokensForCode(d, x))
  BY <1>1 DEF RevokeAccessTokensForCode
<1>5. LET e == RevokeAccessTokensForUser(d, x) IN
              /\ Withers(d, e)
              /\ e.sessions = d.sessions /\ e.apps = d.apps /\ e.txns = d.txns
              /\ e.codes = d.codes /\ e.refresh = d.refresh /\ e.consents = d.consents
              /\ \A f \in DOMAIN e.families : e.families[f].user = x => e.families[f].revoked
              /\ \A k \in DOMAIN e.tokens : e.tokens[k].user = x => e.tokens[k].revoked
  <2> DEFINE F  == {f \in DOMAIN d.families : d.families[f].user = x}
             d1 == RevokeFamilies(d, F)
             S  == {k \in DOMAIN d1.tokens : d1.tokens[k].user = x}
             e  == [d1 EXCEPT !.tokens = Revoke(d1.tokens, S)]
  <2>1. RevokeAccessTokensForUser(d, x) = e
    BY DEF RevokeAccessTokensForUser
  <2>2. \A f \in DOMAIN d.families : d.families[f].user = x => f \in F
    OBVIOUS
  <2>3. \A k \in DOMAIN d1.tokens : d1.tokens[k].user = x => k \in S
    OBVIOUS
  <2> HIDE DEF F, S
  <2>4. /\ Withers(d, e)
        /\ e.sessions = d.sessions /\ e.apps = d.apps /\ e.txns = d.txns
        /\ e.codes = d.codes /\ e.refresh = d.refresh /\ e.consents = d.consents
        /\ \A f \in DOMAIN e.families : f \in F => e.families[f].revoked
        /\ \A k \in DOMAIN e.tokens : k \in S => e.tokens[k].revoked
        /\ StoreOK(d) /\ StoreOK(d1)
        /\ OnlyCuts(d.families, e.families) /\ OnlyCuts(d1.tokens, e.tokens)
    BY <1>1
  <2> HIDE DEF e, d1
  <2> QED BY <2>1, <2>2, <2>3, <2>4, CutFields
<1>6. LET e == RevokeAccessTokensForClient(d, x) IN
              /\ Withers(d, e)
              /\ e.sessions = d.sessions /\ e.apps = d.apps /\ e.txns = d.txns
              /\ e.codes = d.codes /\ e.refresh = d.refresh /\ e.consents = d.consents
              /\ \A f \in DOMAIN e.families : e.families[f].client = x => e.families[f].revoked
              /\ \A k \in DOMAIN e.tokens : e.tokens[k].client = x => e.tokens[k].revoked
  <2> DEFINE F  == {f \in DOMAIN d.families : d.families[f].client = x}
             d1 == RevokeFamilies(d, F)
             S  == {k \in DOMAIN d1.tokens : d1.tokens[k].client = x}
             e  == [d1 EXCEPT !.tokens = Revoke(d1.tokens, S)]
  <2>1. RevokeAccessTokensForClient(d, x) = e
    BY DEF RevokeAccessTokensForClient
  <2>2. \A f \in DOMAIN d.families : d.families[f].client = x => f \in F
    OBVIOUS
  <2>3. \A k \in DOMAIN d1.tokens : d1.tokens[k].client = x => k \in S
    OBVIOUS
  <2> HIDE DEF F, S
  <2>4. /\ Withers(d, e)
        /\ e.sessions = d.sessions /\ e.apps = d.apps /\ e.txns = d.txns
        /\ e.codes = d.codes /\ e.refresh = d.refresh /\ e.consents = d.consents
        /\ \A f \in DOMAIN e.families : f \in F => e.families[f].revoked
        /\ \A k \in DOMAIN e.tokens : k \in S => e.tokens[k].revoked
        /\ StoreOK(d) /\ StoreOK(d1)
        /\ OnlyCuts(d.families, e.families) /\ OnlyCuts(d1.tokens, e.tokens)
    BY <1>1
  <2> HIDE DEF e, d1
  <2> QED BY <2>1, <2>2, <2>3, <2>4, CutFields
<1> QED BY <1>2, <1>3, <1>4, <1>5, <1>6

\* the transactions X and the codes K revoked
RevokeBoth(d, X, K) == [d EXCEPT !.txns = Revoke(d.txns, X), !.codes = Revoke(d.codes, K)]

\* Revoking transactions and codes.
LEMMA RevokeBothWithers ==
    ASSUME NEW d, Sound(d), NEW X, NEW K
    PROVE  LET e == RevokeBoth(d, X, K) IN
           /\ Withers(d, e)
           /\ e.sessions = d.sessions /\ e.apps = d.apps /\ e.tokens = d.tokens
           /\ e.families = d.families /\ e.refresh = d.refresh /\ e.consents = d.consents
           /\ \A k \in DOMAIN e.codes : k \in K => e.codes[k].revoked
<1> DEFINE tx == Revoke(d.txns, X)
           co == Revoke(d.codes, K)
           e  == [d EXCEPT !.txns = tx, !.codes = co]
<1>1. /\ OnlyCuts(d.txns, tx) /\ OnlyCuts(d.codes, co)
      /\ DOMAIN co = DOMAIN d.codes
      /\ \A x \in DOMAIN d.codes : x \in K => co[x].revoked
  BY GrantCuts DEF Sound
<1>2. Sound(e)
  BY SetTxnsCodes, RevokeGrants DEF Sound
<1> HIDE DEF tx, co
<1>3. /\ Steady(d, e) /\ e.next = d.next
      /\ e.sessions = d.sessions /\ e.apps = d.apps /\ e.txns = tx
      /\ e.codes = co /\ e.families = d.families /\ e.tokens = d.tokens
      /\ e.refresh = d.refresh /\ e.consents = d.consents
  BY StoreFields DEF Sound, FieldsOf, Steady
<1> HIDE DEF e
<1>4. MapsFade(d, e)
  BY <1>1, <1>3, Nothing DEF MapsFade
<1>5. Rests(d, e)
  BY <1>1, <1>3 DEF Rests, OpenSession
<1> QED BY <1>1, <1>2, <1>3, <1>4, <1>5, Fading DEF Withers, Sound, e, tx, co, RevokeBoth

\* Revoking transactions.
LEMMA RevokeTxnsWithers ==
    ASSUME NEW d, Sound(d), NEW X
    PROVE  LET e == [d EXCEPT !.txns = Revoke(d.txns, X)] IN
           /\ Withers(d, e)
           /\ e.sessions = d.sessions /\ e.apps = d.apps /\ e.codes = d.codes
           /\ e.tokens = d.tokens /\ e.families = d.families
           /\ e.refresh = d.refresh /\ e.consents = d.consents
<1> DEFINE tx == Revoke(d.txns, X)
           e  == [d EXCEPT !.txns = tx]
<1>1. OnlyCuts(d.txns, tx)
  BY GrantCuts DEF Sound
<1>2. Sound(e)
  BY SetTxns, RevokeGrants DEF Sound
<1> HIDE DEF tx
<1>3. /\ Steady(d, e) /\ e.next = d.next
      /\ e.sessions = d.sessions /\ e.apps = d.apps /\ e.txns = tx
      /\ e.codes = d.codes /\ e.families = d.families /\ e.tokens = d.tokens
      /\ e.refresh = d.refresh /\ e.consents = d.consents
  BY StoreFields DEF Sound, FieldsOf, Steady
<1> HIDE DEF e
<1>4. MapsFade(d, e)
  BY <1>1, <1>3, Nothing DEF MapsFade
<1>5. Rests(d, e)
  BY <1>1, <1>3 DEF Rests, OpenSession
<1> QED BY <1>1, <1>2, <1>3, <1>4, <1>5, Fading DEF Withers, Sound, e, tx

\* EndAppSession, on a set of app sessions, revokes what was issued under them.
LEMMA EndAppSessionsWithers ==
    ASSUME NEW d, Sound(d), NEW A, NEW t \in Nat \ {0}
    PROVE  LET e == EndAppSessions(d, A, t) IN
           /\ Withers(d, e)
           /\ e.sessions = d.sessions /\ e.families = d.families
           /\ e.refresh = d.refresh /\ e.consents = d.consents
<1> DEFINE E == {a \in A \cap DOMAIN d.apps : d.apps[a].ended = 0}
           Cut(m) == {x \in DOMAIN m : \E a \in E : /\ m[x].op = d.apps[a].op
                                                    /\ m[x].client = d.apps[a].client}
           T == {k \in DOMAIN d.tokens : d.tokens[k].app \in E /\ d.tokens[k].family = 0}
           ap == End(d.apps, E, t)
           to == Revoke(d.tokens, T)
           co == Revoke(d.codes, Cut(d.codes))
           tx == Revoke(d.txns, Cut(d.txns))
           e  == [d EXCEPT !.apps = ap, !.tokens = to, !.codes = co, !.txns = tx]
<1>1. e = EndAppSessions(d, A, t) /\ Sound(e)
  <2>1. e = EndAppSessions(d, A, t)
    BY DEF EndAppSessions
  <2>2. Sound(EndAppSessions(d, A, t))
    BY EndAppSessionsSound DEF Sound
  <2> HIDE DEF e
  <2> QED BY <2>1, <2>2
<1>2. /\ OnlyCuts(d.tokens, to) /\ OnlyCuts(d.codes, co) /\ OnlyCuts(d.txns, tx)
      /\ DOMAIN to = DOMAIN d.tokens /\ DOMAIN co = DOMAIN d.codes
      /\ \A x \in DOMAIN d.tokens : x \in T => to[x].revoked
  BY GrantCuts DEF Sound
<1>3. /\ EndsOnce(d.apps, ap) /\ DOMAIN ap = DOMAIN d.apps
      /\ \A a \in DOMAIN d.apps : a \notin E => ap[a] = d.apps[a]
  <2>1. E \subseteq {a \in DOMAIN d.apps : d.apps[a].ended = 0} /\ StoreOK(d)
    BY DEF Sound
  <2> HIDE DEF E
  <2> QED BY <2>1, EndEnds
<1>4. ASSUME NEW k \in DOMAIN to, ~to[k].revoked, to[k].family = 0
      PROVE  to[k].app \notin E
  <2>1. to[k] = d.tokens[k] /\ k \notin T
    BY <1>2, <1>4 DEF OnlyCuts
  <2> QED BY <1>2, <1>4, <2>1
<1> HIDE DEF E, T, ap, to, co, tx, Cut
<1>5. /\ Steady(d, e) /\ e.next = d.next
      /\ e.sessions = d.sessions /\ e.apps = ap /\ e.txns = tx
      /\ e.codes = co /\ e.families = d.families /\ e.tokens = to
      /\ e.refresh = d.refresh /\ e.consents = d.consents
  BY StoreFields DEF Sound, FieldsOf, Steady
<1> HIDE DEF e
<1>6. MapsFade(d, e)
  BY <1>2, <1>3, <1>5, Nothing DEF MapsFade
<1>7. Rests(d, e)
  BY <1>2, <1>3, <1>4, <1>5 DEF Rests, OpenSession
<1> QED BY <1>1, <1>5, <1>6, <1>7, Fading DEF Withers, Sound

\* Ending OP sessions revokes what was issued under them, and leaves none open.
LEMMA EndSessionsWithers ==
    ASSUME NEW d, Sound(d), NEW I, NEW t \in Nat \ {0}
    PROVE  LET e == EndSessions(d, I, t) IN
           /\ Withers(d, e)
           /\ e.families = d.families /\ e.refresh = d.refresh /\ e.consents = d.consents
           /\ \A h \in DOMAIN e.sessions :
                 e.sessions[h].ended = 0 => e.sessions[h].id \notin I
<1> DEFINE H  == ToEnd(d, I)
           J  == {d.sessions[h].id : h \in H}
           d1 == EndAppSessions(d, Under(d.apps, J), t)
           se == End(d1.sessions, H, t)
           tx == Revoke(d1.txns, Under(d1.txns, J))
           co == Revoke(d1.codes, Under(d1.codes, J))
           e  == [d1 EXCEPT !.sessions = se, !.txns = tx, !.codes = co]
<1>1. e = EndSessions(d, I, t) /\ Sound(e)
  BY EndSessionsSound DEF EndSessions
<1>2. /\ Withers(d, d1) /\ Sound(d1) /\ d1.sessions = d.sessions
      /\ d1.families = d.families /\ d1.refresh = d.refresh /\ d1.consents = d.consents
  BY EndAppSessionsWithers DEF Withers, Fades
<1> HIDE DEF d1
<1>3. H \subseteq {h \in DOMAIN d1.sessions : d1.sessions[h].ended = 0}
  BY <1>2 DEF ToEnd
<1>4. /\ EndsOnce(d1.sessions, se) /\ DOMAIN se = DOMAIN d1.sessions
      /\ \A h \in DOMAIN d1.sessions : h \in H => se[h].ended # 0
      /\ \A h \in DOMAIN d1.sessions : h \notin H => se[h] = d1.sessions[h]
  BY <1>2, <1>3, EndEnds DEF Sound
<1>5. /\ OnlyCuts(d1.codes, co) /\ OnlyCuts(d1.txns, tx) /\ DOMAIN co = DOMAIN d1.codes
      /\ \A k \in DOMAIN d1.codes : k \in Under(d1.codes, J) => co[k].revoked
  BY <1>2, GrantCuts DEF Sound
<1>6. \A h \in DOMAIN se : se[h].ended = 0 => se[h].id \notin I
  BY <1>2, <1>4 DEF ToEnd
<1>7. ASSUME NEW k \in DOMAIN co, ~co[k].revoked, OpenSession(d1, co[k].op)
      PROVE  \E h \in DOMAIN se : se[h].id = co[k].op /\ se[h].ended = 0
  <2>1. co[k] = d1.codes[k] /\ co[k].op \notin J
    BY <1>5, <1>7 DEF OnlyCuts, Under
  <2>2. PICK h \in DOMAIN d1.sessions : d1.sessions[h].id = co[k].op /\ d1.sessions[h].ended = 0
    BY <1>7 DEF OpenSession
  <2>3. h \notin H
    BY <1>2, <2>1, <2>2
  <2> QED BY <1>4, <2>2, <2>3
<1> HIDE DEF H, J, se, tx, co
<1>8. /\ Steady(d1, e) /\ e.next = d1.next
      /\ e.sessions = se /\ e.apps = d1.apps /\ e.txns = tx
      /\ e.codes = co /\ e.families = d1.families /\ e.tokens = d1.tokens
      /\ e.refresh = d1.refresh /\ e.consents = d1.consents
  BY <1>2, StoreFields DEF Sound, FieldsOf, Steady
<1> HIDE DEF e
<1>9. MapsFade(d1, e)
  BY <1>4, <1>5, <1>8, Nothing DEF MapsFade
<1>10. Rests(d1, e)
  BY <1>5, <1>7, <1>8 DEF Rests, OpenSession
<1>11. Withers(d1, e)
  BY <1>1, <1>2, <1>8, <1>9, <1>10, Fading DEF Withers, Sound
<1>12. Withers(d, e)
  BY <1>2, <1>11, WithersTwice
<1> QED BY <1>1, <1>2, <1>6, <1>8, <1>12

(***************************************************************************)
(* Account, client, policy and consent changes.                            *)
(***************************************************************************)
\* nothing that can still be used is user u's
UserCut(d, u) ==
    /\ \A h \in DOMAIN d.sessions : d.sessions[h].user = u => d.sessions[h].ended # 0
    /\ \A k \in DOMAIN d.codes : d.codes[k].user # u
    /\ \A k \in DOMAIN d.tokens : d.tokens[k].user = u => d.tokens[k].revoked
    /\ \A f \in DOMAIN d.families : d.families[f].user = u => d.families[f].revoked

\* nothing that can still be used is client c's
ClientCut(d, c) ==
    /\ \A k \in DOMAIN d.codes : d.codes[k].client # c
    /\ \A k \in DOMAIN d.tokens : d.tokens[k].client = c => d.tokens[k].revoked
    /\ \A f \in DOMAIN d.families : d.families[f].client = c => d.families[f].revoked

\* DeleteUserSessions cuts the user off.
LEMMA DeleteUserSessionsWithers ==
    ASSUME NEW d, Sound(d), NEW u, NEW t \in Nat \ {0}
    PROVE  LET e == DeleteUserSessions(d, u, t) IN Withers(d, e) /\ UserCut(e, u)
<1> DEFINE d1 == RevokeAccessTokensForUser(d, u)
           co == Drop(d1.codes, {k \in DOMAIN d1.codes : d1.codes[k].user = u})
           tx == Drop(d1.txns, {k \in DOMAIN d1.txns : d1.txns[k].user = u})
           cs == Drop(d1.consents, {w \in DOMAIN d1.consents : w[1] = u})
           d2 == [d1 EXCEPT !.codes = co, !.txns = tx, !.consents = cs]
           e  == EndSessions(d2, SessionsOf(d2, u), t)
<1>1. DeleteUserSessions(d, u, t) = e
  BY DEF DeleteUserSessions
<1>2. /\ Withers(d, d1) /\ Sound(d1)
      /\ \A f \in DOMAIN d1.families : d1.families[f].user = u => d1.families[f].revoked
      /\ \A k \in DOMAIN d1.tokens : d1.tokens[k].user = u => d1.tokens[k].revoked
  BY RevocationWithers DEF Withers, Fades
<1> HIDE DEF d1
<1>3. /\ OnlyCuts(d1.codes, co) /\ OnlyCuts(d1.txns, tx) /\ OnlyDrops(d1.consents, cs)
      /\ \A k \in DOMAIN co : co[k].user # u
      /\ \A k \in DOMAIN d1.codes : d1.codes[k].user # u => k \in DOMAIN co
  BY Drops DEF Drop
<1>4. Sound(d2)
  <2>1. /\ IsMap(co, Id \ {0}, AuthorizationCode) /\ IsMap(tx, Id \ {0}, AuthzTransaction)
        /\ IsMap(cs, Users \X Clients, Consent)
    BY <1>2, DropMap DEF Sound, StoreOK
  <2> HIDE DEF co, tx, cs
  <2> QED BY <1>2, <2>1, SetCodesTxnsConsents
<1> HIDE DEF co, tx, cs
<1>5. /\ Steady(d1, d2) /\ d2.next = d1.next
      /\ d2.sessions = d1.sessions /\ d2.apps = d1.apps /\ d2.txns = tx
      /\ d2.codes = co /\ d2.families = d1.families /\ d2.tokens = d1.tokens
      /\ d2.refresh = d1.refresh /\ d2.consents = cs
  BY <1>2, StoreFields DEF Sound, FieldsOf, Steady
<1> HIDE DEF d2
<1>6. MapsFade(d1, d2)
  BY <1>3, <1>5, Nothing DEF MapsFade
<1>7. Rests(d1, d2)
  BY <1>2, <1>3, <1>5 DEF Rests, OpenSession
<1>8. Withers(d1, d2)
  BY <1>2, <1>4, <1>5, <1>6, <1>7, Fading DEF Withers, Sound
<1>9. /\ Withers(d2, e)
      /\ \A h \in DOMAIN e.sessions : e.sessions[h].ended = 0 =>
                                          e.sessions[h].id \notin SessionsOf(d2, u)
  BY <1>4, EndSessionsWithers
<1> HIDE DEF e
<1>10. Withers(d, e)
  BY <1>2, <1>8, <1>9, WithersTwice
<1>11. \A h \in DOMAIN e.sessions : e.sessions[h].user = u => e.sessions[h].ended # 0
  <2>1. SUFFICES ASSUME NEW h \in DOMAIN e.sessions, e.sessions[h].user = u,
                        e.sessions[h].ended = 0
                 PROVE  FALSE
    OBVIOUS
  <2>2. h \in DOMAIN d2.sessions /\ e.sessions[h] = d2.sessions[h]
    BY <1>9, <2>1 DEF Withers, Fades, EndsOnce
  <2>3. e.sessions[h].id \in SessionsOf(d2, u)
    BY <2>1, <2>2 DEF SessionsOf
  <2> QED BY <1>9, <2>1, <2>3
<1>12. /\ \A k \in DOMAIN d2.codes : d2.codes[k].user # u
       /\ \A f \in DOMAIN d2.families : d2.families[f].user = u => d2.families[f].revoked
       /\ \A k \in DOMAIN d2.tokens : d2.tokens[k].user = u => d2.tokens[k].revoked
  BY <1>2, <1>3, <1>5
<1>13. UserCut(e, u)
  <2>1. /\ \A k \in DOMAIN e.codes : k \in DOMAIN d2.codes /\ e.codes[k].user = d2.codes[k].user
        /\ \A k \in DOMAIN e.tokens : /\ k \in DOMAIN d2.tokens
                                      /\ e.tokens[k].user = d2.tokens[k].user
                                      /\ d2.tokens[k].revoked => e.tokens[k].revoked
        /\ \A k \in DOMAIN e.families : /\ k \in DOMAIN d2.families
                                        /\ e.families[k].user = d2.families[k].user
                                        /\ d2.families[k].revoked => e.families[k].revoked
    BY <1>4, <1>9, CutFields DEF Withers, Fades, Sound
  <2> QED BY <1>11, <1>12, <2>1 DEF UserCut
<1> QED BY <1>1, <1>10, <1>13

\* The cut-off of a client.
LEMMA InvalidateClientGrantsWithers ==
    ASSUME NEW d, Sound(d), NEW c, NEW t \in Nat \ {0}
    PROVE  LET e == InvalidateClientGrants(d, c, t) IN Withers(d, e) /\ ClientCut(e, c)
<1> DEFINE d1 == EndAppSessions(d, {a \in DOMAIN d.apps : d.apps[a].client = c}, t)
           d2 == RevokeAccessTokensForClient(d1, c)
           co == Drop(d2.codes, {k \in DOMAIN d2.codes : d2.codes[k].client = c})
           tx == Drop(d2.txns, {k \in DOMAIN d2.txns : d2.txns[k].client = c})
           cs == Drop(d2.consents, {w \in DOMAIN d2.consents : w[2] = c})
           e  == [d2 EXCEPT !.codes = co, !.txns = tx, !.consents = cs]
<1>1. InvalidateClientGrants(d, c, t) = e /\ Sound(e)
  <2>1. InvalidateClientGrants(d, c, t) = e
    BY DEF InvalidateClientGrants
  <2>2. Sound(InvalidateClientGrants(d, c, t))
    BY InvalidateClientGrantsSound
  <2> HIDE DEF e
  <2> QED BY <2>1, <2>2
<1>2. Withers(d, d1) /\ Sound(d1)
  BY EndAppSessionsWithers DEF Withers, Fades
<1> HIDE DEF d1
<1>3. /\ Withers(d1, d2) /\ Sound(d2)
      /\ \A f \in DOMAIN d2.families : d2.families[f].client = c => d2.families[f].revoked
      /\ \A k \in DOMAIN d2.tokens : d2.tokens[k].client = c => d2.tokens[k].revoked
  BY <1>2, RevocationWithers DEF Withers, Fades
<1> HIDE DEF d2
<1>4. /\ OnlyCuts(d2.codes, co) /\ OnlyCuts(d2.txns, tx) /\ OnlyDrops(d2.consents, cs)
      /\ \A k \in DOMAIN co : co[k].client # c
      /\ \A k \in DOMAIN d2.codes : d2.codes[k].client # c => k \in DOMAIN co
  BY Drops DEF Drop
<1> HIDE DEF co, tx, cs
<1>5. /\ Steady(d2, e) /\ e.next = d2.next
      /\ e.sessions = d2.sessions /\ e.apps = d2.apps /\ e.txns = tx
      /\ e.codes = co /\ e.families = d2.families /\ e.tokens = d2.tokens
      /\ e.refresh = d2.refresh /\ e.consents = cs
  BY <1>3, StoreFields DEF Sound, FieldsOf, Steady
<1> HIDE DEF e
<1>6. MapsFade(d2, e)
  BY <1>4, <1>5, Nothing DEF MapsFade
<1>7. Rests(d2, e)
  BY <1>3, <1>4, <1>5 DEF Rests, OpenSession
<1>8. Withers(d2, e)
  BY <1>1, <1>3, <1>5, <1>6, <1>7, Fading DEF Withers, Sound
<1>9. Withers(d, e)
  BY <1>2, <1>3, <1>8, WithersTwice
<1>10. ClientCut(e, c)
  BY <1>3, <1>4, <1>5 DEF ClientCut
<1> QED BY <1>1, <1>9, <1>10

\* Replacing accounts, clients or policies fades nothing.
LEMMA ContextFades ==
    ASSUME NEW d, Sound(d), NEW e, Sound(e), e.next = d.next,
           e.sessions = d.sessions, e.apps = d.apps, e.txns = d.txns, e.codes = d.codes,
           e.tokens = d.tokens, e.families = d.families, e.refresh = d.refresh,
           e.consents = d.consents
    PROVE  /\ Fades(d, e)
           /\ \A u : UserCut(d, u) => UserCut(e, u)
           /\ \A c : ClientCut(d, c) => ClientCut(e, c)
BY Nothing, SameLinks DEF Fades, UserCut, ClientCut

\* SaveUser: unless the account stays as it is, its user is cut off.
LEMMA SaveUserFades ==
    ASSUME NEW d, Sound(d), NEW u \in Users, NEW new \in User, NEW t \in Nat \ {0}
    PROVE  LET e == SaveUser(d, u, new, t) IN
           /\ Fades(d, e)
           /\ e.users = Put(d.users, u, new)
           /\ e.clients = d.clients /\ e.policy = d.policy /\ e.access = d.access
           /\ UserCut(d, u) \/ (u \in DOMAIN d.users /\ d.users[u] # new) => UserCut(e, u)
<1> DEFINE d1 == IF u \in DOMAIN d.users /\ d.users[u] # new
                 THEN DeleteUserSessions(d, u, t) ELSE d
           us == Put(d1.users, u, new)
           e  == [d1 EXCEPT !.users = us]
<1>1. SaveUser(d, u, new, t) = e /\ Sound(SaveUser(d, u, new, t))
  BY SaveUserSound DEF SaveUser
<1>2. /\ Withers(d, d1)
      /\ UserCut(d, u) \/ (u \in DOMAIN d.users /\ d.users[u] # new) => UserCut(d1, u)
  BY DeleteUserSessionsWithers, WithersSelf
<1>3. Sound(d1) /\ d1.users = d.users
  BY <1>2 DEF Withers, Fades, Steady
<1> HIDE DEF d1
<1>4. /\ e.users = us /\ e.clients = d1.clients /\ e.policy = d1.policy
      /\ e.access = d1.access /\ e.next = d1.next
      /\ e.sessions = d1.sessions /\ e.apps = d1.apps /\ e.txns = d1.txns
      /\ e.codes = d1.codes /\ e.families = d1.families /\ e.tokens = d1.tokens
      /\ e.refresh = d1.refresh /\ e.consents = d1.consents
  <2> HIDE DEF us
  <2> QED BY <1>3, StoreFields DEF Sound, FieldsOf
<1> HIDE DEF e
<1>5. /\ Fades(d1, e)
      /\ UserCut(d1, u) => UserCut(e, u)
  BY <1>1, <1>3, <1>4, ContextFades
<1>6. Fades(d, e)
  BY <1>2, <1>5, FadesTwice DEF Withers
<1> QED BY <1>1, <1>2, <1>3, <1>4, <1>5, <1>6 DEF Withers, Steady

\* DeleteUser cuts the deleted user off.
LEMMA DeleteUserFades ==
    ASSUME NEW d, Sound(d), NEW u, NEW t \in Nat \ {0}
    PROVE  LET e == DeleteUser(d, u, t) IN
           /\ Fades(d, e)
           /\ e.users = Drop(d.users, {u})
           /\ \A v \in Users \ {u} : e.access[v] = d.access[v]
           /\ e.clients = d.clients /\ e.policy = d.policy
           /\ UserCut(e, u)
<1> DEFINE us == Drop(d.users, {u})
           ac == [d.access EXCEPT ![u] = FALSE]
           d1 == [d EXCEPT !.users = us, !.access = ac]
           e  == DeleteUserSessions(d1, u, t)
<1>1. /\ IsMap(us, Users, User) /\ ac \in [Users -> BOOLEAN]
      /\ \A v \in Users \ {u} : ac[v] = d.access[v]
  BY DropMap DEF Sound, StoreOK
<1> HIDE DEF us, ac
<1>2. Sound(d1)
  <2> DEFINE g == [d EXCEPT !.users = us]
  <2>1. Sound(g)
    BY <1>1, SetUsers
  <2>2. Sound([g EXCEPT !.access = ac])
    <3> HIDE DEF g
    <3> QED BY <1>1, <2>1, SetAccess
  <2>3. [g EXCEPT !.access = ac] = d1
    OBVIOUS
  <2> QED BY <2>2, <2>3
<1>3. /\ d1.users = us /\ d1.access = ac /\ d1.clients = d.clients /\ d1.policy = d.policy
      /\ d1.next = d.next
      /\ d1.sessions = d.sessions /\ d1.apps = d.apps /\ d1.txns = d.txns
      /\ d1.codes = d.codes /\ d1.families = d.families /\ d1.tokens = d.tokens
      /\ d1.refresh = d.refresh /\ d1.consents = d.consents
  BY StoreFields DEF Sound, FieldsOf
<1>4. e = DeleteUser(d, u, t)
  BY DEF DeleteUser, us, ac
<1> HIDE DEF d1
<1>5. Fades(d, d1)
  BY <1>2, <1>3, ContextFades
<1>6. Withers(d1, e) /\ UserCut(e, u)
  BY <1>2, DeleteUserSessionsWithers
<1> HIDE DEF e
<1>7. Fades(d, e)
  BY <1>5, <1>6, FadesTwice DEF Withers
<1> QED BY <1>1, <1>3, <1>4, <1>6, <1>7 DEF Withers, Steady, us

\* SaveClient cuts the client off and moves its revision.
LEMMA SaveClientFades ==
    ASSUME NEW d, Sound(d), NEW c \in DOMAIN d.clients, NEW t \in Nat \ {0}
    PROVE  LET e == SaveClient(d, c, t) IN
           /\ Fades(d, e)
           /\ e.clients = Put(d.clients, c, [rev |-> d.clients[c].rev + 1])
           /\ e.users = d.users /\ e.policy = d.policy /\ e.access = d.access
           /\ ClientCut(e, c)
<1> DEFINE d1 == InvalidateClientGrants(d, c, t)
           cl == Put(d1.clients, c, [rev |-> d1.clients[c].rev + 1])
           e  == [d1 EXCEPT !.clients = cl]
<1>1. SaveClient(d, c, t) = e /\ Sound(SaveClient(d, c, t))
  BY SaveClientSound DEF SaveClient
<1>2. Withers(d, d1) /\ ClientCut(d1, c)
  BY InvalidateClientGrantsWithers
<1>3. Sound(d1) /\ d1.clients = d.clients
  BY <1>2 DEF Withers, Fades, Steady
<1> HIDE DEF d1
<1>4. /\ e.clients = cl /\ e.users = d1.users /\ e.policy = d1.policy
      /\ e.access = d1.access /\ e.next = d1.next
      /\ e.sessions = d1.sessions /\ e.apps = d1.apps /\ e.txns = d1.txns
      /\ e.codes = d1.codes /\ e.families = d1.families /\ e.tokens = d1.tokens
      /\ e.refresh = d1.refresh /\ e.consents = d1.consents
  <2> HIDE DEF cl
  <2> QED BY <1>3, StoreFields DEF Sound, FieldsOf
<1> HIDE DEF e
<1>5. Fades(d1, e) /\ ClientCut(e, c)
  BY <1>1, <1>2, <1>3, <1>4, ContextFades
<1>6. Fades(d, e)
  BY <1>2, <1>5, FadesTwice DEF Withers
<1> QED BY <1>1, <1>2, <1>3, <1>4, <1>5, <1>6 DEF Withers, Steady

\* SaveOAuthPolicy cuts the client off.
LEMMA SaveOAuthPolicyFades ==
    ASSUME NEW d, Sound(d), NEW c, NEW p \in SUBSET PolicyGrants, NEW t \in Nat \ {0}
    PROVE  LET e == SaveOAuthPolicy(d, c, p, t) IN
           /\ Fades(d, e)
           /\ \A b \in Clients \ {c} : e.policy[b] = d.policy[b]
           /\ e.users = d.users /\ e.clients = d.clients /\ e.access = d.access
           /\ ClientCut(e, c)
<1> DEFINE po == [d.policy EXCEPT ![c] = p]
           d1 == [d EXCEPT !.policy = po]
           e  == InvalidateClientGrants(d1, c, t)
<1>1. /\ po \in [Clients -> SUBSET PolicyGrants]
      /\ \A b \in Clients \ {c} : po[b] = d.policy[b]
  BY DEF Sound, StoreOK
<1> HIDE DEF po
<1>2. Sound(d1)
  BY <1>1, SetPolicy
<1>3. /\ d1.policy = po /\ d1.users = d.users /\ d1.access = d.access
      /\ d1.clients = d.clients /\ d1.next = d.next
      /\ d1.sessions = d.sessions /\ d1.apps = d.apps /\ d1.txns = d.txns
      /\ d1.codes = d.codes /\ d1.families = d.families /\ d1.tokens = d.tokens
      /\ d1.refresh = d.refresh /\ d1.consents = d.consents
  BY StoreFields DEF Sound, FieldsOf
<1>4. e = SaveOAuthPolicy(d, c, p, t)
  BY DEF SaveOAuthPolicy, po
<1> HIDE DEF d1
<1>5. Fades(d, d1)
  BY <1>2, <1>3, ContextFades
<1>6. Withers(d1, e) /\ ClientCut(e, c)
  BY <1>2, InvalidateClientGrantsWithers
<1> HIDE DEF e
<1>7. Fades(d, e)
  BY <1>5, <1>6, FadesTwice DEF Withers
<1> QED BY <1>1, <1>3, <1>4, <1>6, <1>7 DEF Withers, Steady

\* DeleteClient cuts the deleted client off.
LEMMA DeleteClientFades ==
    ASSUME NEW d, Sound(d), NEW c, NEW t \in Nat \ {0}
    PROVE  LET e == DeleteClient(d, c, t) IN
           /\ Fades(d, e)
           /\ e.clients = Drop(d.clients, {c})
           /\ \A b \in Clients \ {c} : e.policy[b] = d.policy[b]
           /\ e.users = d.users /\ e.access = d.access
           /\ ClientCut(e, c)
<1> DEFINE d1 == SaveOAuthPolicy(d, c, {}, t)
           cl == Drop(d1.clients, {c})
           e  == [d1 EXCEPT !.clients = cl]
<1>1. DeleteClient(d, c, t) = e /\ Sound(DeleteClient(d, c, t))
  BY DeleteClientSound DEF DeleteClient, SaveOAuthPolicy
<1>2. /\ Fades(d, d1) /\ ClientCut(d1, c)
      /\ \A b \in Clients \ {c} : d1.policy[b] = d.policy[b]
      /\ d1.users = d.users /\ d1.clients = d.clients /\ d1.access = d.access
  BY SaveOAuthPolicyFades
<1>3. Sound(d1)
  BY <1>2 DEF Fades
<1> HIDE DEF d1
<1>4. /\ e.clients = cl /\ e.users = d1.users /\ e.policy = d1.policy
      /\ e.access = d1.access /\ e.next = d1.next
      /\ e.sessions = d1.sessions /\ e.apps = d1.apps /\ e.txns = d1.txns
      /\ e.codes = d1.codes /\ e.families = d1.families /\ e.tokens = d1.tokens
      /\ e.refresh = d1.refresh /\ e.consents = d1.consents
  <2> HIDE DEF cl
  <2> QED BY <1>3, StoreFields DEF Sound, FieldsOf
<1> HIDE DEF e
<1>5. Fades(d1, e) /\ ClientCut(e, c)
  BY <1>1, <1>2, <1>3, <1>4, ContextFades
<1>6. Fades(d, e)
  BY <1>2, <1>5, FadesTwice
<1> QED BY <1>1, <1>2, <1>4, <1>5, <1>6

\* SaveOAuthAccess revokes the user's tokens and families.
LEMMA SaveOAuthAccessFades ==
    ASSUME NEW d, Sound(d), NEW u, NEW allowed \in BOOLEAN, NEW t \in Nat \ {0}
    PROVE  LET e == SaveOAuthAccess(d, u, allowed, t) IN
           /\ Fades(d, e)
           /\ \A v \in Users \ {u} : e.access[v] = d.access[v]
           /\ e.users = d.users /\ e.clients = d.clients /\ e.policy = d.policy
           /\ \A k \in DOMAIN e.tokens : e.tokens[k].user = u => e.tokens[k].revoked
<1> DEFINE ac == [d.access EXCEPT ![u] = allowed]
           d1 == [d EXCEPT !.access = ac]
           d2 == EndAppSessions(d1, {a \in DOMAIN d1.apps : d1.apps[a].user = u}, t)
           e  == RevokeAccessTokensForUser(d2, u)
<1>1. /\ ac \in [Users -> BOOLEAN]
      /\ \A v \in Users \ {u} : ac[v] = d.access[v]
  BY DEF Sound, StoreOK
<1> HIDE DEF ac
<1>2. Sound(d1)
  BY <1>1, SetAccess
<1>3. /\ d1.access = ac /\ d1.users = d.users /\ d1.policy = d.policy
      /\ d1.clients = d.clients /\ d1.next = d.next
      /\ d1.sessions = d.sessions /\ d1.apps = d.apps /\ d1.txns = d.txns
      /\ d1.codes = d.codes /\ d1.families = d.families /\ d1.tokens = d.tokens
      /\ d1.refresh = d.refresh /\ d1.consents = d.consents
  BY StoreFields DEF Sound, FieldsOf
<1>4. e = SaveOAuthAccess(d, u, allowed, t)
  BY DEF SaveOAuthAccess, ac
<1> HIDE DEF d1
<1>5. Fades(d, d1)
  BY <1>2, <1>3, ContextFades
<1>6. Withers(d1, d2) /\ Sound(d2)
  BY <1>2, EndAppSessionsWithers DEF Withers, Fades
<1> HIDE DEF d2
<1>7. /\ Withers(d2, e)
      /\ \A k \in DOMAIN e.tokens : e.tokens[k].user = u => e.tokens[k].revoked
  BY <1>6, RevocationWithers
<1> HIDE DEF e
<1>8. Fades(d, e)
  BY <1>5, <1>6, <1>7, FadesTwice DEF Withers
<1> QED BY <1>1, <1>3, <1>4, <1>6, <1>7, <1>8 DEF Withers, Steady

\* what SaveConsent does before it saves a revoked consent
Unconsent(d, u, c, t) ==
    LET d1 == EndAppSessions(d, AppSessionsOf(d, u, c), t)
    IN RevokeFamilies(d1, {f \in DOMAIN d1.families :
           d1.families[f].user = u /\ d1.families[f].client = c})

\* A revoked consent leaves the user no refresh family at the client.
LEMMA UnconsentWithers ==
    ASSUME NEW d, Sound(d), NEW u, NEW c, NEW t \in Nat \ {0}
    PROVE  LET e == Unconsent(d, u, c, t) IN
           /\ Withers(d, e) /\ e.consents = d.consents
           /\ \A f \in DOMAIN e.families :
                 e.families[f].user = u /\ e.families[f].client = c => e.families[f].revoked
<1> DEFINE d1 == EndAppSessions(d, AppSessionsOf(d, u, c), t)
           F  == {f \in DOMAIN d1.families :
                     d1.families[f].user = u /\ d1.families[f].client = c}
           e  == RevokeFamilies(d1, F)
<1>1. e = Unconsent(d, u, c, t)
  BY DEF Unconsent
<1>2. Withers(d, d1) /\ Sound(d1) /\ d1.consents = d.consents
  BY EndAppSessionsWithers DEF Withers, Fades
<1> HIDE DEF d1
<1>3. \A f \in DOMAIN d1.families : d1.families[f].user = u /\ d1.families[f].client = c => f \in F
  OBVIOUS
<1> HIDE DEF F
<1>4. /\ Withers(d1, e) /\ e.consents = d1.consents
      /\ \A f \in DOMAIN e.families : f \in F => e.families[f].revoked
  BY <1>2, RevokeFamiliesWithers
<1> HIDE DEF e
<1>5. \A f \in DOMAIN e.families : /\ f \in DOMAIN d1.families
                                   /\ e.families[f].user = d1.families[f].user
                                   /\ e.families[f].client = d1.families[f].client
  BY <1>2, <1>4, CutFields DEF Withers, Fades, Sound
<1>6. Withers(d, e)
  BY <1>2, <1>4, WithersTwice
<1> QED BY <1>1, <1>2, <1>3, <1>4, <1>5, <1>6

\* SaveConsent saves the consent, after that when it is a revoked one.
LEMMA SaveConsentSaves ==
    ASSUME NEW d, NEW u, NEW c, NEW new, NEW t
    PROVE  SaveConsent(d, u, c, new, t) =
               LET e == IF new.revoked THEN Unconsent(d, u, c, t) ELSE d
               IN [e EXCEPT !.consents = Put(e.consents, <<u, c>>, new)]
BY DEF SaveConsent, Unconsent

(***************************************************************************)
(* Pruning.                                                                *)
(***************************************************************************)
\* Dropping what ended long ago takes nothing from what is open.
LEMMA PruneLogoutStateWithers ==
    ASSUME NEW d, Sound(d), NEW t \in Nat \ {0}
    PROVE  Withers(d, PruneLogoutState(d, t))
<1> DEFINE d1 == PruneSessions(d, t)
           ap == Drop(d1.apps, Retired(d1.apps, t))
           se == Drop(d1.sessions, Retired(d1.sessions, t))
           e  == [d1 EXCEPT !.apps = ap, !.sessions = se]
<1>1. e = PruneLogoutState(d, t)
  BY DEF PruneLogoutState
<1>2. Sound(e)
  <2> HIDE DEF e
  <2> QED BY <1>1, PruneLogoutStateSound
<1>3. Withers(d, d1) /\ Sound(d1)
  BY EndSessionsWithers DEF PruneSessions, Withers, Fades
<1> HIDE DEF d1
<1>4. /\ EndsOnce(d1.apps, ap) /\ EndsOnce(d1.sessions, se)
      /\ \A a \in DOMAIN d1.apps : d1.apps[a].ended = 0 =>
            a \in DOMAIN ap /\ ap[a] = d1.apps[a]
      /\ \A h \in DOMAIN d1.sessions : d1.sessions[h].ended = 0 =>
            h \in DOMAIN se /\ se[h] = d1.sessions[h]
  BY Drops DEF Drop, Retired
<1> HIDE DEF ap, se
<1>5. /\ Steady(d1, e) /\ e.next = d1.next
      /\ e.sessions = se /\ e.apps = ap /\ e.txns = d1.txns
      /\ e.codes = d1.codes /\ e.families = d1.families /\ e.tokens = d1.tokens
      /\ e.refresh = d1.refresh /\ e.consents = d1.consents
  BY <1>3, StoreFields DEF Sound, FieldsOf, Steady
<1> HIDE DEF e
<1>6. MapsFade(d1, e)
  BY <1>4, <1>5, Nothing DEF MapsFade
<1>7. Rests(d1, e)
  BY <1>4, <1>5 DEF Rests, OpenSession
<1>8. Withers(d1, e)
  BY <1>2, <1>3, <1>5, <1>6, <1>7, Fading DEF Withers, Sound
<1> QED BY <1>1, <1>3, <1>8, WithersTwice

\* A family is kept for as long as its tokens, and a code for as long as what
\* descends from it, so that pruning takes nothing from what is usable.
LEMMA PruneOIDCStateWithers ==
    ASSUME NEW d, Sound(d), NEW t \in Nat
    PROVE  LET e == PruneOIDCState(d, t) IN
           /\ Withers(d, e)
           /\ e.sessions = d.sessions /\ e.apps = d.apps /\ e.consents = d.consents
           /\ \A x \in DOMAIN d.txns : t < d.txns[x].exp =>
                 x \in DOMAIN e.txns /\ e.txns[x] = d.txns[x]
<1> DEFINE F  == {f \in DOMAIN d.families : d.families[f].retain <= t}
           fa == Drop(d.families, F)
           re == Drop(d.refresh, {r \in DOMAIN d.refresh : d.refresh[r].family \in F})
           tx == Drop(d.txns, {x \in DOMAIN d.txns : d.txns[x].exp <= t})
           co == Drop(d.codes, {k \in DOMAIN d.codes :
                     d.codes[k].exp <= t /\ d.codes[k].retain <= t})
           to == Drop(d.tokens, {k \in DOMAIN d.tokens : d.tokens[k].exp <= t})
           e  == [d EXCEPT !.families = fa, !.refresh = re, !.txns = tx,
                           !.codes = co, !.tokens = to]
<1>1. e = PruneOIDCState(d, t)
  BY DEF PruneOIDCState
<1>2. Sound(e)
  <2> HIDE DEF e
  <2> QED BY <1>1, PruneOIDCStateSound
<1>3. /\ OnlyCuts(d.families, fa) /\ OnlyDrops(d.refresh, re) /\ OnlyCuts(d.txns, tx)
      /\ OnlyCuts(d.codes, co) /\ OnlyCuts(d.tokens, to)
  BY Drops
<1>4. /\ \A f \in DOMAIN d.families : /\ d.families[f].retain \in Nat
                                      /\ f \in DOMAIN fa <=> ~(d.families[f].retain <= t)
                                      /\ f \in DOMAIN fa => fa[f] = d.families[f]
      /\ DOMAIN fa \subseteq DOMAIN d.families
  BY Records DEF Drop, Sound, RefreshFamily, Time
<1>5. /\ \A k \in DOMAIN d.codes : /\ d.codes[k].retain \in Nat
                                   /\ ~(d.codes[k].retain <= t) => k \in DOMAIN co
  BY Records DEF Drop, Sound, AuthorizationCode, Time
<1>6. \A k \in DOMAIN to : /\ k \in DOMAIN d.tokens /\ to[k] = d.tokens[k]
                           /\ to[k].exp \in Nat /\ ~(to[k].exp <= t)
  BY Records DEF Drop, Sound, AccessToken, Time
<1>7. \A x \in DOMAIN d.txns : t < d.txns[x].exp => x \in DOMAIN tx /\ tx[x] = d.txns[x]
  BY Records DEF Drop, Sound, AuthzTransaction, Time
<1>8. /\ \A r \in DOMAIN d.refresh : r \in DOMAIN re <=> d.refresh[r].family \notin F
      /\ \A r \in DOMAIN re : r \in DOMAIN d.refresh /\ re[r] = d.refresh[r]
      /\ \A f \in DOMAIN d.families : f \in DOMAIN fa <=> f \notin F
  BY DEF Drop
<1> HIDE DEF F, fa, re, tx, co, to
<1>9. /\ Steady(d, e) /\ e.next = d.next
      /\ e.sessions = d.sessions /\ e.apps = d.apps /\ e.txns = tx
      /\ e.codes = co /\ e.families = fa /\ e.tokens = to
      /\ e.refresh = re /\ e.consents = d.consents
  BY StoreFields DEF Sound, FieldsOf, Steady
<1> HIDE DEF e
<1>10. MapsFade(d, e)
  BY <1>3, <1>9, Nothing DEF MapsFade
<1>11. Rests(d, e)
  <2>1. ASSUME NEW k \in DOMAIN e.tokens
        PROVE  LET v == e.tokens[k] IN
              /\ /\ v.family \in DOMAIN d.families /\ ~d.families[v.family].revoked
                 /\ v.exp <= d.families[v.family].retain
                 => v.family \in DOMAIN e.families /\ ~e.families[v.family].revoked
              /\ /\ v.code \in DOMAIN d.codes
                 /\ v.exp <= d.codes[v.code].retain
                 => v.code \in DOMAIN e.codes
    <3>1. e.tokens[k].exp \in Nat /\ ~(e.tokens[k].exp <= t)
      BY <1>6, <1>9
    <3> QED BY <1>4, <1>5, <1>9, <3>1
  <2>2. ASSUME NEW f \in DOMAIN e.families
        PROVE  LET v == e.families[f] IN
          /\ v.code \in DOMAIN d.codes
          /\ v.retain <= d.codes[v.code].retain
          => v.code \in DOMAIN e.codes
    <3>1. e.families[f].retain \in Nat /\ ~(e.families[f].retain <= t)
      BY <1>4, <1>9
    <3> QED BY <1>5, <1>9, <3>1
  <2>3. /\ \A r \in DOMAIN d.refresh :
             d.refresh[r].family \in DOMAIN e.families => r \in DOMAIN e.refresh
        /\ \A r \in DOMAIN e.refresh :
             e.refresh[r].family \in DOMAIN d.families => e.refresh[r].family \in DOMAIN e.families
    BY <1>4, <1>8, <1>9
  <2> QED BY <1>9, <2>1, <2>2, <2>3 DEF Rests, OpenSession
<1> QED BY <1>1, <1>2, <1>7, <1>9, <1>10, <1>11, Fading DEF Withers, Sound
=============================================================================
