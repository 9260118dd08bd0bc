------------------------------ MODULE Provider ------------------------------
(***************************************************************************)
(* The provider's sessions and grants: sign-in, /authorize and its         *)
(* continuation, /token for every grant, /revoke, logout from every entry  *)
(* point, account, client, policy and consent changes, and pruning, over   *)
(* the shared IdentityStore.                                               *)
(*                                                                         *)
(* One action is one Store.Write: the store runs callbacks atomically and  *)
(* serializably and a callback that fails leaves no trace, so a rejected   *)
(* request is no step.  What a handler read before its Write is a          *)
(* parameter that ranges over every value the state has ever had (a user's *)
(* password version, a client's revision, a session since ended), so every *)
(* interleaving of the read with other requests is a behaviour.            *)
(*                                                                         *)
(* An administrator signs in with an account outside Users; whatever an    *)
(* administrator may do to these users and clients may happen at any time. *)
(***************************************************************************)
EXTENDS IdentityStore

CONSTANTS
    SessionTTL, TransactionTTL, CodeTTL, AccessTokenTTL,
    RefreshMaxTTL, RefreshInactivityTTL,
    SessionCapacity, AppCapacity,  \* CheckSessionCapacity (10000, 50000)
    MaxAges,                       \* max_age values requests carry
    MaxTime, MaxRev, MaxId,        \* bounds: clock, revisions, keys per kind
    MaxLag                         \* bound: ticks from reading the clock to a Write

NoMaxAge == -1

ASSUME ProviderAssumption ==
    /\ {SessionTTL, TransactionTTL, CodeTTL, AccessTokenTTL, RefreshMaxTTL,
        RefreshInactivityTTL} \subseteq Nat \ {0}
    /\ RefreshInactivityTTL <= RefreshMaxTTL
    /\ MaxAges \subseteq Nat \cup {NoMaxAge}
    /\ MaxId \in [Kinds -> Nat]
    /\ {MaxTime, MaxRev, MaxLag, SessionCapacity, AppCapacity} \subseteq Nat
    /\ 0 \notin Users

VARIABLES db, now

vars == <<db, now>>

TypeOK == StoreOK(db) /\ now \in Nat \ {0}

Init ==
    /\ now = 1
    /\ \E r \in [Users -> Roles] :
         db = [users |-> [u \in Users |-> [cred |-> 0, active |-> TRUE, role |-> r[u]]],
               clients |-> [c \in Clients |-> [rev |-> 0]],
               policy |-> [c \in Clients |-> PolicyGrants],
               access |-> [u \in Users |-> TRUE],
               sessions |-> <<>>, apps |-> <<>>, txns |-> <<>>, codes |-> <<>>,
               tokens |-> <<>>, families |-> <<>>, refresh |-> <<>>,
               consents |-> <<>>,
               next |-> [k \in Kinds |-> 1]]

(***************************************************************************)
(* New records.  Room bounds the keys a run may draw.                      *)
(***************************************************************************)
Room(kind) == db.next[kind] <= MaxId[kind]
Draw(d, kind) == [d EXCEPT !.next = [d.next EXCEPT ![kind] = d.next[kind] + 1]]

AddSession(d, v) ==
    [Draw(d, "session") EXCEPT !.sessions = Put(d.sessions, d.next["session"], v)]
AddApp_NoID(d, v) == [d EXCEPT !.apps = Put(d.apps, 0, v)]
AddApp(d, v)    == [Draw(d, "app") EXCEPT !.apps = Put(d.apps, d.next["app"], v)]
AddTxn(d, v)    == [Draw(d, "txn") EXCEPT !.txns = Put(d.txns, d.next["txn"], v)]
AddCode(d, v)   == [Draw(d, "code") EXCEPT !.codes = Put(d.codes, d.next["code"], v)]
AddToken(d, v)  == [Draw(d, "token") EXCEPT !.tokens = Put(d.tokens, d.next["token"], v)]
AddFamily(d, v) ==
    [Draw(d, "family") EXCEPT !.families = Put(d.families, d.next["family"], v)]
AddRefresh(d, v) ==
    [Draw(d, "refresh") EXCEPT !.refresh = Put(d.refresh, d.next["refresh"], v)]

(***************************************************************************)
(* Sessions.                                                               *)
(***************************************************************************)
\* clock values a handler may have read before its Write
ReadTimes == {x \in 1..now : now - x <= MaxLag}

LiveSession_EvenEnded(d, h) == h \in DOMAIN d.sessions
LiveSession(d, h) == h \in DOMAIN d.sessions /\ d.sessions[h].ended = 0

Principal(d, h) ==
    /\ LiveSession(d, h)
    /\ now < d.sessions[h].exp
    /\ UserActive(d, d.sessions[h].user)

\* what Login checks again inside its Write: the password verified before it
\* was version cred of the account
LoginRecheck_ActiveOnly(d, u, cred) == UserActive(d, u)
LoginRecheck(d, u, cred) == UserActive(d, u) /\ d.users[u].cred = cred

\* CheckSessionCapacity counts every record kept, the ended ones included
HasRoom_OpenOnly(m, capacity) == Cardinality({x \in DOMAIN m : m[x].ended = 0}) < capacity
HasRoom(m, capacity) == Cardinality(DOMAIN m) < capacity

\* the browser may still present an older cookie (0: none or unknown); the
\* clock was read at time at, before the Write
Login(u, cred, old, at) ==
    LET d1   == PruneLogoutState(db, now)
        h    == d1.next["session"]
        live == LiveSession(d1, old)
        same == live /\ d1.sessions[old].user = u /\ at < d1.sessions[old].exp
        d2   == IF same
                THEN [d1 EXCEPT !.sessions = Drop(d1.sessions, {old})]
                ELSE IF live THEN EndSession(d1, d1.sessions[old].id, at) ELSE d1
    IN /\ Room("session")
       /\ at \in ReadTimes
       /\ LoginRecheck(db, u, cred)
       /\ HasRoom(d1.sessions, SessionCapacity)
       /\ db' = AddSession(d2, [id |-> IF same THEN d1.sessions[old].id ELSE h,
                                user |-> u, auth |-> at, exp |-> at + SessionTTL,
                                ended |-> 0, cred |-> cred])
       /\ now' = now

Logout(h) ==
    /\ LiveSession(db, h)
    /\ db' = EndSession(db, db.sessions[h].id, now)
    /\ now' = now

\* one device, by its owner or an administrator
EndOPSession(id, offline) ==
    LET d1 == EndSession(db, id, now)
        F  == {f \in DOMAIN d1.families : d1.families[f].op = id}
    IN /\ \E h \in DOMAIN db.sessions : db.sessions[h].id = id
       /\ db' = IF offline THEN RevokeFamilies(d1, F) ELSE d1
       /\ now' = now

\* scope "all" or the administrator's user-sessions (keep = 0), or scope "other"
EndUserSessions(u, keep, offline) ==
    LET d1 == EndSessions(db, SessionsOf(db, u) \ {keep}, now)
    IN /\ u \in DOMAIN db.users
       /\ keep # 0 => \E h \in DOMAIN db.sessions : /\ Principal(db, h)
                                                    /\ db.sessions[h].id = keep
                                                    /\ db.sessions[h].user = u
       /\ db' = IF offline THEN RevokeAccessTokensForUser(d1, u) ELSE d1
       /\ now' = now

EndAppSession(a, offline) ==
    LET d1 == EndAppSessions(db, {a}, now)
        F  == {f \in DOMAIN d1.families : d1.families[f].app = a}
    IN /\ a \in DOMAIN db.apps
       /\ db' = IF offline THEN RevokeFamilies(d1, F) ELSE d1
       /\ now' = now

\* the user withdraws everything one application was given
EndClientAccess(u, c) ==
    LET mine(m) == {x \in DOMAIN m : m[x].user = u /\ m[x].client = c}
        d1 == SaveConsent(db, u, c, [db.consents[<<u, c>>] EXCEPT !.revoked = TRUE], now)
        d2 == [d1 EXCEPT !.txns = Revoke(d1.txns, mine(d1.txns)),
                         !.codes = Revoke(d1.codes, mine(d1.codes))]
        d3 == EndAppSessions(d2, mine(d2.apps), now)
    IN /\ <<u, c>> \in DOMAIN db.consents
       /\ \E h \in DOMAIN db.sessions : Principal(db, h) /\ db.sessions[h].user = u
       /\ db' = [d3 EXCEPT !.tokens = Revoke(d3.tokens, mine(d3.tokens))]
       /\ now' = now

Sweep ==
    /\ db' = PruneLogoutState(db, now)
    /\ now' = now

(***************************************************************************)
(* /authorize and its continuation.                                        *)
(***************************************************************************)
SessionFresh(v, maxAge, t) ==
    /\ v.auth <= t
    /\ t < v.exp
    /\ maxAge # NoMaxAge => maxAge > 0 /\ t - v.auth <= maxAge

\* revisions of client c a handler may have read before its Write; every
\* client starts at revision 0
ReadRevs(c) == IF c \in DOMAIN db.clients THEN 0..db.clients[c].rev ELSE {0}

ConsentCovers(d, u, c, rev, scopes) ==
    /\ <<u, c>> \in DOMAIN d.consents
    /\ ~d.consents[<<u, c>>].revoked
    /\ d.consents[<<u, c>>].rev = rev
    /\ scopes \subseteq d.consents[<<u, c>>].scopes

\* what mintCodeTx re-verifies before it issues a code to client c, known to
\* the handler at revision rev, for the user of session h
MayMint(d, u, c, rev, h) ==
    /\ UserActive(d, u)
    /\ c \in DOMAIN d.clients
    /\ d.clients[c].rev = rev
    /\ LiveSession(d, h)
    /\ SessionActive(d, d.sessions[h].id, now)

MintCode(d, txn, u, c, h, scopes) ==
    AddCode(PruneOIDCState(d, now),
        [txn |-> txn, op |-> d.sessions[h].id, client |-> c, user |-> u,
         rev |-> d.clients[c].rev, scopes |-> scopes, auth |-> d.sessions[h].auth,
         exp |-> now + CodeTTL, retain |-> 0, revoked |-> FALSE,
         consumed |-> FALSE, cred |-> d.sessions[h].cred])

\* The client (at revision rev), its policy, the clock and the browser's
\* session s were read before the Write; any of them may have changed since.
Authorize(c, rev, s, login, scopes, prompt, maxAge, at) ==
    LET known == s # 0 /\ ~login /\ SessionFresh(db.sessions[s], maxAge, at) IN
    /\ Room("txn")
    /\ at \in ReadTimes
    /\ rev \in ReadRevs(c)
    /\ Offline \in scopes => prompt /\ "refresh_token" \in PolicyGrants
    /\ db' = AddTxn(PruneOIDCState(db, at),
           [op |-> IF known THEN db.sessions[s].id ELSE 0, client |-> c,
            user |-> IF known THEN db.sessions[s].user ELSE 0, rev |-> rev,
            scopes |-> scopes, prompt |-> prompt, maxAge |-> maxAge,
            reauth |-> IF known THEN 0 ELSE at, created |-> at,
            exp |-> at + TransactionTTL, revoked |-> FALSE, consumed |-> FALSE])
    /\ now' = now

\* prompt=none: the session and the consent still answer the request
AnswersSilently(d, c, rev, h, scopes, maxAge) ==
    /\ LiveSession(d, h)
    /\ SessionFresh(d.sessions[h], maxAge, now)
    /\ ConsentCovers(d, d.sessions[h].user, c, rev, scopes)

AuthorizeSilently(c, rev, h, scopes, maxAge) ==
    /\ Room("code")
    /\ Offline \notin scopes
    /\ AnswersSilently(db, c, rev, h, scopes, maxAge)
    /\ MayMint(db, db.sessions[h].user, c, rev, h)
    /\ db' = MintCode(db, 0, db.sessions[h].user, c, h, scopes)
    /\ now' = now

\* the sign-in is after the request when it demanded one, recent enough otherwise
SignInSuits_AnyFresh(t, v) == SessionFresh(v, t.maxAge, now)
SignInSuits(t, v) == IF t.reauth # 0 THEN v.auth >= t.reauth ELSE SessionFresh(v, t.maxAge, now)

ClaimableBy_Anyone(t, u) == TRUE
ClaimableBy(t, u) == t.user \in {0, u}

\* the checks completeInteraction makes on transaction x for the browser
\* signed in with session h
MayContinue(d, x, h) ==
    LET t == d.txns[x] v == d.sessions[h] IN
    /\ x \in DOMAIN d.txns
    /\ ~t.revoked /\ ~t.consumed /\ now < t.exp
    /\ LiveSession(d, h)
    /\ v.auth <= now /\ now < v.exp
    /\ SignInSuits(t, v)
    /\ ClaimableBy(t, v.user)
    /\ UserActive(d, v.user)
    /\ t.client \in DOMAIN d.clients
    /\ d.clients[t.client].rev = t.rev

\* the transaction as the signed-in user's
Claimed(d, x, h) == [d.txns[x] EXCEPT !.user = d.sessions[h].user,
                                      !.op = d.sessions[h].id]

CoveredTxn(d, x, h) ==
    LET t == d.txns[x] IN
    /\ ConsentCovers(d, d.sessions[h].user, t.client, t.rev, t.scopes)
    /\ ~t.prompt

SaveTxn(d, x, t) == [d EXCEPT !.txns = Put(d.txns, x, t)]

\* Status shows the consent screen
AskConsent(x, h) ==
    /\ MayContinue(db, x, h)
    /\ ~CoveredTxn(db, x, h)
    /\ db' = SaveTxn(db, x, Claimed(db, x, h))
    /\ now' = now

\* Status finds the request already consented to
CompleteCovered(x, h) ==
    LET t == Claimed(db, x, h) IN
    /\ Room("code")
    /\ MayContinue(db, x, h)
    /\ CoveredTxn(db, x, h)
    /\ MayMint(db, t.user, t.client, t.rev, h)
    /\ db' = SaveTxn(MintCode(db, x, t.user, t.client, h, t.scopes), x,
                     [t EXCEPT !.consumed = TRUE])
    /\ now' = now

\* the user approves some of the scopes; the consent becomes exactly those
Approve(x, h, approved) ==
    LET t == Claimed(db, x, h)
        granted == t.scopes \cap approved
        d1 == SaveConsent(db, t.user, t.client,
                  [scopes |-> granted, rev |-> t.rev, revoked |-> FALSE], now)
    IN /\ Room("code")
       /\ MayContinue(db, x, h)
       /\ MayMint(d1, t.user, t.client, t.rev, h)
       /\ db' = SaveTxn(MintCode(d1, x, t.user, t.client, h, granted), x,
                        [t EXCEPT !.consumed = TRUE])
       /\ now' = now

Deny(x, h) ==
    /\ MayContinue(db, x, h)
    /\ db' = SaveTxn(db, x, [Claimed(db, x, h) EXCEPT !.consumed = TRUE])
    /\ now' = now

(***************************************************************************)
(* /token.  snap is the revision client authentication read.               *)
(***************************************************************************)
\* code k presented with its redirect URI and verifier by its own client
BoundCode(k, c, snap) ==
    /\ k \in DOMAIN db.codes
    /\ ~db.codes[k].revoked
    /\ db.codes[k].client = c
    /\ c \in DOMAIN db.clients
    /\ db.clients[c].rev = snap
    /\ db.clients[c].rev = db.codes[k].rev

\* the un-ended app sessions of an OP session at a client
LiveApps(d, op, c) == {a \in DOMAIN d.apps : /\ d.apps[a].op = op
                                             /\ d.apps[a].client = c
                                             /\ d.apps[a].ended = 0}

\* the client joins its app session of the OP session, or starts one
NewApp(d, code) ==
    AddApp(d, [op |-> code.op, client |-> code.client, user |-> code.user, ended |-> 0])
JoinApp_Afresh(d, code) == IF code.op = 0 THEN d ELSE NewApp(d, code)
JoinApp(d, code) ==
    IF code.op = 0 \/ LiveApps(d, code.op, code.client) # {} THEN d
    ELSE NewApp(d, code)

\* how long a family, and a code consumed with or without one, is kept
FamilyRetain == now + RefreshMaxTTL + AccessTokenTTL

CodeRetain_OneToken(off) == now + AccessTokenTTL
CodeRetain(off) == IF off THEN FamilyRetain ELSE now + AccessTokenTTL

NewFamily(code, k, app) ==
    [op |-> code.op, app |-> app, code |-> k, client |-> code.client,
     user |-> code.user, rev |-> code.rev, scopes |-> code.scopes,
     idle |-> now + RefreshInactivityTTL, abs |-> now + RefreshMaxTTL,
     retain |-> FamilyRetain, revoked |-> FALSE,
     cred |-> code.cred]

InitialRefresh(d, f) ==
    AddRefresh(AddFamily(d, f),
               [family |-> d.next["family"], scopes |-> f.scopes, consumed |-> FALSE])

Exchangeable_EvenConsumed(k) == now < db.codes[k].exp
Exchangeable(k) == ~db.codes[k].consumed /\ now < db.codes[k].exp

ExchangeCode(k, c, snap) ==
    LET code == db.codes[k]
        d1   == JoinApp(db, code)
        live == LiveApps(d1, code.op, c)
        app  == IF code.op = 0 THEN 0 ELSE CHOOSE a \in live : TRUE
        off  == Offline \in code.scopes
        f    == NewFamily(code, k, app)
        fid  == IF off THEN d1.next["family"] ELSE 0
        d2   == IF off THEN InitialRefresh(d1, f) ELSE d1
        used == [code EXCEPT !.consumed = TRUE,
                             !.retain = CodeRetain(off)]
    IN /\ BoundCode(k, c, snap)
       /\ Exchangeable(k)
       /\ UserActive(db, code.user)
       /\ code.op # 0 => SessionActive(db, code.op, now)
       /\ d1 # db => Room("app") /\ HasRoom(db.apps, AppCapacity)
       /\ off => /\ RefreshFamilyActive(d1, f, now)
                 /\ Room("family") /\ Room("refresh")
       /\ Room("token")
       /\ db' = PruneOIDCState(
              AddToken([d2 EXCEPT !.codes = Put(d2.codes, k, used)],
                  [op |-> code.op, app |-> app, family |-> fid, code |-> k,
                   client |-> c, user |-> code.user, grant |-> "authorization_code",
                   scopes |-> code.scopes, rev |-> db.clients[c].rev,
                   exp |-> now + AccessTokenTTL, revoked |-> FALSE,
                   cred |-> code.cred, snap |-> snap]), now)
       /\ now' = now

ReplayCode(k, c, snap) ==
    /\ BoundCode(k, c, snap)
    /\ db.codes[k].consumed
    /\ db' = RevokeAccessTokensForCode(db, k)
    /\ now' = now

\* refresh token r presented by the client its family belongs to
BoundRefresh(r, c, snap) ==
    /\ r \in DOMAIN db.refresh
    /\ db.refresh[r].family \in DOMAIN db.families
    /\ db.families[db.refresh[r].family].client = c
    /\ c \in DOMAIN db.clients
    /\ db.clients[c].rev = snap

Lesser(a, b) == IF a < b THEN a ELSE b

Spend_Nothing(m, r) == m
Spend(m, r) == Put(m, r, [m[r] EXCEPT !.consumed = TRUE])

\* the widest scope a refresh token may be exchanged for
Refreshable_WholeGrant(old, f) == f.scopes
Refreshable(old, f) == old.scopes

Rotate(r, c, snap, scopes) ==
    LET old == db.refresh[r]
        f   == db.families[old.family]
        d1  == [db EXCEPT
                  !.refresh = Spend(db.refresh, r),
                  !.families = Put(db.families, old.family,
                      [f EXCEPT !.idle = Lesser(now + RefreshInactivityTTL, f.abs)])]
        d2  == AddRefresh(d1, [family |-> old.family, scopes |-> scopes, consumed |-> FALSE])
    IN /\ BoundRefresh(r, c, snap)
       /\ ~old.consumed
       /\ RefreshFamilyActive(db, f, now)
       /\ scopes \subseteq Refreshable(old, f)
       /\ Room("refresh") /\ Room("token")
       /\ db' = PruneOIDCState(AddToken(d2,
                  [op |-> f.op, app |-> f.app, family |-> old.family, code |-> f.code,
                   client |-> c, user |-> f.user, grant |-> "refresh_token",
                   scopes |-> scopes, rev |-> db.clients[c].rev,
                   exp |-> now + AccessTokenTTL, revoked |-> FALSE, cred |-> f.cred,
                   snap |-> snap]), now)
       /\ now' = now

ReplayRefresh(r, c, snap) ==
    /\ BoundRefresh(r, c, snap)
    /\ db.refresh[r].consumed
    /\ db' = RevokeRefreshFamily(db, db.refresh[r].family)
    /\ now' = now

\* what resourceGrant and the account recheck require inside the Write: the
\* password verified before it was version cred of the account
MayIssue(c, grant, u, cred, snap) ==
    /\ c \in DOMAIN db.clients
    /\ db.clients[c].rev = snap
    /\ grant \in db.policy[c]
    /\ grant = "password" => /\ UserActive(db, u)
                             /\ db.users[u].cred = cred
                             /\ db.access[u]

IssueResourceToken(c, grant, u, cred, snap) ==
    /\ MayIssue(c, grant, u, cred, snap)
    /\ Room("token")
    /\ db' = PruneOIDCState(AddToken(db,
              [op |-> 0, app |-> 0, family |-> 0, code |-> 0, client |-> c, user |-> u,
               grant |-> grant, scopes |-> {}, rev |-> db.clients[c].rev,
               exp |-> now + AccessTokenTTL, revoked |-> FALSE, cred |-> cred,
               snap |-> snap]), now)
    /\ now' = now

(***************************************************************************)
(* /revoke.                                                                *)
(***************************************************************************)
RevokeToken(k, c, snap) ==
    /\ c \in DOMAIN db.clients /\ db.clients[c].rev = snap
    /\ k \in DOMAIN db.tokens /\ db.tokens[k].client = c
    /\ db' = RevokeAccessToken(db, k)
    /\ now' = now

RevokeRefresh(r, c, snap) ==
    /\ BoundRefresh(r, c, snap)
    /\ db' = RevokeRefreshFamily(db, db.refresh[r].family)
    /\ now' = now
(***************************************************************************)
(* Account, client, policy and access changes.  lastAdmin never refuses    *)
(* them here: the acting administrator is another active one.              *)
(***************************************************************************)
UpdateUser(u, cred, active, role) ==
    LET new == [cred |-> cred, active |-> active, role |-> role]
        d1  == IF new # db.users[u] THEN DeleteUserSessions(db, u, now) ELSE db
    IN /\ u \in DOMAIN db.users
       /\ cred \in {db.users[u].cred, db.users[u].cred + 1} /\ cred <= MaxRev
       /\ db' = SaveUser(d1, u, new, now)
       /\ now' = now

RemoveUser(u) ==
    /\ u \in DOMAIN db.users
    /\ db' = DeleteUser(db, u, now)
    /\ now' = now

NewCred(u) == [db.users[u] EXCEPT !.cred = db.users[u].cred + 1]

\* a new e-mail address
UpdateProfile(h) ==
    LET u == db.sessions[h].user IN
    /\ Principal(db, h)
    /\ db.users[u].cred < MaxRev
    /\ db' = SaveUser(db, u, NewCred(u), now)
    /\ now' = now

\* the current password was verified before the Write, as version cred
ChangePassword(h, cred) ==
    LET u == db.sessions[h].user IN
    /\ Principal(db, h)
    /\ db.users[u].cred = cred /\ cred < MaxRev
    /\ db' = DeleteUserSessions(SaveUser(db, u, NewCred(u), now), u, now)
    /\ now' = now

UpdateClient(c) ==
    /\ c \in DOMAIN db.clients /\ db.clients[c].rev < MaxRev
    /\ db' = SaveClient(db, c, now)
    /\ now' = now

RemoveClient(c) ==
    /\ c \in DOMAIN db.clients
    /\ db' = DeleteClient(db, c, now)
    /\ now' = now

SetOAuthPolicy(c, p) ==
    /\ c \in DOMAIN db.clients
    /\ db' = SaveOAuthPolicy(db, c, p, now)
    /\ now' = now

SetOAuthAccess(u, allowed) ==
    /\ u \in DOMAIN db.users
    /\ db' = SaveOAuthAccess(db, u, allowed, now)
    /\ now' = now

(***************************************************************************)
(* The administrator's activity page: RevokeActivity, one action per kind, *)
(* on a record whose status is active.                                     *)
(***************************************************************************)
ActiveCodes(d, K) == {k \in K \cap DOMAIN d.codes : /\ ~d.codes[k].revoked
                                                    /\ ~d.codes[k].consumed
                                                    /\ now < d.codes[k].exp}

ActiveTxn(d, x) == ~d.txns[x].revoked /\ ~d.txns[x].consumed /\ now < d.txns[x].exp

\* revokeCode on every code of K
RevokeCodes(d, K) ==
    LET A == ActiveCodes(d, K) IN
    [d EXCEPT !.codes = Revoke(d.codes, A),
              !.tokens = Revoke(d.tokens, {t \in DOMAIN d.tokens :
                             d.tokens[t].code \in A /\ now < d.tokens[t].exp})]

RevokeActiveRefresh(r) ==
    /\ r \in DOMAIN db.refresh /\ db.refresh[r].family \in DOMAIN db.families
    /\ ~db.refresh[r].consumed
    /\ RefreshFamilyActive(db, db.families[db.refresh[r].family], now)
    /\ db' = RevokeRefreshFamily(db, db.refresh[r].family)
    /\ now' = now

RevokeActiveToken(k) ==
    /\ k \in DOMAIN db.tokens /\ AccessTokenActive(db, k, now)
    /\ db' = RevokeAccessToken(db, k)
    /\ now' = now

RevokeActiveCode(k) ==
    /\ k \in ActiveCodes(db, DOMAIN db.codes)
    /\ db' = RevokeCodes(db, {k})
    /\ now' = now

RevokeActiveTxn(x) ==
    /\ x \in DOMAIN db.txns /\ ActiveTxn(db, x)
    /\ db' = RevokeCodes([db EXCEPT !.txns = Revoke(db.txns, {x})],
                         {k \in DOMAIN db.codes : db.codes[k].txn = x})
    /\ now' = now

RevokeActiveConsent(u, c) ==
    LET own == db.consents[<<u, c>>]
        d1  == SaveConsent(db, u, c, [own EXCEPT !.revoked = TRUE], now)
        mine(m) == {x \in DOMAIN m : m[x].user = u /\ m[x].client = c}
        d2  == RevokeCodes([d1 EXCEPT !.txns =
                   Revoke(d1.txns, {x \in mine(d1.txns) : ActiveTxn(d1, x)})],
                   mine(d1.codes))
    IN /\ <<u, c>> \in DOMAIN db.consents
       /\ ~own.revoked
       /\ c \in DOMAIN db.clients /\ db.clients[c].rev = own.rev
       /\ db' = [d2 EXCEPT !.tokens = Revoke(d2.tokens,
                     {k \in mine(d2.tokens) : now < d2.tokens[k].exp})]
       /\ now' = now

(***************************************************************************)
(* The specification.                                                      *)
(***************************************************************************)
Tick == now < MaxTime /\ now' = now + 1 /\ db' = db

Creds(u) == IF u \in DOMAIN db.users THEN 0..db.users[u].cred ELSE {0}

SessionStep ==
    \/ \E u \in Users : \E cred \in Creds(u), old \in DOMAIN db.sessions \cup {0},
                         at \in ReadTimes : Login(u, cred, old, at)
    \/ \E h \in DOMAIN db.sessions : Logout(h)
    \/ \E h \in DOMAIN db.sessions, offline \in BOOLEAN :
           EndOPSession(db.sessions[h].id, offline)
    \/ \E u \in Users, offline \in BOOLEAN :
          \E keep \in SessionsOf(db, u) \cup {0} : EndUserSessions(u, keep, offline)
    \/ \E a \in DOMAIN db.apps, offline \in BOOLEAN : EndAppSession(a, offline)
    \/ \E u \in Users, c \in Clients : EndClientAccess(u, c)
    \/ Sweep

AuthorizeStep ==
    \/ \E c \in Clients, s \in DOMAIN db.sessions \cup {0}, login, prompt \in BOOLEAN,
          scopes \in SUBSET Scopes, maxAge \in MaxAges, at \in ReadTimes :
          \E rev \in ReadRevs(c) : Authorize(c, rev, s, login, scopes, prompt, maxAge, at)
    \/ \E c \in Clients, h \in DOMAIN db.sessions, scopes \in SUBSET Scopes, maxAge \in MaxAges :
          \E rev \in ReadRevs(c) : AuthorizeSilently(c, rev, h, scopes, maxAge)
    \/ \E x \in DOMAIN db.txns, h \in DOMAIN db.sessions :
          \/ AskConsent(x, h)
          \/ CompleteCovered(x, h)
          \/ \E approved \in SUBSET Scopes : Approve(x, h, approved)
          \/ Deny(x, h)

TokenRequest(c, snap) ==
    \/ \E k \in DOMAIN db.codes : ExchangeCode(k, c, snap) \/ ReplayCode(k, c, snap)
    \/ \E r \in DOMAIN db.refresh :
          \/ \E scopes \in SUBSET Scopes : Rotate(r, c, snap, scopes)
          \/ ReplayRefresh(r, c, snap)
          \/ RevokeRefresh(r, c, snap)
    \/ \E u \in Users : \E cred \in Creds(u) :
          IssueResourceToken(c, "password", u, cred, snap)
    \/ IssueResourceToken(c, "client_credentials", 0, 0, snap)
    \/ \E k \in DOMAIN db.tokens : RevokeToken(k, c, snap)

TokenStep == \E c \in Clients : \E snap \in ReadRevs(c) : TokenRequest(c, snap)

AdminStep ==
    \/ \E u \in Users : \/ \E cred \in 0..MaxRev, active \in BOOLEAN, role \in Roles :
                             UpdateUser(u, cred, active, role)
                       \/ RemoveUser(u)
                       \/ \E allowed \in BOOLEAN : SetOAuthAccess(u, allowed)
    \/ \E h \in DOMAIN db.sessions : UpdateProfile(h) \/ \E cred \in 0..MaxRev : ChangePassword(h, cred)
    \/ \E c \in Clients : \/ UpdateClient(c)
                         \/ RemoveClient(c)
                         \/ \E p \in SUBSET PolicyGrants : SetOAuthPolicy(c, p)

ActivityStep ==
    \/ \E r \in DOMAIN db.refresh : RevokeActiveRefresh(r)
    \/ \E k \in DOMAIN db.tokens : RevokeActiveToken(k)
    \/ \E k \in DOMAIN db.codes : RevokeActiveCode(k)
    \/ \E x \in DOMAIN db.txns : RevokeActiveTxn(x)
    \/ \E u \in Users, c \in Clients : RevokeActiveConsent(u, c)

Next == SessionStep \/ AuthorizeStep \/ TokenStep \/ AdminStep \/ ActivityStep \/ Tick

Spec == Init /\ [][Next]_vars

(***************************************************************************)
(* Safety properties.                                                      *)
(***************************************************************************)
\* credential version cred of account u still is its password and e-mail
CurrentUser(u, cred) == UserActive(db, u) /\ db.users[u].cred = cred

CurrentClient(c, rev) == c \in DOMAIN db.clients /\ db.clients[c].rev = rev

OpenApp(a) == a \in DOMAIN db.apps /\ db.apps[a].ended = 0

\* An app session is open only under an open OP session: whichever way the
\* OP session ended (logout, device list, expiry sweep, account switch,
\* password change), and however code exchanges interleaved with it, no
\* client is left signed in (EndSession, the code exchange's recheck).
AppSessionLineage == Lineage(db)

\* Everything issued online dies with the session: an unrevoked code still has
\* its OP session open, and an unrevoked access token outside a refresh family
\* has its app session open too.
LogoutEndsOnlineGrants ==
    /\ \A k \in DOMAIN db.codes : ~db.codes[k].revoked => OpenSession(db, db.codes[k].op)
    /\ \A k \in DOMAIN db.tokens :
          LET t == db.tokens[k] IN
          ~t.revoked /\ t.op # 0 /\ t.family = 0 => OpenApp(t.app) /\ OpenSession(db, t.op)

\* The session ID survives a repeated sign-in of the same user, but only one
\* cookie carries it at a time; and one app session serves all codes that a
\* client exchanges under one OP session.
OneOfEach ==
    /\ \A g, h \in DOMAIN db.sessions :
          /\ db.sessions[g].id = db.sessions[h].id
          /\ db.sessions[g].ended = 0
          => g = h
    /\ \A a, b \in DOMAIN db.apps :
          /\ OpenApp(a) /\ OpenApp(b)
          /\ db.apps[a].op = db.apps[b].op /\ db.apps[a].client = db.apps[b].client
          => a = b

\* Retained sessions never exceed the store's capacity, which the logout
\* outbox is sized by (CheckSessionCapacity).
CapacityHeld ==
    /\ Cardinality(DOMAIN db.sessions) <= SessionCapacity
    /\ Cardinality(DOMAIN db.apps) <= AppCapacity

\* No session, code, family or token was issued on an account, a password, an
\* e-mail address or a client that has since changed: the snapshot a handler
\* took before its Write is checked again inside it, and every change cuts off
\* what was issued earlier.
GrantsCurrent ==
    /\ \A h \in DOMAIN db.sessions :
          LET v == db.sessions[h] IN v.ended = 0 => CurrentUser(v.user, v.cred)
    /\ \A k \in DOMAIN db.codes :
          LET v == db.codes[k] IN
          ~v.revoked => CurrentUser(v.user, v.cred) /\ CurrentClient(v.client, v.rev)
    /\ \A k \in DOMAIN db.families :
          LET v == db.families[k] IN
          ~v.revoked => CurrentUser(v.user, v.cred) /\ CurrentClient(v.client, v.rev)
    /\ \A k \in DOMAIN db.tokens :
          LET v == db.tokens[k] IN
          ~v.revoked => /\ v.user # 0 => CurrentUser(v.user, v.cred)
                        /\ CurrentClient(v.client, v.rev)
                        /\ v.snap = v.rev

\* A policy or an entitlement withdrawn is withdrawn from what was issued
\* under it, refresh families included.
PolicyCut ==
    /\ \A k \in DOMAIN db.families :
          ~db.families[k].revoked => "refresh_token" \in db.policy[db.families[k].client]
    /\ \A k \in DOMAIN db.tokens :
          LET t == db.tokens[k] IN
          ~t.revoked => /\ t.grant \in {"client_credentials", "password"}
                              => t.grant \in db.policy[t.client]
                        /\ t.grant = "password" => db.access[t.user]

\* Refresh rotation: a family has exactly one refresh token that was not
\* presented yet, whatever clients, revocations and pruning did.
OneLiveRefreshToken ==
    \A f \in DOMAIN db.families :
        \E r \in DOMAIN db.refresh : /\ db.refresh[r].family = f
                                     /\ ~db.refresh[r].consumed
                                     /\ \A q \in DOMAIN db.refresh :
                                          db.refresh[q].family = f /\ ~db.refresh[q].consumed
                                          => q = r

\* An access token of a refresh family is usable only while the family is:
\* revoking the family reaches all of them, and the family is not pruned
\* before the last of them.
FamilyOutlivesTokens ==
    \A k \in DOMAIN db.tokens :
        LET t == db.tokens[k] IN
        ~t.revoked /\ t.family # 0 => /\ t.family \in DOMAIN db.families
                                      /\ ~db.families[t.family].revoked
                                      /\ t.exp <= db.families[t.family].retain

\* The record of a consumed code stays for as long as a token that descends
\* from it is usable, so that a replay is recognised as one.
ReplayEvidence ==
    \A k \in DOMAIN db.tokens :
        LET t == db.tokens[k] IN
        ~t.revoked /\ now < t.exp /\ t.code # 0
            => t.code \in DOMAIN db.codes /\ db.codes[t.code].consumed

\* One exchange per code and one code per authorization request.
MintedOnce ==
    /\ \A j, k \in DOMAIN db.tokens :
          /\ db.tokens[j].code = db.tokens[k].code
          /\ {db.tokens[j].grant, db.tokens[k].grant} = {"authorization_code"}
          => j = k
    /\ \A j, k \in DOMAIN db.codes : db.codes[j].txn = db.codes[k].txn /\ db.codes[j].txn # 0 => j = k

\* After the user or an administrator revokes a consent, nothing issued to that
\* client for that user through it can still be used.
WithdrawnConsent ==
    \A w \in DOMAIN db.consents :
        LET mine(m) == {x \in DOMAIN m : m[x].user = w[1] /\ m[x].client = w[2]} IN
        db.consents[w].revoked =>
            /\ \A f \in mine(db.families) : db.families[f].revoked
            /\ ActiveCodes(db, mine(db.codes)) = {}
            /\ \A k \in mine(db.tokens) :
                  db.tokens[k].revoked \/ db.tokens[k].exp <= now \/ db.tokens[k].grant = "password"

\* A code answers the request it was issued for: the user who first claimed the
\* request, no more than its scopes, a sign-in after the request when the
\* request called for one, and one no older than max_age otherwise.
CodeAnswersRequest ==
    \A k \in DOMAIN db.codes :
        LET v == db.codes[k] t == db.txns[v.txn] IN
        v.txn \in DOMAIN db.txns =>
            /\ v.user = t.user /\ v.op = t.op /\ v.client = t.client
            /\ v.scopes \subseteq t.scopes
            /\ v.auth >= t.reauth
            /\ t.reauth = 0 /\ t.maxAge # NoMaxAge => v.exp - CodeTTL - v.auth <= t.maxAge

\* A request that was claimed by a user is never claimed by another.
ClaimKept ==
    [][\A x \in DOMAIN db.txns \cap DOMAIN db'.txns :
           db.txns[x].user # 0 => db'.txns[x].user = db.txns[x].user]_vars

\* Consumed, revoked and ended are final: no later save of a record, built from
\* whatever a handler read, brings it back or moves its end.
FinalStatesStay ==
    [][/\ \A h \in DOMAIN db.sessions \cap DOMAIN db'.sessions :
             db.sessions[h].ended # 0 => db'.sessions[h] = db.sessions[h]
       /\ \A a \in DOMAIN db.apps \cap DOMAIN db'.apps :
             db.apps[a].ended # 0 => db'.apps[a] = db.apps[a]
       /\ \A x \in DOMAIN db.txns \cap DOMAIN db'.txns :
             /\ db.txns[x].revoked => db'.txns[x].revoked
             /\ db.txns[x].consumed => db'.txns[x].consumed
       /\ \A k \in DOMAIN db.codes \cap DOMAIN db'.codes :
             /\ db.codes[k].revoked => db'.codes[k].revoked
             /\ db.codes[k].consumed => db'.codes[k].consumed
       /\ \A k \in DOMAIN db.tokens \cap DOMAIN db'.tokens :
             db.tokens[k].revoked => db'.tokens[k].revoked
       /\ \A f \in DOMAIN db.families \cap DOMAIN db'.families :
             db.families[f].revoked => db'.families[f].revoked
       /\ \A r \in DOMAIN db.refresh \cap DOMAIN db'.refresh :
             db.refresh[r].consumed => db'.refresh[r].consumed]_vars

\* A session ID whose session ended is never signed in again, whatever cookie
\* a later sign-in presents.
SignOutFinal ==
    [][\A h \in DOMAIN db.sessions :
           LET id == db.sessions[h].id IN ~OpenSession(db, id) => ~OpenSession(db', id)]_vars

\* Along a family the scopes of the refresh token in circulation never widen.
ScopesNeverWiden ==
    [][\A r \in DOMAIN db.refresh, q \in DOMAIN db'.refresh :
           /\ ~db.refresh[r].consumed /\ ~db'.refresh[q].consumed
           /\ db.refresh[r].family = db'.refresh[q].family
           => db'.refresh[q].scopes \subseteq db.refresh[r].scopes]_vars

\* README.md:343: a replay with the correct client, redirect URI and proof
\* revokes the issued tokens.  Read as: while a token that descends from a code
\* is usable, the token endpoint still takes that code for the replay it is.
ReplayAlwaysRevokes ==
    \A k \in DOMAIN db.tokens :
        LET t == db.tokens[k] IN
        ~t.revoked /\ now < t.exp /\ t.code # 0 => BoundCode(t.code, t.client, t.rev)
================================================================================
