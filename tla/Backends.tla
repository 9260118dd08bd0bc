------------------------------ MODULE Backends ------------------------------
(***************************************************************************)
(* One provider on three stores.  db is the file store's state, as module  *)
(* Provider has it; pg and mongo are what the PostgreSQL and the MongoDB   *)
(* store hold after the same requests.  Each action is the handler's       *)
(* action of Provider together with the Tx calls the handler makes, in     *)
(* their order, run by the two other stores in one transaction.            *)
(*                                                                         *)
(* The handlers decide on what they read, here from db: the properties say *)
(* that they would have read the same in the other stores.  A value a      *)
(* handler saves is read from db', where nothing later in the transaction  *)
(* has changed it.                                                         *)
(***************************************************************************)
EXTENDS Provider, SequencesExt

CONSTANTS
    Null,
    Channels        \* client -> the logout channels its metadata names

ASSUME ChannelsAssumption ==
    Channels \in [Clients -> SUBSET {"backchannel", "frontchannel"}]

\* NULL is no time
ASSUME NullAssumption == Null \notin Nat

VARIABLES
    pg, mongo,
    tx              \* history: the Tx calls of the last Write

PG == INSTANCE PostgresTx
MG == INSTANCE MongoTx

all == <<db, now, pg, mongo, tx>>

\* tx decides nothing
view == <<db, now, pg, mongo>>

\* the rows of the accounts and clients there are, and no other
EmptyTables ==
    [users |-> db.users, clients |-> db.clients, policies |-> db.policy,
     access |-> {u \in Users : db.access[u]},
     sessions |-> <<>>, apps |-> <<>>, txns |-> <<>>, codes |-> <<>>, tokens |-> <<>>,
     families |-> <<>>, refresh |-> <<>>, consents |-> <<>>, deliveries |-> <<>>,
     err |-> FALSE]

\* a client's document embeds its policy, a family's its tokens
EmptyCollections ==
    [users |-> db.users, access |-> db.access,
     clients |-> [c \in Clients |-> [rev |-> 0, policy |-> db.policy[c]]],
     sessions |-> <<>>, apps |-> <<>>, txns |-> <<>>, codes |-> <<>>, tokens |-> <<>>,
     families |-> <<>>, consents |-> <<>>, deliveries |-> <<>>, err |-> FALSE]

InitBackends ==
    /\ Init
    /\ tx = <<>>
    /\ pg = EmptyTables
    /\ mongo = EmptyCollections

(***************************************************************************)
(* Scripts: sequences of Tx calls.                                         *)
(***************************************************************************)
CallOf(op, key, val, at) == [op |-> op, key |-> key, val |-> val, at |-> at]
TxAt(op, key, val, at) == <<CallOf(op, key, val, at)>>
Tx(op, key, val) == TxAt(op, key, val, now)
Do(op, key) == Tx(op, key, <<>>)

\* a call for each key of a set, in some order
DoEach(op, K) ==
    LET keys == SetToSeq(K) IN [i \in 1..Len(keys) |-> CallOf(op, keys[i], <<>>, now)]

\* saves of records as the handler leaves them
Save(op, m, K) ==
    LET keys == SetToSeq(K) IN [i \in 1..Len(keys) |-> CallOf(op, keys[i], m[keys[i]], now)]

\* one script after the other
Joined(scripts) ==
    LET upto[i \in 0..Len(scripts)] == IF i = 0 THEN <<>> ELSE upto[i - 1] \o scripts[i]
    IN upto[Len(scripts)]

\* the calls of this Write
Calls(script) == tx' = script

\* the stores run them; what a call poisoned is rolled back
Committed(old, new) == IF new.err THEN old ELSE new
Commit ==
    /\ pg' = Committed(pg, PG!Run(pg, tx'))
    /\ mongo' = Committed(mongo, MG!Run(mongo, tx'))

NewKey(kind) == db.next[kind]

(***************************************************************************)
(* Sessions.                                                               *)
(***************************************************************************)
\* Login saves the new credential after it has taken the old one's row away
LoginScript(u, old, at) ==
    LET d1 == PruneLogoutState(db, now)
        h  == NewKey("session")
        given == IF ~LiveSession(d1, old) THEN <<>>
                 ELSE IF db'.sessions[h].id = d1.sessions[old].id
                      THEN Do("RemoveSessionCredential", old)
                      ELSE TxAt("EndSession", d1.sessions[old].id, <<>>, at)
    IN Do("PruneLogoutState", 0) \o given \o Tx("SaveSession", h, db'.sessions[h])

LogoutScript(h) == Do("EndSession", db.sessions[h].id)

EndOPSessionScript(id, offline) ==
    Do("EndSession", id) \o
    DoEach("RevokeRefreshFamily",
           IF offline THEN {f \in DOMAIN db.families : db.families[f].op = id} ELSE {})

EndUserSessionsScript(u, keep, offline) ==
    DoEach("EndSession", SessionsOf(db, u) \ {keep}) \o
    IF offline THEN Do("RevokeAccessTokensForUser", u) ELSE <<>>

EndAppSessionScript(a, offline) ==
    Do("EndAppSession", a) \o
    DoEach("RevokeRefreshFamily",
           IF offline THEN {f \in DOMAIN db.families : db.families[f].app = a} ELSE {})

EndClientAccessScript(u, c) ==
    LET mine(m) == {x \in DOMAIN m : m[x].user = u /\ m[x].client = c}
    IN Tx("SaveConsent", <<u, c>>, db'.consents[<<u, c>>]) \o
       Save("SaveAuthzTransaction", db'.txns, mine(db.txns)) \o
       Save("SaveAuthorizationCode", db'.codes, mine(db.codes)) \o
       DoEach("EndAppSession", mine(db.apps)) \o
       DoEach("RevokeAccessToken", mine(db.tokens))

SessionStepOn ==
    \/ \E u \in Users : \E cred \in Creds(u), old \in DOMAIN db.sessions \cup {0},
                         at \in ReadTimes :
          Login(u, cred, old, at) /\ Calls(LoginScript(u, old, at))
    \/ \E h \in DOMAIN db.sessions : Logout(h) /\ Calls(LogoutScript(h))
    \/ \E id \in {db.sessions[h].id : h \in DOMAIN db.sessions}, offline \in BOOLEAN :
          EndOPSession(id, offline) /\ Calls(EndOPSessionScript(id, offline))
    \/ \E u \in Users, offline \in BOOLEAN : \E keep \in SessionsOf(db, u) \cup {0} :
          EndUserSessions(u, keep, offline) /\ Calls(EndUserSessionsScript(u, keep, offline))
    \/ \E a \in DOMAIN db.apps, offline \in BOOLEAN :
          EndAppSession(a, offline) /\ Calls(EndAppSessionScript(a, offline))
    \/ \E u \in Users, c \in Clients :
          EndClientAccess(u, c) /\ Calls(EndClientAccessScript(u, c))
    \/ Sweep /\ Calls(Do("PruneLogoutState", 0))

(***************************************************************************)
(* /authorize and its continuation.                                        *)
(***************************************************************************)
SaveTxnScript(x) == Tx("SaveAuthzTransaction", x, db'.txns[x])
MintCodeScript ==
    LET k == NewKey("code")
    IN Do("PruneOIDCState", 0) \o Tx("SaveAuthorizationCode", k, db'.codes[k])

AuthorizeScript(at) ==
    TxAt("PruneOIDCState", 0, <<>>, at) \o SaveTxnScript(NewKey("txn"))

ApproveScript(x) ==
    LET who == <<db'.txns[x].user, db'.txns[x].client>>
    IN Tx("SaveConsent", who, db'.consents[who]) \o MintCodeScript \o SaveTxnScript(x)

AuthorizeStepOn ==
    \/ \E c \in Clients, s \in DOMAIN db.sessions \cup {0}, login, prompt \in BOOLEAN,
          scopes \in SUBSET Scopes, maxAge \in MaxAges, at \in ReadTimes :
          \E rev \in ReadRevs(c) :
             Authorize(c, rev, s, login, scopes, prompt, maxAge, at) /\ Calls(AuthorizeScript(at))
    \/ \E c \in Clients, h \in DOMAIN db.sessions, scopes \in SUBSET Scopes, maxAge \in MaxAges :
          \E rev \in ReadRevs(c) :
             AuthorizeSilently(c, rev, h, scopes, maxAge) /\ Calls(MintCodeScript)
    \/ \E x \in DOMAIN db.txns, h \in DOMAIN db.sessions :
          \/ AskConsent(x, h) /\ Calls(SaveTxnScript(x))
          \/ CompleteCovered(x, h) /\ Calls(MintCodeScript \o SaveTxnScript(x))
          \/ \E approved \in SUBSET Scopes : Approve(x, h, approved) /\ Calls(ApproveScript(x))
          \/ Deny(x, h) /\ Calls(SaveTxnScript(x))

(***************************************************************************)
(* /token and /revoke.                                                     *)
(***************************************************************************)
SaveTokenScript ==
    LET k == NewKey("token")
    IN Tx("SaveAccessToken", k, db'.tokens[k]) \o Do("PruneOIDCState", 0)

\* the family before the token that refers to it
InitialRefreshScript_TokenFirst(f, r) ==
    Tx("SaveRefreshToken", r, db'.refresh[r]) \o Tx("SaveRefreshFamily", f, db'.families[f])
InitialRefreshScript(f, r) ==
    Tx("SaveRefreshFamily", f, db'.families[f]) \o Tx("SaveRefreshToken", r, db'.refresh[r])

ExchangeCodeScript(k) ==
    LET code == db.codes[k]
        open == {h \in DOMAIN db.sessions : db.sessions[h].id = code.op /\ db.sessions[h].ended = 0}
        join == {a \in DOMAIN db'.apps : /\ db'.apps[a].op = code.op /\ db'.apps[a].client = code.client
                                         /\ db'.apps[a].ended = 0}
    IN Save("SaveAppSession", db'.apps, join) \o
       Save("SaveSession", db'.sessions, open) \o
       (IF Offline \in code.scopes THEN InitialRefreshScript(NewKey("family"), NewKey("refresh"))
        ELSE <<>>) \o
       Tx("SaveAuthorizationCode", k, db'.codes[k]) \o
       SaveTokenScript

RotateScript(r) ==
    LET f == db.refresh[r].family q == NewKey("refresh")
    IN Tx("SaveRefreshToken", r, db'.refresh[r]) \o
       Tx("SaveRefreshFamily", f, db'.families[f]) \o
       Tx("SaveRefreshToken", q, db'.refresh[q]) \o
       SaveTokenScript

RevokeFamilyScript(r) == Do("RevokeRefreshFamily", db.refresh[r].family)

TokenRequestOn(c, snap) ==
    \/ \E k \in DOMAIN db.codes :
          \/ ExchangeCode(k, c, snap) /\ Calls(ExchangeCodeScript(k))
          \/ ReplayCode(k, c, snap) /\ Calls(Do("RevokeAccessTokensForCode", k))
    \/ \E r \in DOMAIN db.refresh :
          \/ \E scopes \in SUBSET Scopes : Rotate(r, c, snap, scopes) /\ Calls(RotateScript(r))
          \/ ReplayRefresh(r, c, snap) /\ Calls(RevokeFamilyScript(r))
          \/ RevokeRefresh(r, c, snap) /\ Calls(RevokeFamilyScript(r))
    \/ \E u \in Users \cup {0} : \E cred \in IF u = 0 THEN {0} ELSE Creds(u) :
          /\ IssueResourceToken(c, IF u = 0 THEN "client_credentials" ELSE "password",
                                u, cred, snap)
          /\ Calls(SaveTokenScript)
    \/ \E k \in DOMAIN db.tokens : RevokeToken(k, c, snap) /\ Calls(Do("RevokeAccessToken", k))

TokenStepOn == \E c \in Clients : \E snap \in ReadRevs(c) : TokenRequestOn(c, snap)

(***************************************************************************)
(* Account, client, policy and access changes.                             *)
(***************************************************************************)
UpdateUserScript(u) ==
    (IF db'.users[u] # db.users[u] THEN Do("DeleteUserSessions", u) ELSE <<>>) \o
    Tx("SaveUser", u, db'.users[u])

ProfileScript(h) == LET u == db.sessions[h].user IN Tx("SaveUser", u, db'.users[u])

AdminStepOn ==
    \/ \E u \in Users :
          \/ \E cred \in 0..MaxRev, active \in BOOLEAN, role \in Roles :
                UpdateUser(u, cred, active, role) /\ Calls(UpdateUserScript(u))
          \/ RemoveUser(u) /\ Calls(Do("DeleteUser", u))
          \/ \E allowed \in BOOLEAN :
                SetOAuthAccess(u, allowed) /\ Calls(Tx("SaveOAuthAccess", u, allowed))
    \/ \E h \in DOMAIN db.sessions :
          \/ UpdateProfile(h) /\ Calls(ProfileScript(h))
          \/ \E cred \in 0..MaxRev :
                /\ ChangePassword(h, cred)
                /\ Calls(ProfileScript(h) \o Do("DeleteUserSessions", db.sessions[h].user))
    \/ \E c \in Clients :
          \/ UpdateClient(c) /\ Calls(Do("SaveClient", c))
          \/ RemoveClient(c) /\ Calls(Do("DeleteClient", c))
          \/ \E p \in SUBSET PolicyGrants :
                SetOAuthPolicy(c, p) /\ Calls(Tx("SaveOAuthPolicy", c, p))

(***************************************************************************)
(* The activity page.                                                      *)
(***************************************************************************)
\* revokeCode: the code, then the tokens that descend from it
RevokeCodeScript(d, k) ==
    Tx("SaveAuthorizationCode", k, db'.codes[k]) \o
    DoEach("RevokeAccessToken",
           {t \in DOMAIN d.tokens : d.tokens[t].code = k /\ now < d.tokens[t].exp})
RevokeCodesScript(d, K) ==
    LET codes == SetToSeq(ActiveCodes(d, K))
    IN Joined([i \in 1..Len(codes) |-> RevokeCodeScript(d, codes[i])])

RevokeConsentScript(u, c) ==
    LET mine(m) == {x \in DOMAIN m : m[x].user = u /\ m[x].client = c}
        d1 == SaveConsent(db, u, c, db'.consents[<<u, c>>], now)
    IN Tx("SaveConsent", <<u, c>>, db'.consents[<<u, c>>]) \o
       Save("SaveAuthzTransaction", db'.txns, {x \in mine(d1.txns) : ActiveTxn(d1, x)}) \o
       RevokeCodesScript(d1, mine(d1.codes)) \o
       DoEach("RevokeAccessToken", {k \in mine(d1.tokens) : now < d1.tokens[k].exp})

ActivityStepOn ==
    \/ \E r \in DOMAIN db.refresh : RevokeActiveRefresh(r) /\ Calls(RevokeFamilyScript(r))
    \/ \E k \in DOMAIN db.tokens : RevokeActiveToken(k) /\ Calls(Do("RevokeAccessToken", k))
    \/ \E k \in DOMAIN db.codes : RevokeActiveCode(k) /\ Calls(RevokeCodesScript(db, {k}))
    \/ \E x \in DOMAIN db.txns :
          /\ RevokeActiveTxn(x)
          /\ Calls(SaveTxnScript(x) \o
                  RevokeCodesScript(db, {k \in DOMAIN db.codes : db.codes[k].txn = x}))
    \/ \E u \in Users, c \in Clients :
          RevokeActiveConsent(u, c) /\ Calls(RevokeConsentScript(u, c))

(***************************************************************************)
(* The specification.                                                      *)
(***************************************************************************)
NextOn ==
    /\ \/ SessionStepOn \/ AuthorizeStepOn \/ TokenStepOn \/ AdminStepOn \/ ActivityStepOn
       \/ (Tick /\ Calls(<<>>))
    /\ Commit

SpecBackends == InitBackends /\ [][NextOn]_all

(***************************************************************************)
(* What reading a store returns.                                           *)
(***************************************************************************)
FileRecords(d) == [f \in DOMAIN d \ {"next"} |-> d[f]]
Tables(p) ==
    [users |-> PG!ListUsers(p), clients |-> PG!ListClients(p),
     policy |-> [c \in Clients |-> PG!OAuthPolicy(p, c)],
     access |-> [u \in Users |-> PG!OAuthAccess(p, u)],
     sessions |-> PG!ListSessions(p), apps |-> PG!ListAppSessions(p),
     txns |-> PG!ListAuthzTransactions(p), codes |-> PG!ListAuthorizationCodes(p),
     tokens |-> PG!ListAccessTokens(p), families |-> PG!ListRefreshFamilies(p),
     refresh |-> PG!ListRefreshTokens(p), consents |-> PG!ListConsents(p)]

Documents(m) ==
    [users |-> MG!ListUsers(m), clients |-> MG!ListClients(m),
     policy |-> [c \in Clients |-> MG!OAuthPolicy(m, c)],
     access |-> [u \in Users |-> MG!OAuthAccess(m, u)],
     sessions |-> MG!ListSessions(m), apps |-> MG!ListAppSessions(m),
     txns |-> MG!ListAuthzTransactions(m), codes |-> MG!ListAuthorizationCodes(m),
     tokens |-> MG!ListAccessTokens(m), families |-> MG!ListRefreshFamilies(m),
     refresh |-> MG!ListRefreshTokens(m), consents |-> MG!ListConsents(m)]

(***************************************************************************)
(* Properties.                                                             *)
(***************************************************************************)
\* Whatever was asked of it, PostgreSQL returns the records the file store
\* returns: no statement is refused by a constraint, no predicate on a nullable
\* column misses a row, no cascade is narrower or wider (postgres_tx.go claims
\* it "exactly" of each cascade).
PostgresAgrees == Tables(pg) = FileRecords(db)

\* MongoDB returns the same records too, but for the mark on an access token of
\* an ended app session: a token without a family has no familyId field
\* (bson omitempty), which EndAppSession's {familyId: ""} filter does not match
\* (mongodb_tx.go:557).  The token is refused all the same.
MongoAnswersAlike ==
    LET docs == Documents(mongo)
        unmarked == {k \in DOMAIN db.tokens \cap DOMAIN docs.tokens :
                        docs.tokens[k] = [db.tokens[k] EXCEPT !.revoked = FALSE]}
        marked == [docs EXCEPT !.tokens =
                      Revoke(docs.tokens, {k \in unmarked : db.tokens[k].revoked})]
    IN /\ marked = FileRecords(db)
       /\ \A k \in DOMAIN db.tokens :
             AccessTokenActive(docs, k, now) <=> AccessTokenActive(db, k, now)

\* the notifications that the terminations of the retained records call for
Ended(m) == {x \in DOMAIN m : m[x].ended # 0}
Notices(c) == IF Channels[c] # {} THEN Channels[c] ELSE {"unsupported"}
Due(d) ==
    ({"op"} \X {d.sessions[h].id : h \in Ended(d.sessions)}) \cup
    UNION {Notices(d.apps[a].client) \X {a} : a \in Ended(d.apps)}

=============================================================================
