----------------------------- MODULE PostgresTx -----------------------------
(***************************************************************************)
(* The PostgreSQL store's transaction (postgres_tx.go): the Tx methods as  *)
(* the statements they execute over the tables of                          *)
(* migrations/postgres/0001_init.up.sql.                                   *)
(*                                                                         *)
(* p is what one transaction sees: one function per table from primary key *)
(* to row.  A nullable column holds Null where the Go value is zero; a     *)
(* link column is NOT NULL DEFAULT '' and holds 0.  A statement a          *)
(* constraint refuses poisons the transaction (p.err), which is rolled     *)
(* back at the end whatever was done after.  The loops of the code run one *)
(* method on each row a query returned; they are one update of those rows. *)
(***************************************************************************)
EXTENDS Maps, Naturals, Sequences

CONSTANTS
    Null,
    Channels,       \* the logout channels a client's metadata names
    LogoutRetention

Fail(p) == [p EXCEPT !.err = TRUE]

(***************************************************************************)
(* Nullable columns: what a Save binds and a scan reads back.              *)
(***************************************************************************)
Bind(v, nullable) ==
    [f \in DOMAIN v |-> IF f \in nullable /\ v[f] = 0 THEN Null ELSE v[f]]
Scan(row, nullable) ==
    [f \in DOMAIN row |-> IF f \in nullable /\ row[f] = Null THEN 0 ELSE row[f]]

SessionNulls == {"ended"}
AppSessionNulls == {"ended"}
TransactionNulls == {"reauth"}
CodeNulls == {"retain"}

(***************************************************************************)
(* Reads.                                                                  *)
(***************************************************************************)
Rows(table, nullable) == [k \in DOMAIN table |-> Scan(table[k], nullable)]

ListUsers(p) == p.users
ListClients(p) == p.clients
ListSessions(p) == Rows(p.sessions, SessionNulls)
ListAppSessions(p) == Rows(p.apps, AppSessionNulls)
ListAuthzTransactions(p) == Rows(p.txns, TransactionNulls)
ListAuthorizationCodes(p) == Rows(p.codes, CodeNulls)
ListAccessTokens(p) == p.tokens
ListRefreshFamilies(p) == p.families
ListRefreshTokens(p) == p.refresh
ListConsents(p) == p.consents

\* a missing row reads as the zero policy, and as no entitlement
OAuthPolicy(p, c) == IF c \in DOMAIN p.policies THEN p.policies[c] ELSE {}
OAuthAccess(p, u) == u \in p.access

(***************************************************************************)
(* Plain upserts.                                                          *)
(***************************************************************************)
\* sessions_id_idx: one row per session ID
SaveSession(p, h, v) ==
    IF \E g \in DOMAIN p.sessions \ {h} : p.sessions[g].id = v.id
    THEN Fail(p)
    ELSE [p EXCEPT !.sessions = Put(p.sessions, h, Bind(v, SessionNulls))]

RemoveSessionCredential(p, h) == [p EXCEPT !.sessions = Drop(p.sessions, {h})]

\* app_sessions_active_pair_idx: one open row per OP session and client
SaveAppSession(p, a, v) ==
    IF v.ended = 0 /\ \E b \in DOMAIN p.apps \ {a} : /\ p.apps[b].ended = Null
                                                     /\ p.apps[b].op = v.op
                                                     /\ p.apps[b].client = v.client
    THEN Fail(p)
    ELSE [p EXCEPT !.apps = Put(p.apps, a, Bind(v, AppSessionNulls))]

SaveAuthzTransaction(p, x, v) ==
    [p EXCEPT !.txns = Put(p.txns, x, Bind(v, TransactionNulls))]

SaveAuthorizationCode(p, k, v) ==
    [p EXCEPT !.codes = Put(p.codes, k, Bind(v, CodeNulls))]

SaveAccessToken(p, k, v) == [p EXCEPT !.tokens = Put(p.tokens, k, v)]

SaveRefreshFamily(p, f, v) == [p EXCEPT !.families = Put(p.families, f, v)]

\* family_id REFERENCES refresh_families
SaveRefreshToken(p, r, v) ==
    IF v.family \notin DOMAIN p.families
    THEN Fail(p)
    ELSE [p EXCEPT !.refresh = Put(p.refresh, r, v)]

(***************************************************************************)
(* Revocation.                                                             *)
(***************************************************************************)
RevokeAccessToken(p, k) == [p EXCEPT !.tokens = Revoke(p.tokens, {k})]

\* two UPDATEs: the tokens are updated even when the family is gone
RevokeRefreshFamilies(p, F) ==
    [p EXCEPT !.families = Revoke(p.families, F),
              !.tokens = Revoke(p.tokens,
                  {k \in DOMAIN p.tokens : p.tokens[k].family \in F})]
RevokeRefreshFamily(p, f) == RevokeRefreshFamilies(p, {f})

\* a family revoked before is skipped, its tokens with it
FamiliesMatching(p, F) == {f \in F : ~p.families[f].revoked}

RevokeAccessTokensForUser(p, u) ==
    LET F  == {f \in DOMAIN p.families : p.families[f].user = u}
        p1 == RevokeRefreshFamilies(p, FamiliesMatching(p, F))
    IN [p1 EXCEPT !.tokens =
            Revoke(p1.tokens, {k \in DOMAIN p1.tokens : p1.tokens[k].user = u})]

RevokeAccessTokensForClient(p, c) ==
    LET F  == {f \in DOMAIN p.families : p.families[f].client = c}
        p1 == RevokeRefreshFamilies(p, FamiliesMatching(p, F))
    IN [p1 EXCEPT !.tokens =
            Revoke(p1.tokens, {k \in DOMAIN p1.tokens : p1.tokens[k].client = c})]

RevokeAccessTokensForCode(p, c) ==
    LET F  == {f \in DOMAIN p.families : p.families[f].code = c}
        p1 == RevokeRefreshFamilies(p, FamiliesMatching(p, F))
    IN [p1 EXCEPT !.tokens =
            Revoke(p1.tokens, {k \in DOMAIN p1.tokens : p1.tokens[k].code = c})]

(***************************************************************************)
(* Session termination.                                                    *)
(***************************************************************************)
OpenRows(m) == {x \in DOMAIN m : m[x].ended = Null}

\* the deliveries of an app session: one per logout URI in the metadata of
\* its client, or a row saying that there is none
NoChannel == "unsupported"
ChannelsOf_Declared(p, c) == IF c \in DOMAIN p.clients THEN Channels[c] ELSE {}
ChannelsOf(p, c) ==
    IF c \in DOMAIN p.clients /\ Channels[c] # {} THEN Channels[c] ELSE {NoChannel}
DeliveriesOf(p, E) == UNION {ChannelsOf(p, p.apps[a].client) \X {a} : a \in E}

\* SaveLogoutDelivery on each id of D: ON CONFLICT keeps the created_at of a
\* row already there
Queue(p, D, t) ==
    [p EXCEPT !.deliveries = [i \in DOMAIN p.deliveries \cup D |->
        IF i \in DOMAIN p.deliveries THEN p.deliveries[i] ELSE [created |-> t]]]

EndAppSessions(p, A, t) ==
    LET E == A \cap OpenRows(p.apps)
        pairs == {<<p.apps[a].op, p.apps[a].client>> : a \in E}
        Of(m) == {x \in DOMAIN m : <<m[x].op, m[x].client>> \in pairs}
    IN [Queue(p, DeliveriesOf(p, E), t) EXCEPT
            !.apps = End(p.apps, E, t),
            !.tokens = Revoke(p.tokens, {k \in DOMAIN p.tokens :
                           p.tokens[k].app \in E /\ p.tokens[k].family = 0}),
            !.codes = Revoke(p.codes, Of(p.codes)),
            !.txns = Revoke(p.txns, Of(p.txns))]

EndSessionGrants(p, J, t) ==
    LET p1 == EndAppSessions(p, {a \in OpenRows(p.apps) : p.apps[a].op \in J}, t)
        Of(m) == {x \in DOMAIN m : m[x].op \in J}
    IN [p1 EXCEPT !.txns = Revoke(p1.txns, Of(p1.txns)),
                  !.codes = Revoke(p1.codes, Of(p1.codes))]

EndSessions(p, I, t) ==
    LET H == {h \in OpenRows(p.sessions) : p.sessions[h].id \in I}
        J == {p.sessions[h].id : h \in H}
    IN EndSessionGrants([Queue(p, {"op"} \X J, t) EXCEPT
                            !.sessions = End(p.sessions, H, t)], J, t)

(***************************************************************************)
(* Account, client, policy and consent changes.                            *)
(***************************************************************************)
DeleteUserSessions(p, u, t) ==
    LET p1 == RevokeAccessTokensForUser(p, u)
        Of(m) == {x \in DOMAIN m : m[x].user = u}
        p2 == [p1 EXCEPT !.codes = Drop(p1.codes, Of(p1.codes)),
                         !.txns = Drop(p1.txns, Of(p1.txns)),
                         !.consents = Drop(p1.consents,
                             {w \in DOMAIN p1.consents : w[1] = u})]
    IN EndSessions(p2, {p2.sessions[h].id : h \in
                          {g \in OpenRows(p2.sessions) : p2.sessions[g].user = u}}, t)

SaveUser(p, u, new, t) ==
    LET p1 == [p EXCEPT !.users = Put(p.users, u, new)]
    IN IF u \in DOMAIN p.users /\ p.users[u] # new
       THEN DeleteUserSessions(p1, u, t)
       ELSE p1

DeleteUser(p, u, t) ==
    LET p1 == DeleteUserSessions([p EXCEPT !.access = p.access \ {u}], u, t)
    IN [p1 EXCEPT !.users = Drop(p1.users, {u})]

InvalidateClientGrants(p, c, t) ==
    LET p1 == EndAppSessions(p, {a \in OpenRows(p.apps) : p.apps[a].client = c}, t)
        p2 == RevokeAccessTokensForClient(p1, c)
        Of(m) == {x \in DOMAIN m : m[x].client = c}
    IN [p2 EXCEPT !.codes = Drop(p2.codes, Of(p2.codes)),
                  !.txns = Drop(p2.txns, Of(p2.txns)),
                  !.consents = Drop(p2.consents,
                      {w \in DOMAIN p2.consents : w[2] = c})]

SaveClient(p, c, t) ==
    LET p1 == [p EXCEPT !.clients = Put(p.clients, c, [rev |-> p.clients[c].rev + 1])]
    IN InvalidateClientGrants(p1, c, t)

DeleteClient(p, c, t) ==
    LET p1 == InvalidateClientGrants([p EXCEPT !.policies = Drop(p.policies, {c})], c, t)
    IN [p1 EXCEPT !.clients = Drop(p1.clients, {c})]

SaveOAuthPolicy(p, c, policy, t) ==
    InvalidateClientGrants([p EXCEPT !.policies = Put(p.policies, c, policy)], c, t)

\* the rows are replaced: users without an entitlement have none
SaveOAuthAccess(p, u, allowed, t) ==
    LET p1 == [p EXCEPT !.access = IF allowed THEN p.access \cup {u} ELSE p.access \ {u}]
        p2 == EndAppSessions(p1, {a \in OpenRows(p1.apps) : p1.apps[a].user = u}, t)
    IN RevokeAccessTokensForUser(p2, u)

SaveConsent(p, u, c, v, t) ==
    LET A  == {a \in OpenRows(p.apps) : p.apps[a].user = u /\ p.apps[a].client = c}
        p1 == EndAppSessions(p, A, t)
        F  == {f \in DOMAIN p1.families : p1.families[f].user = u /\ p1.families[f].client = c}
        p2 == RevokeRefreshFamilies(p1, FamiliesMatching(p1, F))
        p3 == IF v.revoked THEN p2 ELSE p
    IN [p3 EXCEPT !.consents = Put(p3.consents, <<u, c>>, v)]

(***************************************************************************)
(* Pruning.                                                                *)
(***************************************************************************)
PruneSessions(p, t) ==
    EndSessions(p, {p.sessions[h].id : h \in
                      {g \in OpenRows(p.sessions) : p.sessions[g].exp <= t}}, t)

\* rows older than the retention period; NULL is older than nothing
Before(x, t) == x # Null /\ x + LogoutRetention < t

PruneLogoutState(p, t) ==
    LET p1 == PruneSessions(p, t)
        Old(m) == {x \in DOMAIN m : Before(m[x].ended, t)}
    IN [p1 EXCEPT
            !.deliveries = Drop(p1.deliveries,
                {i \in DOMAIN p1.deliveries : Before(p1.deliveries[i].created, t)}),
            !.apps = Drop(p1.apps, Old(p1.apps)),
            !.sessions = Drop(p1.sessions, Old(p1.sessions))]

\* retain_until IS NULL OR retain_until <= now
Lapsed_NullKept(code, t) == code.retain # Null /\ code.retain <= t
Lapsed(code, t) == code.retain = Null \/ code.retain <= t

\* ON DELETE CASCADE takes the refresh tokens of a deleted family
PruneOIDCState(p, t) ==
    LET F == {f \in DOMAIN p.families : p.families[f].retain <= t}
        Expired(m) == {x \in DOMAIN m : m[x].exp <= t}
    IN [p EXCEPT
            !.families = Drop(p.families, F),
            !.refresh = Drop(p.refresh,
                {r \in DOMAIN p.refresh : p.refresh[r].family \in F}),
            !.txns = Drop(p.txns, Expired(p.txns)),
            !.codes = Drop(p.codes,
                {k \in Expired(p.codes) : Lapsed(p.codes[k], t)}),
            !.tokens = Drop(p.tokens, Expired(p.tokens))]

(***************************************************************************)
(* One Tx call, on a transaction that no call has poisoned yet.            *)
(***************************************************************************)
Do(p, c) ==
    LET k == c.key v == c.val t == c.at IN
    CASE c.op = "SaveSession"                 -> SaveSession(p, k, v)
      [] c.op = "RemoveSessionCredential"     -> RemoveSessionCredential(p, k)
      [] c.op = "EndSession"                  -> EndSessions(p, {k}, t)
      [] c.op = "SaveAppSession"              -> SaveAppSession(p, k, v)
      [] c.op = "EndAppSession"               -> EndAppSessions(p, {k}, t)
      [] c.op = "SaveAuthzTransaction"        -> SaveAuthzTransaction(p, k, v)
      [] c.op = "SaveAuthorizationCode"       -> SaveAuthorizationCode(p, k, v)
      [] c.op = "SaveAccessToken"             -> SaveAccessToken(p, k, v)
      [] c.op = "SaveRefreshFamily"           -> SaveRefreshFamily(p, k, v)
      [] c.op = "SaveRefreshToken"            -> SaveRefreshToken(p, k, v)
      [] c.op = "SaveConsent"                 -> SaveConsent(p, k[1], k[2], v, t)
      [] c.op = "RevokeAccessToken"           -> RevokeAccessToken(p, k)
      [] c.op = "RevokeRefreshFamily"         -> RevokeRefreshFamily(p, k)
      [] c.op = "RevokeAccessTokensForUser"   -> RevokeAccessTokensForUser(p, k)
      [] c.op = "RevokeAccessTokensForCode"   -> RevokeAccessTokensForCode(p, k)
      [] c.op = "SaveUser"                    -> SaveUser(p, k, v, t)
      [] c.op = "DeleteUser"                  -> DeleteUser(p, k, t)
      [] c.op = "DeleteUserSessions"          -> DeleteUserSessions(p, k, t)
      [] c.op = "SaveClient"                  -> SaveClient(p, k, t)
      [] c.op = "DeleteClient"                -> DeleteClient(p, k, t)
      [] c.op = "SaveOAuthPolicy"             -> SaveOAuthPolicy(p, k, v, t)
      [] c.op = "SaveOAuthAccess"             -> SaveOAuthAccess(p, k, v, t)
      [] c.op = "PruneLogoutState"            -> PruneLogoutState(p, t)
      [] c.op = "PruneOIDCState"              -> PruneOIDCState(p, t)
Call(p, c) == IF p.err THEN p ELSE Do(p, c)

\* a script of calls, in its order
Run(p, script) ==
    LET after[i \in 0..Len(script)] ==
            IF i = 0 THEN p ELSE Call(after[i - 1], script[i])
    IN after[Len(script)]
=============================================================================
