------------------------------ MODULE MongoTx ------------------------------
(***************************************************************************)
(* The MongoDB store's transaction (mongodb_tx.go): the Tx methods as the  *)
(* filters and updates they run over the collections.                      *)
(*                                                                         *)
(* m is what one transaction sees: one function per collection from _id to *)
(* document.  A document is a record without the fields its type marks     *)
(* omitempty and whose value is zero, and a filter on a field matches only *)
(* the documents that have it.  A client's policy is a field of its        *)
(* document, a family's refresh tokens are a field of the family's.  A     *)
(* write a unique index refuses, or one that reports ErrNotFound, poisons  *)
(* the transaction (m.err), which is rolled back at the end.               *)
(***************************************************************************)
EXTENDS Maps, Naturals, Sequences

CONSTANTS
    Channels,       \* the logout channels a client's metadata names
    LogoutRetention

Fail(m) == [m EXCEPT !.err = TRUE]

(***************************************************************************)
(* Documents: the zero values that are left out, writing and reading.      *)
(***************************************************************************)
SessionDoc == [ended |-> 0]
AppSessionDoc == [ended |-> 0]
AccessTokenDoc == [user |-> 0, scopes |-> {}, family |-> 0, code |-> 0, op |-> 0, app |-> 0]
RefreshFamilyDoc == [app |-> 0, op |-> 0, code |-> 0, scopes |-> {}, tokens |-> <<>>]
RefreshTokenElem == [scopes |-> {}]
ClientDoc == [policy |-> {}]
AuthzTransactionDoc == [scopes |-> {}, op |-> 0, user |-> 0, reauth |-> 0]
AuthorizationCodeDoc == [txn |-> 0, scopes |-> {}, op |-> 0, revoked |-> FALSE, retain |-> 0]
ConsentDoc == [scopes |-> {}]

ToDoc(v, zero) == [f \in {g \in DOMAIN v : g \in DOMAIN zero => v[g] # zero[g]} |-> v[f]]
FromDoc(doc, zero) ==
    [f \in DOMAIN doc \cup DOMAIN zero |-> IF f \in DOMAIN doc THEN doc[f] ELSE zero[f]]

\* $exists, and the equality filter
Has(doc, f) == f \in DOMAIN doc
Is(doc, f, x) == Has(doc, f) /\ doc[f] = x

\* the documents a filter on one field matches
With(coll, f, x) == {k \in DOMAIN coll : Is(coll[k], f, x)}
OpenDocs(coll) == {k \in DOMAIN coll : ~Has(coll[k], "ended")}

\* updateMany with $set of one field
SetField(coll, K, f, x) == [k \in DOMAIN coll |-> IF k \in K THEN Put(coll[k], f, x) ELSE coll[k]]

(***************************************************************************)
(* Reads.                                                                  *)
(***************************************************************************)
Docs(coll, zero) == [k \in DOMAIN coll |-> FromDoc(coll[k], zero)]

ListUsers(m) == m.users
ListClients(m) == [c \in DOMAIN m.clients |-> [rev |-> m.clients[c].rev]]
ListSessions(m) == Docs(m.sessions, SessionDoc)
ListAppSessions(m) == Docs(m.apps, AppSessionDoc)
ListAuthzTransactions(m) == Docs(m.txns, AuthzTransactionDoc)
ListAuthorizationCodes(m) == Docs(m.codes, AuthorizationCodeDoc)
ListAccessTokens(m) == Docs(m.tokens, AccessTokenDoc)
ListRefreshFamilies(m) ==
    [f \in DOMAIN m.families |-> Drop(FromDoc(m.families[f], RefreshFamilyDoc), {"tokens"})]
ListConsents(m) == Docs(m.consents, ConsentDoc)

\* the elements of all families' token arrays
TokensOf(m, f) == IF f \in DOMAIN m.families THEN FromDoc(m.families[f], RefreshFamilyDoc).tokens
                  ELSE <<>>
ListRefreshTokens(m) ==
    [r \in UNION {DOMAIN TokensOf(m, f) : f \in DOMAIN m.families} |->
        LET f == CHOOSE g \in DOMAIN m.families : r \in DOMAIN TokensOf(m, g)
        IN Put(FromDoc(TokensOf(m, f)[r], RefreshTokenElem), "family", f)]

\* a missing document or policy reads as the zero policy
OAuthPolicy(m, c) ==
    IF c \in DOMAIN m.clients THEN FromDoc(m.clients[c], ClientDoc).policy ELSE {}
OAuthAccess(m, u) == u \in DOMAIN m.access /\ m.access[u]

(***************************************************************************)
(* Replacements with upsert.                                               *)
(***************************************************************************)
SaveSession(m, h, v) ==
    IF \E g \in DOMAIN m.sessions \ {h} : m.sessions[g].id = v.id
    THEN Fail(m)
    ELSE [m EXCEPT !.sessions = Put(m.sessions, h, ToDoc(v, SessionDoc))]

RemoveSessionCredential(m, h) == [m EXCEPT !.sessions = Drop(m.sessions, {h})]

\* the partial unique index on (opSessionId, clientId)
SaveAppSession(m, a, v) ==
    IF v.ended = 0 /\ \E b \in OpenDocs(m.apps) \ {a} : /\ m.apps[b].op = v.op
                                                        /\ m.apps[b].client = v.client
    THEN Fail(m)
    ELSE [m EXCEPT !.apps = Put(m.apps, a, ToDoc(v, AppSessionDoc))]

SaveAuthzTransaction(m, x, v) ==
    [m EXCEPT !.txns = Put(m.txns, x, ToDoc(v, AuthzTransactionDoc))]

SaveAuthorizationCode(m, k, v) ==
    [m EXCEPT !.codes = Put(m.codes, k, ToDoc(v, AuthorizationCodeDoc))]

SaveAccessToken(m, k, v) ==
    [m EXCEPT !.tokens = Put(m.tokens, k, ToDoc(v, AccessTokenDoc))]

\* the family's tokens are read back and kept
SaveRefreshFamily_Fresh(m, f, v) ==
    [m EXCEPT !.families = Put(m.families, f, ToDoc(v, RefreshFamilyDoc))]
SaveRefreshFamily(m, f, v) ==
    [m EXCEPT !.families = Put(m.families, f,
        ToDoc(Put(v, "tokens", TokensOf(m, f)), RefreshFamilyDoc))]

\* an element is replaced or pushed; without the family nothing is matched
SaveRefreshToken(m, r, v) ==
    LET elem == ToDoc([scopes |-> v.scopes, consumed |-> v.consumed], RefreshTokenElem)
    IN [m EXCEPT !.families = SetField(m.families, {v.family} \cap DOMAIN m.families,
            "tokens", Put(TokensOf(m, v.family), r, elem))]

(***************************************************************************)
(* Revocation.                                                             *)
(***************************************************************************)
RevokeAccessToken(m, k) == [m EXCEPT !.tokens = Revoke(m.tokens, {k})]

RevokeRefreshFamilies(m, F) ==
    [m EXCEPT !.families = Revoke(m.families, F),
              !.tokens = Revoke(m.tokens, UNION {With(m.tokens, "family", f) : f \in F})]
RevokeRefreshFamily(m, f) == RevokeRefreshFamilies(m, {f})

\* revoked: {$ne: true}
FamiliesMatching(m, F) == {f \in F : ~Is(m.families[f], "revoked", TRUE)}

RevokeAccessTokensForUser(m, u) ==
    LET m1 == RevokeRefreshFamilies(m, FamiliesMatching(m, With(m.families, "user", u)))
    IN [m1 EXCEPT !.tokens = Revoke(m1.tokens, With(m1.tokens, "user", u))]

RevokeAccessTokensForClient(m, c) ==
    LET m1 == RevokeRefreshFamilies(m, FamiliesMatching(m, With(m.families, "client", c)))
    IN [m1 EXCEPT !.tokens = Revoke(m1.tokens, With(m1.tokens, "client", c))]

RevokeAccessTokensForCode(m, c) ==
    LET m1 == RevokeRefreshFamilies(m, FamiliesMatching(m, With(m.families, "code", c)))
    IN [m1 EXCEPT !.tokens = Revoke(m1.tokens, With(m1.tokens, "code", c))]

(***************************************************************************)
(* Session termination.                                                    *)
(***************************************************************************)
NoChannel == "unsupported"
ChannelsOf(m, c) ==
    IF c \in DOMAIN m.clients /\ Channels[c] # {} THEN Channels[c] ELSE {NoChannel}
DeliveriesOf(m, E) == UNION {ChannelsOf(m, m.apps[a].client) \X {a} : a \in E}

\* SaveLogoutDelivery on each id of D replaces the whole document
Queue(m, D, t) ==
    [m EXCEPT !.deliveries = [i \in DOMAIN m.deliveries \cup D |->
        IF i \in D THEN [created |-> t] ELSE m.deliveries[i]]]

\* the codes or transactions of the OP session and client of each of E
Linked(m, coll, E) ==
    UNION {With(coll, "op", m.apps[a].op) \cap With(coll, "client", m.apps[a].client) : a \in E}

\* familyId: "" asks for a field that accessTokenDoc leaves out when empty
FamilylessTokens(m, E) ==
    {k \in UNION {With(m.tokens, "app", a) : a \in E} : Is(m.tokens[k], "family", 0)}

EndAppSessions(m, A, t) ==
    LET E == A \cap OpenDocs(m.apps) IN
    [Queue(m, DeliveriesOf(m, E), t) EXCEPT
        !.apps = SetField(m.apps, E, "ended", t),
        !.tokens = SetField(m.tokens, FamilylessTokens(m, E), "revoked", TRUE),
        !.codes = SetField(m.codes, Linked(m, m.codes, E), "revoked", TRUE),
        !.txns = SetField(m.txns, Linked(m, m.txns, E), "revoked", TRUE)]

EndSessionGrants(m, J, t) ==
    LET Of(coll) == UNION {With(coll, "op", j) : j \in J}
        m1 == EndAppSessions(m, Of(m.apps), t)
    IN [m1 EXCEPT !.txns = SetField(m1.txns, Of(m1.txns), "revoked", TRUE),
                  !.codes = SetField(m1.codes, Of(m1.codes), "revoked", TRUE)]

EndSessions(m, I, t) ==
    LET H == {h \in OpenDocs(m.sessions) : m.sessions[h].id \in I}
        J == {m.sessions[h].id : h \in H}
    IN EndSessionGrants([Queue(m, {"op"} \X J, t) EXCEPT
                            !.sessions = SetField(m.sessions, H, "ended", t)], J, t)

(***************************************************************************)
(* Account, client, policy and consent changes.                            *)
(***************************************************************************)
DeleteUserSessions(m, u, t) ==
    LET m1 == RevokeAccessTokensForUser(m, u)
        m2 == [m1 EXCEPT !.codes = Drop(m1.codes, With(m1.codes, "user", u)),
                         !.txns = Drop(m1.txns, With(m1.txns, "user", u)),
                         !.consents = Drop(m1.consents,
                             {w \in DOMAIN m1.consents : w[1] = u})]
        H  == With(m2.sessions, "user", u) \cap OpenDocs(m2.sessions)
    IN EndSessions(m2, {m2.sessions[h].id : h \in H}, t)

SaveUser(m, u, new, t) ==
    LET m1 == [m EXCEPT !.users = Put(m.users, u, new)]
    IN IF u \in DOMAIN m.users /\ m.users[u] # new
       THEN DeleteUserSessions(m1, u, t)
       ELSE m1

DeleteUser(m, u, t) ==
    LET m1 == DeleteUserSessions([m EXCEPT !.access = Drop(m.access, {u})], u, t)
    IN [m1 EXCEPT !.users = Drop(m1.users, {u})]

InvalidateClientGrants(m, c, t) ==
    LET m1 == EndAppSessions(m, With(m.apps, "client", c), t)
        m2 == RevokeAccessTokensForClient(m1, c)
    IN [m2 EXCEPT !.codes = Drop(m2.codes, With(m2.codes, "client", c)),
                  !.txns = Drop(m2.txns, With(m2.txns, "client", c)),
                  !.consents = Drop(m2.consents, {w \in DOMAIN m2.consents : w[2] = c})]

\* the document is replaced, the policy embedded in it carried over
SaveClient_FreshDoc(m, c, t) ==
    InvalidateClientGrants(
        [m EXCEPT !.clients = Put(m.clients, c, [rev |-> m.clients[c].rev + 1])], c, t)
SaveClient(m, c, t) ==
    InvalidateClientGrants([m EXCEPT !.clients =
        Put(m.clients, c, Put(m.clients[c], "rev", m.clients[c].rev + 1))], c, t)

\* the embedded policy goes with the document
DeleteClient(m, c, t) ==
    LET m1 == InvalidateClientGrants(m, c, t)
    IN [m1 EXCEPT !.clients = Drop(m1.clients, {c})]

\* $set on the client's document, which must be there
SaveOAuthPolicy(m, c, policy, t) ==
    IF c \notin DOMAIN m.clients
    THEN Fail(m)
    ELSE InvalidateClientGrants(
             [m EXCEPT !.clients = SetField(m.clients, {c}, "policy", policy)], c, t)

SaveOAuthAccess(m, u, allowed, t) ==
    LET m1 == [m EXCEPT !.access = Put(m.access, u, allowed)]
        m2 == EndAppSessions(m1, With(m1.apps, "user", u), t)
    IN RevokeAccessTokensForUser(m2, u)

SaveConsent(m, u, c, v, t) ==
    LET m1 == EndAppSessions(m, With(m.apps, "user", u) \cap With(m.apps, "client", c), t)
        F  == With(m1.families, "user", u) \cap With(m1.families, "client", c)
        m2 == RevokeRefreshFamilies(m1, FamiliesMatching(m1, F))
        m3 == IF v.revoked THEN m2 ELSE m
    IN [m3 EXCEPT !.consents = Put(m3.consents, <<u, c>>, ToDoc(v, ConsentDoc))]

(***************************************************************************)
(* Pruning.                                                                *)
(***************************************************************************)
PruneSessions(m, t) ==
    EndSessions(m, {m.sessions[h].id : h \in
                      {g \in OpenDocs(m.sessions) : m.sessions[g].exp <= t}}, t)

PruneLogoutState(m, t) ==
    LET m1 == PruneSessions(m, t)
        Old(coll, f) == {x \in DOMAIN coll : /\ Has(coll[x], f)
                                             /\ coll[x][f] + LogoutRetention < t}
    IN [m1 EXCEPT !.deliveries = Drop(m1.deliveries, Old(m1.deliveries, "created")),
                  !.apps = Drop(m1.apps, Old(m1.apps, "ended")),
                  !.sessions = Drop(m1.sessions, Old(m1.sessions, "ended"))]

\* deleting a family deletes the tokens embedded in it
PruneOIDCState(m, t) ==
    LET Until(coll, f) == {x \in DOMAIN coll : Has(coll[x], f) /\ coll[x][f] <= t}
        Kept == {k \in DOMAIN m.codes : Has(m.codes[k], "retain") /\ m.codes[k].retain > t}
    IN [m EXCEPT
            !.families = Drop(m.families, Until(m.families, "retain")),
            !.txns = Drop(m.txns, Until(m.txns, "exp")),
            !.codes = Drop(m.codes, Until(m.codes, "exp") \ Kept),
            !.tokens = Drop(m.tokens, Until(m.tokens, "exp"))]

(***************************************************************************)
(* One Tx call, on a transaction that no call has poisoned yet.            *)
(***************************************************************************)
Do(m, c) ==
    LET k == c.key v == c.val t == c.at IN
    CASE c.op = "SaveSession"                 -> SaveSession(m, k, v)
      [] c.op = "RemoveSessionCredential"     -> RemoveSessionCredential(m, k)
      [] c.op = "EndSession"                  -> EndSessions(m, {k}, t)
      [] c.op = "SaveAppSession"              -> SaveAppSession(m, k, v)
      [] c.op = "EndAppSession"               -> EndAppSessions(m, {k}, t)
      [] c.op = "SaveAuthzTransaction"        -> SaveAuthzTransaction(m, k, v)
      [] c.op = "SaveAuthorizationCode"       -> SaveAuthorizationCode(m, k, v)
      [] c.op = "SaveAccessToken"             -> SaveAccessToken(m, k, v)
      [] c.op = "SaveRefreshFamily"           -> SaveRefreshFamily(m, k, v)
      [] c.op = "SaveRefreshToken"            -> SaveRefreshToken(m, k, v)
      [] c.op = "SaveConsent"                 -> SaveConsent(m, k[1], k[2], v, t)
      [] c.op = "RevokeAccessToken"           -> RevokeAccessToken(m, k)
      [] c.op = "RevokeRefreshFamily"         -> RevokeRefreshFamily(m, k)
      [] c.op = "RevokeAccessTokensForUser"   -> RevokeAccessTokensForUser(m, k)
      [] c.op = "RevokeAccessTokensForCode"   -> RevokeAccessTokensForCode(m, k)
      [] c.op = "SaveUser"                    -> SaveUser(m, k, v, t)
      [] c.op = "DeleteUser"                  -> DeleteUser(m, k, t)
      [] c.op = "DeleteUserSessions"          -> DeleteUserSessions(m, k, t)
      [] c.op = "SaveClient"                  -> SaveClient(m, k, t)
      [] c.op = "DeleteClient"                -> DeleteClient(m, k, t)
      [] c.op = "SaveOAuthPolicy"             -> SaveOAuthPolicy(m, k, v, t)
      [] c.op = "SaveOAuthAccess"             -> SaveOAuthAccess(m, k, v, t)
      [] c.op = "PruneLogoutState"            -> PruneLogoutState(m, t)
      [] c.op = "PruneOIDCState"              -> PruneOIDCState(m, t)
Call(m, c) == IF m.err THEN m ELSE Do(m, c)

\* a script of calls, in its order
Run(m, script) ==
    LET after[i \in 0..Len(script)] ==
            IF i = 0 THEN m ELSE Call(after[i - 1], script[i])
    IN after[Len(script)]
=============================================================================
