---------------------------- MODULE IdentityStore ----------------------------
(***************************************************************************)
(* The transactional identity store (src/internal/identity): the records   *)
(* that sessions and grants are made of, and the cascades the store's Tx   *)
(* methods run over them.  One value d stands for the whole state a Tx     *)
(* sees; a store method is an operator from d to d, so that a handler is   *)
(* the composition of the methods it calls inside one Write.               *)
(*                                                                         *)
(* A Go map is a function whose domain is the set of keys present.  Keys   *)
(* that the code draws with randomToken are the naturals d.next counts, so *)
(* a key is never drawn twice; 0 is the empty string (no session, no       *)
(* family, no code) and time 0 is Go's zero time (EndedAt.IsZero).         *)
(*                                                                         *)
(* Two fields are history: cred is the version of the user's password and  *)
(* e-mail the sign-in behind a record was checked against, snap is the     *)
(* client revision the caller was authenticated at.  The code compares     *)
(* both before it writes and keeps neither.                                *)
(*                                                                         *)
(* A definition Name_Slip beside Name, here and in the other modules, is   *)
(* Name as a plausible programming slip would have it.  Nothing uses it;   *)
(* it shows that some property would notice the slip.                      *)
(***************************************************************************)
EXTENDS Maps, Integers, FiniteSets

CONSTANTS
    Users,          \* user IDs
    Clients,        \* client IDs
    Roles,          \* the roles an account may hold
    Scopes,         \* scopes besides openid
    Offline,        \* the offline_access scope
    PolicyGrants,   \* grants an OAuth policy may allow
    LogoutRetention \* how long ended sessions are kept (30 days)

ASSUME StoreAssumption ==
    /\ LogoutRetention \in Nat
    /\ Roles # {}

Id   == Nat
Time == Nat

User    == [cred : Nat, active : BOOLEAN, role : Roles]
Client  == [rev : Nat]
Session == [id : Id, user : Users, auth : Time, exp : Time, ended : Time,
            cred : Nat]
AppSession == [op : Id, client : Clients, user : Users, ended : Time]
AuthzTransaction ==
    [op : Id, client : Clients, user : Users \cup {0}, rev : Nat,
     scopes : SUBSET Scopes, prompt : BOOLEAN, maxAge : Int, reauth : Time,
     created : Time, exp : Time, revoked : BOOLEAN, consumed : BOOLEAN]
AuthorizationCode ==
    [txn : Id, op : Id, client : Clients, user : Users, rev : Nat,
     scopes : SUBSET Scopes, auth : Time, exp : Time, retain : Time,
     revoked : BOOLEAN, consumed : BOOLEAN, cred : Nat]
AccessToken ==
    [op : Id, app : Id, family : Id, code : Id, client : Clients,
     user : Users \cup {0}, grant : {"authorization_code", "refresh_token",
     "client_credentials", "password"}, scopes : SUBSET Scopes, rev : Nat,
     exp : Time, revoked : BOOLEAN, cred : Nat, snap : Nat]
RefreshFamily ==
    [op : Id, app : Id, code : Id, client : Clients, user : Users, rev : Nat,
     scopes : SUBSET Scopes, idle : Time, abs : Time, retain : Time,
     revoked : BOOLEAN, cred : Nat]
RefreshToken == [family : Id, scopes : SUBSET Scopes, consumed : BOOLEAN]
Consent == [scopes : SUBSET Scopes, rev : Nat, revoked : BOOLEAN]

Kinds == {"session", "app", "txn", "code", "token", "family", "refresh"}

(***************************************************************************)
(* The state a transaction sees.                                           *)
(***************************************************************************)
StoreOK(d) ==
    /\ d = [users |-> d.users, clients |-> d.clients, policy |-> d.policy,
            access |-> d.access, sessions |-> d.sessions, apps |-> d.apps,
            txns |-> d.txns, codes |-> d.codes, tokens |-> d.tokens,
            families |-> d.families, refresh |-> d.refresh,
            consents |-> d.consents, next |-> d.next]
    /\ IsMap(d.users, Users, User)
    /\ IsMap(d.clients, Clients, Client)
    /\ d.policy \in [Clients -> SUBSET PolicyGrants]
    /\ d.access \in [Users -> BOOLEAN]
    /\ IsMap(d.sessions, Id \ {0}, Session)
    /\ IsMap(d.apps, Id \ {0}, AppSession)
    /\ IsMap(d.txns, Id \ {0}, AuthzTransaction)
    /\ IsMap(d.codes, Id \ {0}, AuthorizationCode)
    /\ IsMap(d.tokens, Id \ {0}, AccessToken)
    /\ IsMap(d.families, Id \ {0}, RefreshFamily)
    /\ IsMap(d.refresh, Id \ {0}, RefreshToken)
    /\ IsMap(d.consents, Users \X Clients, Consent)
    /\ d.next \in [Kinds -> Nat \ {0}]

(***************************************************************************)
(* Reads.                                                                  *)
(***************************************************************************)
SessionActive(d, id, t) ==
    \E h \in DOMAIN d.sessions : /\ d.sessions[h].id = id
                                 /\ d.sessions[h].ended = 0
                                 /\ t < d.sessions[h].exp

OpenSession(d, id) ==
    \E h \in DOMAIN d.sessions : d.sessions[h].id = id /\ d.sessions[h].ended = 0

\* every open app session is under an open OP session
Lineage(d) ==
    \A a \in DOMAIN d.apps : d.apps[a].ended = 0 => OpenSession(d, d.apps[a].op)

UserActive(d, u) == u \in DOMAIN d.users /\ d.users[u].active

RefreshFamilyActive(d, f, t) ==
    LET who == <<f.user, f.client>> IN
    /\ ~f.revoked
    /\ t < f.abs
    /\ t < f.idle
    /\ f.client \in DOMAIN d.clients
    /\ "refresh_token" \in d.policy[f.client]
    /\ d.clients[f.client].rev = f.rev
    /\ UserActive(d, f.user)
    /\ who \in DOMAIN d.consents
    /\ ~d.consents[who].revoked
    /\ d.consents[who].rev = f.rev
    /\ f.scopes \subseteq d.consents[who].scopes
    /\ Offline \in d.consents[who].scopes

AccessTokenActive(d, k, t) ==
    LET a == d.tokens[k] IN
    /\ ~a.revoked
    /\ t < a.exp
    /\ a.op # 0 /\ a.family = 0 => /\ SessionActive(d, a.op, t)
                                   /\ a.app \in DOMAIN d.apps
                                   /\ d.apps[a.app].ended = 0
    /\ a.client \in DOMAIN d.clients
    /\ d.clients[a.client].rev = a.rev
    /\ a.family # 0 => /\ a.family \in DOMAIN d.families
                       /\ ~d.families[a.family].revoked
    /\ a.grant \in {"client_credentials", "password"}
          => a.grant \in d.policy[a.client]
    /\ a.grant = "password" => d.access[a.user]
    /\ a.grant # "client_credentials" => UserActive(d, a.user)

(***************************************************************************)
(* Grant revocation.                                                       *)
(***************************************************************************)
RevokeFamilies_RecordsOnly(d, F) == [d EXCEPT !.families = Revoke(d.families, F)]
RevokeFamilies(d, F) ==
    [d EXCEPT
        !.families = Revoke(d.families, F),
        !.tokens = Revoke(d.tokens,
            {k \in DOMAIN d.tokens : d.tokens[k].family \in F \cap DOMAIN d.families})]

RevokeRefreshFamily(d, f) == RevokeFamilies(d, {f})

RevokeAccessToken(d, k) == [d EXCEPT !.tokens = Revoke(d.tokens, {k})]

RevokeAccessTokensForUser(d, u) ==
    LET d1 == RevokeFamilies(d, {f \in DOMAIN d.families : d.families[f].user = u})
    IN [d1 EXCEPT !.tokens =
            Revoke(d1.tokens, {k \in DOMAIN d1.tokens : d1.tokens[k].user = u})]

RevokeAccessTokensForClient(d, c) ==
    LET d1 == RevokeFamilies(d, {f \in DOMAIN d.families : d.families[f].client = c})
    IN [d1 EXCEPT !.tokens =
            Revoke(d1.tokens, {k \in DOMAIN d1.tokens : d1.tokens[k].client = c})]

RevokeAccessTokensForCode(d, c) ==
    LET d1 == RevokeFamilies(d, {f \in DOMAIN d.families : d.families[f].code = c})
    IN [d1 EXCEPT !.tokens =
            Revoke(d1.tokens, {k \in DOMAIN d1.tokens : d1.tokens[k].code = c})]

(***************************************************************************)
(* Session termination.  Both methods take a set because every caller that *)
(* loops over records runs them on each in one transaction.  A consumed    *)
(* code is marked revoked like an unused one.  The logout deliveries they  *)
(* save are the state of module LogoutDelivery.                            *)
(***************************************************************************)
EndAppSessions(d, A, t) ==
    LET E == {a \in A \cap DOMAIN d.apps : d.apps[a].ended = 0}
        Cut(m) == {x \in DOMAIN m : \E a \in E : /\ m[x].op = d.apps[a].op
                                                 /\ m[x].client = d.apps[a].client}
    IN [d EXCEPT
            !.apps = End(d.apps, E, t),
            !.tokens = Revoke(d.tokens, {k \in DOMAIN d.tokens :
                           d.tokens[k].app \in E /\ d.tokens[k].family = 0}),
            !.codes = Revoke(d.codes, Cut(d.codes)),
            !.txns = Revoke(d.txns, Cut(d.txns))]

\* the credentials of I that a termination still has to end
ToEnd_EvenEnded(d, I) == {h \in DOMAIN d.sessions : d.sessions[h].id \in I}
ToEnd(d, I) == {h \in DOMAIN d.sessions : d.sessions[h].id \in I /\ d.sessions[h].ended = 0}

\* the codes or transactions of the ended sessions J
Under_Kept(m, J) == {}
Under(m, J) == {x \in DOMAIN m : m[x].op \in J}

EndSessions(d, I, t) ==
    LET H  == ToEnd(d, I)
        J  == {d.sessions[h].id : h \in H}
        d1 == EndAppSessions(d, Under(d.apps, J), t)
    IN [d1 EXCEPT
            !.sessions = End(d1.sessions, H, t),
            !.txns = Revoke(d1.txns, Under(d1.txns, J)),
            !.codes = Revoke(d1.codes, Under(d1.codes, J))]

EndSession(d, id, t) == EndSessions(d, {id}, t)

SessionsOf(d, u) ==
    {d.sessions[h].id : h \in {x \in DOMAIN d.sessions : d.sessions[x].user = u}}

AppSessionsOf(d, u, c) ==
    {a \in DOMAIN d.apps : d.apps[a].user = u /\ d.apps[a].client = c}

(***************************************************************************)
(* Account, client, policy and consent changes.                            *)
(***************************************************************************)
DeleteUserSessions(d, u, t) ==
    LET d1 == RevokeAccessTokensForUser(d, u)
        d2 == [d1 EXCEPT
                !.codes = Drop(d1.codes, {k \in DOMAIN d1.codes : d1.codes[k].user = u}),
                !.txns = Drop(d1.txns, {k \in DOMAIN d1.txns : d1.txns[k].user = u}),
                !.consents = Drop(d1.consents, {w \in DOMAIN d1.consents : w[1] = u})]
    IN EndSessions(d2, SessionsOf(d2, u), t)

SaveUser(d, u, new, t) ==
    LET d1 == IF u \in DOMAIN d.users /\ d.users[u] # new
              THEN DeleteUserSessions(d, u, t)
              ELSE d
    IN [d1 EXCEPT !.users = Put(d1.users, u, new)]

DeleteUser(d, u, t) ==
    DeleteUserSessions([d EXCEPT !.users = Drop(d.users, {u}),
                                 !.access = [d.access EXCEPT ![u] = FALSE]], u, t)

InvalidateClientGrants(d, c, t) ==
    LET d1 == EndAppSessions(d, {a \in DOMAIN d.apps : d.apps[a].client = c}, t)
        d2 == RevokeAccessTokensForClient(d1, c)
    IN [d2 EXCEPT
            !.codes = Drop(d2.codes, {k \in DOMAIN d2.codes : d2.codes[k].client = c}),
            !.txns = Drop(d2.txns, {k \in DOMAIN d2.txns : d2.txns[k].client = c}),
            !.consents = Drop(d2.consents, {w \in DOMAIN d2.consents : w[2] = c})]

SaveClient(d, c, t) ==
    LET d1 == InvalidateClientGrants(d, c, t)
    IN [d1 EXCEPT !.clients = Put(d1.clients, c, [rev |-> d1.clients[c].rev + 1])]

DeleteClient(d, c, t) ==
    LET d1 == InvalidateClientGrants([d EXCEPT !.policy = [d.policy EXCEPT ![c] = {}]], c, t)
    IN [d1 EXCEPT !.clients = Drop(d1.clients, {c})]

SaveOAuthPolicy_KeepsGrants(d, c, p, t) == [d EXCEPT !.policy = [d.policy EXCEPT ![c] = p]]
SaveOAuthPolicy(d, c, p, t) ==
    InvalidateClientGrants([d EXCEPT !.policy = [d.policy EXCEPT ![c] = p]], c, t)

SaveOAuthAccess(d, u, allowed, t) ==
    LET d1 == [d EXCEPT !.access = [d.access EXCEPT ![u] = allowed]]
        d2 == EndAppSessions(d1, {a \in DOMAIN d1.apps : d1.apps[a].user = u}, t)
    IN RevokeAccessTokensForUser(d2, u)

SaveConsent_KeepsGrants(d, u, c, new, t) ==
    [d EXCEPT !.consents = Put(d.consents, <<u, c>>, new)]
SaveConsent(d, u, c, new, t) ==
    LET d1 == EndAppSessions(d, AppSessionsOf(d, u, c), t)
        d2 == RevokeFamilies(d1, {f \in DOMAIN d1.families :
                  d1.families[f].user = u /\ d1.families[f].client = c})
        d3 == IF new.revoked THEN d2 ELSE d
    IN [d3 EXCEPT !.consents = Put(d3.consents, <<u, c>>, new)]

(***************************************************************************)
(* Pruning.                                                                *)
(***************************************************************************)
PruneSessions_DropsOnly(d, t) ==
    [d EXCEPT !.sessions =
        Drop(d.sessions, {h \in DOMAIN d.sessions : d.sessions[h].exp <= t})]
PruneSessions(d, t) ==
    EndSessions(d, {d.sessions[h].id : h \in {x \in DOMAIN d.sessions :
                       d.sessions[x].exp <= t /\ d.sessions[x].ended = 0}}, t)

\* ended and older than the retention period
Retired(m, t) == {x \in DOMAIN m : m[x].ended # 0 /\ m[x].ended + LogoutRetention < t}

PruneLogoutState(d, t) ==
    LET d1 == PruneSessions(d, t)
    IN [d1 EXCEPT !.apps = Drop(d1.apps, Retired(d1.apps, t)),
                  !.sessions = Drop(d1.sessions, Retired(d1.sessions, t))]

PruneOIDCState(d, t) ==
    LET F == {f \in DOMAIN d.families : d.families[f].retain <= t} IN
    [d EXCEPT
        !.families = Drop(d.families, F),
        !.refresh = Drop(d.refresh,
            {r \in DOMAIN d.refresh : d.refresh[r].family \in F}),
        !.txns = Drop(d.txns, {x \in DOMAIN d.txns : d.txns[x].exp <= t}),
        !.codes = Drop(d.codes, {k \in DOMAIN d.codes :
            d.codes[k].exp <= t /\ d.codes[k].retain <= t}),
        !.tokens = Drop(d.tokens, {k \in DOMAIN d.tokens : d.tokens[k].exp <= t})]
==============================================================================
