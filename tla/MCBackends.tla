----------------------------- MODULE MCBackends -----------------------------
(***************************************************************************)
(* An instance of Backends for TLC.                                        *)
(***************************************************************************)
EXTENDS Backends, TLC

CONSTANTS u1, u2

Keys(session, app, txn, code, token, family, refresh) ==
    [k \in Kinds |-> CASE k = "session" -> session [] k = "app" -> app
                      [] k = "txn" -> txn [] k = "code" -> code
                      [] k = "token" -> token [] k = "family" -> family
                      [] OTHER -> refresh]

\* a sign-in, a request, an exchange, and a refresh or a direct grant; or two
\* sign-ins and what they do to one exchange
BackendKeys == Keys(2, 1, 1, 1, 2, 1, 2)

\* bound: one change of an account, a client, a policy or an entitlement, at
\* time 1
Untouched ==
    /\ \A u \in Users : u \in DOMAIN db.users /\ db.users[u].cred = 0 /\ db.users[u].active
    /\ \A c \in Clients : c \in DOMAIN db.clients /\ db.clients[c].rev = 0
    /\ db.policy = [c \in Clients |-> PolicyGrants]
    /\ db.access = [u \in Users |-> TRUE]

\* bound: beside a second sign-in one code's token, no refresh and no change
Simple ==
    db.next["session"] = 3 => /\ db.next["token"] <= 2 /\ db.next["family"] = 1
                              /\ Untouched
                              /\ \A k \in DOMAIN db.tokens : db.tokens[k].code # 0

\* bound: u1 signs in first, and u2 only signs in
First ==
    /\ \A h \in DOMAIN db.sessions : h = 1 => db.sessions[h].user = u1
    /\ u2 \in DOMAIN db.users /\ db.users[u2].cred = 0 /\ db.users[u2].active /\ db.access[u2]

BoundedNext ==
    /\ \/ SessionStepOn \/ AuthorizeStepOn \/ TokenStepOn \/ ActivityStepOn
       \/ (now = 1 /\ Untouched /\ AdminStepOn)
       \/ (Tick /\ Calls(<<>>))
    /\ Simple' /\ First'
    /\ Commit
BoundedSpec == InitBackends /\ [][BoundedNext]_all

NoAges == {NoMaxAge}
BothChannels == [c \in Clients |-> {"backchannel", "frontchannel"}]
=============================================================================
