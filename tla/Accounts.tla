------------------------------ MODULE Accounts ------------------------------
(***************************************************************************)
(* Accounts, sign-in and client registration as the handlers run them:     *)
(* a Read whose result is carried into a Write, and a Write that runs its  *)
(* callback on a snapshot, may be refused by the backend and run again,    *)
(* with other processes in between.  Provider takes a Write for one step;  *)
(* here it is what module Isolation says of the backend.                   *)
(*                                                                         *)
(* cred is the version of an account's password.  A session's record is    *)
(* found by its hash; its ID outlives the hash when a repeated sign-in     *)
(* replaces the cookie.  What needs a clock (expiry, pruning), e-mail      *)
(* addresses, app sessions and grants are Provider's; an expired session   *)
(* or token is a request that fails.                                       *)
(***************************************************************************)
EXTENDS Isolation

CONSTANTS
    Procs,          \* requests under way at one time
    Users, Hashes, Initials, Clients,   \* keys randomToken may draw
    Nobody,         \* no cookie
    MaxUses,        \* uses an initial access token may allow
    MaxWriteRetries,\* attempts of one Write (maxWriteRetries)
    MaxCred         \* bound: password versions

Role == {"admin", "user"}
User == [cred : Nat, role : Role, active : BOOLEAN, first : BOOLEAN]
Change == [role : Role, active : BOOLEAN]
Session == [id : Hashes, user : Users, ended : BOOLEAN, cred : Nat]
Initial == [max : Nat, uses : Nat, revoked : BOOLEAN]
Client == [initial : Initials]
Issued == "issued"

ASSUME AccountsAssumption ==
    /\ Nobody \notin Users \cup Hashes \cup Initials \cup Clients
    /\ Absent \notin User \cup Session \cup Initial \cup Client \cup {Issued}
    /\ MaxUses \subseteq Nat \ {0}
    /\ MaxWriteRetries \in Nat \ {0}
    /\ MaxCred \in Nat

Item == ({"user"} \X Users) \cup ({"session"} \X Hashes) \cup
        ({"initial"} \X Initials) \cup ({"client", "rat"} \X Clients)

U(u) == <<"user", u>>
S(h) == <<"session", h>>
I(i) == <<"initial", i>>
C(c) == <<"client", c>>
R(c) == <<"rat", c>>
AllUsers == <<"users">>
SessionsOf(u) == <<"sessions", u>>

VARIABLES
    backend,        \* which store the deployment uses
    db,             \* what is committed
    req,            \* what each process works on
    drawn,          \* keys drawn so far
    born            \* history: every registration, <<client, initial token>>

vars == <<backend, db, req, drawn, born>>

(***************************************************************************)
(* A request works through its Write's attempts.                           *)
(***************************************************************************)
Ops == {"bootstrap", "create", "login", "logout", "update", "delete", "password",
        "issue", "revoke", "manage", "register", "remove"}

NoTx == Open({}, None, {})

\* by: the session it presents, on: its target, arg: its input, new: the key
\* it has drawn, seen: what its Read saw
Request(op, by, on, arg, new, seen) ==
    [op |-> op, by |-> by, on |-> on, arg |-> arg, new |-> new, seen |-> seen,
     id |-> new, tries |-> 0, open |-> FALSE, tx |-> NoTx]

Idle == Request("idle", Nobody, Nobody, 0, Nobody, 0)

Init ==
    /\ backend \in Backends
    /\ db = [k \in Item |-> Absent]
    /\ req = [p \in Procs |-> Idle]
    /\ drawn = {}
    /\ born = {}

(***************************************************************************)
(* Callbacks.  Each is what running the callback on a snapshot s comes to: *)
(* nothing if it returns an error, else one result: what it read, what it  *)
(* writes, and the captured variable id it leaves behind.                  *)
(***************************************************************************)
Ran(ok, reads, writes, id) ==
    IF ok THEN {[reads |-> reads, writes |-> writes, id |-> id]} ELSE {}

Live(s, h) == h # Nobody /\ s[S(h)] # Absent /\ ~s[S(h)].ended

Principal(s, h, admin) ==
    /\ Live(s, h)
    /\ s[U(s[S(h)].user)] # Absent
    /\ s[U(s[S(h)].user)].active
    /\ admin => s[U(s[S(h)].user)].role = "admin"
Seen(s, h) == {S(h)} \cup {U(s[S(h)].user) : x \in {y \in {h} : Live(s, y)}}

\* a callback that asks for an administrator first
ByAdmin(r, s, ok, reads, writes) ==
    Ran(Principal(s, r.by, TRUE) /\ ok, Seen(s, r.by) \cup reads, writes, r.id)

Ending(s, H) == [k \in {S(h) : h \in H} |-> [s[k] EXCEPT !.ended = TRUE]]
OpenOf(s, u) == {h \in Hashes : Live(s, h) /\ s[S(h)].user = u}
Sharing(s, id) == {h \in Hashes : Live(s, h) /\ s[S(h)].id = id}

\* SaveUser and the sessions it ends when the account has changed
SavingUser(s, u, v) ==
    Put(IF s[U(u)] \notin {Absent, v} THEN Ending(s, OpenOf(s, u)) ELSE None, U(u), v)

Bootstrap_Always(r, s) ==
    Ran(TRUE, {}, Put(None, U(r.new),
            [cred |-> 0, role |-> "admin", active |-> TRUE, first |-> TRUE]), r.id)
Bootstrap(r, s) ==
    Ran(\A u \in Users : s[U(u)] = Absent, {AllUsers},
        Put(None, U(r.new), [cred |-> 0, role |-> "admin", active |-> TRUE, first |-> TRUE]),
        r.id)

CreateUser(r, s) ==
    ByAdmin(r, s, TRUE, {},
        Put(None, U(r.new), [cred |-> 0, role |-> r.arg, active |-> TRUE, first |-> FALSE]))

\* the password was verified before the Write, as version r.seen
Recheck_ActiveOnly(r, s) == s[U(r.on)] # Absent /\ s[U(r.on)].active
Recheck(r, s) == /\ s[U(r.on)] # Absent
                 /\ s[U(r.on)].active
                 /\ s[U(r.on)].cred = r.seen

\* a repeated sign-in keeps the session's ID; r.id keeps it for the next
\* attempt too
Login(r, s) ==
    LET again == Live(s, r.by) /\ s[S(r.by)].user = r.on
        id    == IF again THEN s[S(r.by)].id ELSE r.id
        old   == IF again THEN Put(None, S(r.by), Absent)
                 ELSE IF Live(s, r.by) THEN Ending(s, Sharing(s, s[S(r.by)].id))
                 ELSE None
    IN Ran(Recheck(r, s), {U(r.on)} \cup {S(h) : h \in {r.by} \ {Nobody}},
           Put(old, S(r.new), [id |-> id, user |-> r.on, ended |-> FALSE, cred |-> r.seen]),
           id)

Logout(r, s) ==
    Ran(Live(s, r.by), {S(r.by)}, Ending(s, Sharing(s, s[S(r.by)].id)), r.id)

LastAdmin_AnyStatus(s, u) ==
    /\ s[U(u)].role = "admin" /\ s[U(u)].active
    /\ \A o \in Users \ {u} : s[U(o)] # Absent => s[U(o)].role # "admin"
LastAdmin(s, u) ==
    /\ s[U(u)].role = "admin" /\ s[U(u)].active
    /\ \A o \in Users \ {u} : s[U(o)] # Absent => s[U(o)].role # "admin" \/ ~s[U(o)].active

\* a: the role and status the administrator asks for
MayBecome(s, u, a) ==
    /\ s[U(u)] # Absent
    /\ (~a.active \/ a.role # "admin") => ~LastAdmin(s, u)
MayGo(s, u) == s[U(u)] # Absent /\ ~LastAdmin(s, u)

UpdateUser(r, s) ==
    LET v == [s[U(r.on)] EXCEPT !.role = r.arg.role, !.active = r.arg.active] IN
    ByAdmin(r, s, MayBecome(s, r.on, r.arg), {U(r.on), SessionsOf(r.on), AllUsers},
        SavingUser(s, r.on, v))

DeleteUser(r, s) ==
    ByAdmin(r, s, MayGo(s, r.on),
        {U(r.on), SessionsOf(r.on), AllUsers},
        Put(Ending(s, OpenOf(s, r.on)), U(r.on), Absent))

\* the current password was verified before the Write, as version r.seen
ChangePassword(r, s) ==
    LET u == s[S(r.by)].user IN
    Ran(Principal(s, r.by, FALSE) /\ s[U(u)].cred = r.seen,
        Seen(s, r.by) \cup {SessionsOf(u)},
        SavingUser(s, u, [s[U(u)] EXCEPT !.cred = r.seen + 1]), r.id)

IssueInitialToken(r, s) ==
    ByAdmin(r, s, TRUE, {},
        Put(None, I(r.new), [max |-> r.arg, uses |-> 0, revoked |-> FALSE]))

\* initialTokenView's status is active
Usable_WhenRevoked(t) == t # Absent /\ t.uses < t.max
Usable_AtMax(t) == t # Absent /\ ~t.revoked /\ t.uses <= t.max
Usable(t) == t # Absent /\ ~t.revoked /\ t.uses < t.max

RevokeInitialToken(r, s) ==
    ByAdmin(r, s, Usable(s[I(r.on)]), {I(r.on)},
        Put(None, I(r.on), [s[I(r.on)] EXCEPT !.revoked = TRUE]))

\* the token was checked before the Write too; r.seen is what that Read saw
Counted_Early(r, s) == [r.seen EXCEPT !.uses = r.seen.uses + 1]
Counted(r, s) == [s[I(r.on)] EXCEPT !.uses = s[I(r.on)].uses + 1]

RegisterClient(r, s) ==
    Ran(Usable(s[I(r.on)]) /\ s[C(r.new)] = Absent, {I(r.on), C(r.new)},
        Put(Put(Put(None, C(r.new), [initial |-> r.on]), R(r.new), Issued),
            I(r.on), Counted(r, s)), r.id)

\* r.arg: issue a registration access token, or withdraw it
ManageRegistrationToken(r, s) ==
    ByAdmin(r, s, s[C(r.on)] # Absent, {C(r.on)},
        Put(None, R(r.on), IF r.arg THEN Issued ELSE Absent))

Removal_KeepsToken(c) == Put(None, C(c), Absent)
Removal(c) == Put(Put(None, C(c), Absent), R(c), Absent)

DeleteClient(r, s) == ByAdmin(r, s, s[C(r.on)] # Absent, {C(r.on)}, Removal(r.on))

Callback(r, s) ==
    CASE r.op = "bootstrap" -> Bootstrap(r, s)
      [] r.op = "create"    -> CreateUser(r, s)
      [] r.op = "login"     -> Login(r, s)
      [] r.op = "logout"    -> Logout(r, s)
      [] r.op = "update"    -> UpdateUser(r, s)
      [] r.op = "delete"    -> DeleteUser(r, s)
      [] r.op = "password"  -> ChangePassword(r, s)
      [] r.op = "issue"     -> IssueInitialToken(r, s)
      [] r.op = "revoke"    -> RevokeInitialToken(r, s)
      [] r.op = "manage"    -> ManageRegistrationToken(r, s)
      [] r.op = "register"  -> RegisterClient(r, s)
      [] OTHER              -> DeleteClient(r, s)

(***************************************************************************)
(* Arrivals.  A request draws the keys it needs and makes its Read, if it  *)
(* has one, before its Write.                                              *)
(***************************************************************************)
Fresh(K) == K \ drawn
Present(kind, K) == {k \in K : db[<<kind, k>>] # Absent}
Cookies == Present("session", Hashes)

MaySignIn == {u \in Present("user", Users) : db[U(u)].active}
MayChangePassword ==
    {h \in Cookies : Principal(db, h, FALSE) /\ db[U(db[S(h)].user)].cred < MaxCred}

\* Login and ChangePassword verify the password, RegisterClient the initial
\* token, against the state of their Read
Arrivals(op) ==
    CASE op = "bootstrap" -> {Request(op, Nobody, Nobody, 0, u, 0) : u \in Fresh(Users)}
      [] op = "create" -> {Request(op, h, Nobody, role, u, 0) :
                              h \in Cookies, role \in Role, u \in Fresh(Users)}
      [] op = "login" -> {Request(op, old, u, 0, h, db[U(u)].cred) :
                              old \in Cookies \cup {Nobody}, h \in Fresh(Hashes),
                              u \in MaySignIn}
      [] op = "logout" -> {Request(op, h, Nobody, 0, Nobody, 0) : h \in Cookies}
      [] op = "update" -> {Request(op, h, u, a, Nobody, 0) :
                              h \in Cookies, u \in Present("user", Users), a \in Change}
      [] op = "delete" -> {Request(op, h, u, 0, Nobody, 0) :
                              h \in Cookies, u \in Present("user", Users)}
      [] op = "password" -> {Request(op, h, Nobody, 0, Nobody, db[U(db[S(h)].user)].cred) :
                              h \in MayChangePassword}
      [] op = "issue" -> {Request(op, h, Nobody, max, i, 0) :
                              h \in Cookies, max \in MaxUses, i \in Fresh(Initials)}
      [] op = "revoke" -> {Request(op, h, i, 0, Nobody, 0) :
                              h \in Cookies, i \in Present("initial", Initials)}
      [] op = "manage" -> {Request(op, h, c, issue, Nobody, 0) :
                              h \in Cookies, c \in Present("client", Clients), issue \in BOOLEAN}
      [] op = "register" -> {Request(op, Nobody, i, 0, c, db[I(i)]) :
                              i \in {x \in Initials : Usable(db[I(x)])},
                              c \in Fresh(Clients)}
      [] OTHER -> {Request(op, h, c, 0, Nobody, 0) :
                              h \in Cookies, c \in Present("client", Clients)}

Arrive(p, op) ==
    /\ req[p] = Idle
    /\ \E r \in Arrivals(op) :
          /\ req' = [req EXCEPT ![p] = r]
          /\ drawn' = drawn \cup ({r.new} \ {Nobody})
    /\ UNCHANGED <<backend, db, born>>

Busy(p) == req[p] # Idle
InWrite(p) == req[p].open

(***************************************************************************)
(* The Write.                                                              *)
(***************************************************************************)
\* what a transaction that writes w over s changes for those who read: the
\* records, and every collection a record enters, leaves or changes in
Marks(s, w) ==
    DOMAIN w
    \cup {AllUsers : k \in {x \in DOMAIN w : x[1] = "user"}}
    \cup {SessionsOf(v.user) : v \in {f[k] : f \in {s, w},
                                k \in {x \in DOMAIN w : x[1] = "session"}} \ {Absent}}

\* the callback has run; the file store allows one at a time
Begin(p) ==
    /\ Busy(p) /\ ~req[p].open
    /\ backend = "file" => \A q \in Procs : ~InWrite(q)
    /\ \E e \in Callback(req[p], db) :
          LET w == Written(db, e.writes) IN
          req' = [req EXCEPT
                    ![p].id = e.id, ![p].open = TRUE,
                    ![p].tx = Open(e.reads \cup DOMAIN e.writes, w, Marks(db, w))]
    /\ UNCHANGED <<backend, db, drawn, born>>

\* the unique index on a session's ID
UniqueIDs_None(d) == TRUE
UniqueIDs(d) ==
    \A g, h \in Hashes : d[S(g)] # Absent /\ d[S(h)] # Absent /\ d[S(g)].id = d[S(h)].id
                              => g = h

Commit(p) ==
    /\ InWrite(p)
    /\ MayCommit(backend, req[p].tx)
    /\ db' = Merge(db, req[p].tx.writes)
    /\ backend # "file" => UniqueIDs(db')
    /\ req' = [q \in Procs |-> IF q = p THEN Idle
                               ELSE IF InWrite(q)
                                    THEN [req[q] EXCEPT !.tx = After(@, req[p].tx)]
                               ELSE req[q]]
    /\ born' = born \cup {<<c, db'[C(c)].initial>> :
                  c \in {x \in Clients : db[C(x)] = Absent /\ db'[C(x)] # Absent}}
    /\ UNCHANGED <<backend, drawn>>

\* a refused transaction leaves nothing but the captured variables
Retry(p) ==
    /\ InWrite(p)
    /\ MayRefuse(backend, req[p].tx)
    /\ req[p].tries + 1 < MaxWriteRetries
    /\ req' = [req EXCEPT ![p].open = FALSE, ![p].tx = NoTx, ![p].tries = @ + 1]
    /\ UNCHANGED <<backend, db, drawn, born>>

\* the request ends without a trace: its callback returned an error, its
\* attempts are spent, an index refused it, its context was cancelled, or its
\* process stopped, the file store's before the rename
Fail(p) ==
    /\ Busy(p)
    /\ req' = [req EXCEPT ![p] = Idle]
    /\ UNCHANGED <<backend, db, drawn, born>>

Step(p, ops) == \/ \E op \in ops : Arrive(p, op)
                \/ Begin(p) \/ Commit(p) \/ Retry(p) \/ Fail(p)

Next == \E p \in Procs : Step(p, Ops)

Spec == Init /\ [][Next]_vars

(***************************************************************************)
(* Properties.                                                             *)
(***************************************************************************)
\* A backend that takes transactions one by one, or as if it did.
Serial == backend \in Serializable

\* Every record has its fields, and an open transaction writes records.
TypeOK ==
    /\ backend \in Backends
    /\ \A u \in Users : db[U(u)] \in User \cup {Absent}
    /\ \A h \in Hashes : db[S(h)] \in Session \cup {Absent}
    /\ \A i \in Initials : db[I(i)] = Absent \/ (db[I(i)] \in Initial /\ db[I(i)].uses <= db[I(i)].max)
    /\ \A c \in Clients : db[C(c)] \in Client \cup {Absent} /\ db[R(c)] \in {Issued, Absent}
    /\ \A p \in Procs : req[p].op \in Ops \cup {"idle"} /\ DOMAIN req[p].tx.writes \subseteq Item
    /\ born \subseteq Clients \X Initials

Admins == {u \in Users : db[U(u)] # Absent /\ db[U(u)].role = "admin" /\ db[U(u)].active}

\* Once there are accounts, an active administrator remains, whoever demotes,
\* disables or deletes whom at the same time (lastAdmin, service.go).
AdminAlways == (\E u \in Users : db[U(u)] # Absent) => Admins # {}

\* ... on the backends whose transactions are serializable.
AdminRemains == Serial => AdminAlways

\* The first-run form makes one account, however many submit it at once.
FirstRunOnce ==
    Serial => Cardinality({u \in Users : db[U(u)] # Absent /\ db[U(u)].first}) <= 1

\* A session that is open was opened with the credentials its account has
\* now, by an account that is active: no sign-in whose password was verified
\* before a change commits after it, and none in flight outlives it.
SignInsCurrent ==
    Serial => \A h \in Hashes : Live(db, h) =>
        LET s == db[S(h)] IN
        db[U(s.user)] # Absent /\ db[U(s.user)].active /\ db[U(s.user)].cred = s.cred

\* A session's ID names one record, though a retried sign-in keeps the ID its
\* first attempt took from a record that another sign-in has replaced since.
OneRecordPerID ==
    \A id \in Hashes : Cardinality({h \in Hashes : db[S(h)] # Absent /\ db[S(h)].id = id}) <= 1

\* An initial access token registers no more clients than it allows, whatever
\* the backend and however many registrations saw its last use free.
Registered(i) == {c \in Clients : <<c, i>> \in born}
Quota == \A i \in Initials : db[I(i)] # Absent => Cardinality(Registered(i)) <= db[I(i)].max

\* A revoked initial access token stays revoked and registers nothing more:
\* a registration under way at its revocation does not overwrite it.
RevokedFinal ==
    [][\A i \in Initials : (db[I(i)] # Absent /\ db[I(i)].revoked) =>
           db'[I(i)] = db[I(i)] /\ Registered(i)' = Registered(i)]_vars

\* A registration access token belongs to a client that exists: removing the
\* client takes it along, and none is issued past the removal.
NoOrphanCredential ==
    Serial => \A c \in Clients : db[R(c)] # Absent => db[C(c)] # Absent
==============================================================================
