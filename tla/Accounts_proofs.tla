--------------------------- MODULE Accounts_proofs ---------------------------
(***************************************************************************)
(* Initial access tokens, on every backend and for every value of the      *)
(* constants: a quota is never overrun (QuotaHeld) and a revocation is     *)
(* final (RevocationFinal).                                                *)
(*                                                                         *)
(* Both rest on what a transaction that may still commit is about to       *)
(* write.  It was prepared on a snapshot; Pending says that, unless        *)
(* another transaction has written the same record since, in which case    *)
(* it is lost, its write is right for the record as it is now.             *)
(***************************************************************************)
EXTENDS Accounts, FiniteSetTheorems, TLAPS

ReqFields == {"op", "by", "on", "arg", "new", "seen", "id", "tries", "open", "tx"}
TxFields == {"reads", "writes", "marks", "in", "out", "late", "lost"}

\* requests and transactions have their fields
Shaped ==
    /\ DOMAIN db = Item
    /\ DOMAIN req = Procs
    /\ \A p \in Procs : /\ DOMAIN req[p] = ReqFields
                        /\ DOMAIN req[p].tx = TxFields
                        /\ req[p] = Idle \/ req[p].op \in Ops

\* a key is drawn by one request, and no record has a key nobody drew
KeysDrawn ==
    /\ \A p \in Procs : req[p].new # Nobody => req[p].new \in drawn
    /\ \A p, q \in Procs : p # q /\ req[p].new # Nobody => req[p].new # req[q].new
    /\ \A i \in Initials : db[I(i)] # Absent => i \in drawn

\* what requests about initial tokens name
Named(r) ==
    /\ r.op = "issue" => r.new \in Initials /\ r.arg \in MaxUses
    /\ r.op \in {"revoke", "register"} => r.on \in Initials
RequestsNamed ==
    \A p \in Procs : Named(req[p]) /\ (req[p].op = "issue" => db[I(req[p].new)] = Absent)

New(max) == [max |-> max, uses |-> 0, revoked |-> FALSE]
Revoked(t) == [t EXCEPT !.revoked = TRUE]
Used(t) == [t EXCEPT !.uses = t.uses + 1]

\* request r, working on s, may write v for initial token i
Writes(r, s, i, v) ==
    \/ r.op = "issue" /\ i = r.new /\ v = New(r.arg)
    \/ r.op = "revoke" /\ i = r.on /\ Usable(s[I(i)]) /\ v = Revoked(s[I(i)])
    \/ r.op = "register" /\ i = r.on /\ Usable(s[I(i)]) /\ v = Used(s[I(i)])

\* ... and writes a client only along with the token that registers it
Registers(r, w, c) ==
    r.op = "register" /\ c = r.new /\ w[C(c)] = [initial |-> r.on] /\ I(r.on) \in DOMAIN w

Prepared(r, s, w) ==
    /\ \A i \in Initials : I(i) \in DOMAIN w => Writes(r, s, i, w[I(i)])
    /\ \A c \in Clients : (C(c) \in DOMAIN w /\ w[C(c)] # Absent) => Registers(r, w, c)

Pending ==
    \A p \in Procs : (req[p].open /\ ~req[p].tx.lost) => Prepared(req[p], db, req[p].tx.writes)

\* what is committed
Counts ==
    \A i \in Initials :
        /\ IsFiniteSet(Registered(i))
        /\ db[I(i)] = Absent => Registered(i) = {}
        /\ db[I(i)] # Absent =>
              /\ db[I(i)] \in Initial
              /\ Cardinality(Registered(i)) <= db[I(i)].uses
              /\ db[I(i)].uses <= db[I(i)].max

IInv == Shaped /\ KeysDrawn /\ RequestsNamed /\ Pending /\ Counts

(***************************************************************************)
(* Items.                                                                  *)
(***************************************************************************)
\* An item of one kind is none of another, and its key is its own.
LEMMA Apart ==
    ASSUME NEW x, NEW y
    PROVE  /\ I(x) # U(y) /\ I(x) # S(y) /\ I(x) # C(y) /\ I(x) # R(y)
           /\ C(x) # U(y) /\ C(x) # S(y) /\ C(x) # I(y) /\ C(x) # R(y)
           /\ I(x) = I(y) => x = y
           /\ C(x) = C(y) => x = y
BY DEF I, U, S, C, R

\* An initial token's item and a client's are items.
LEMMA Items ==
    /\ \A i \in Initials : I(i) \in Item
    /\ \A c \in Clients : C(c) \in Item
BY DEF I, C, Item

(***************************************************************************)
(* Callbacks.  Only three of them write initial tokens, and only           *)
(* registration writes a client that is not a deletion.                    *)
(***************************************************************************)
\* no key of w is an initial token's or a client's
Clear(w) == \A k \in DOMAIN w : k[1] \notin {"initial", "client"}

\* A callback that writes neither initial tokens nor clients is prepared.
LEMMA Elsewhere ==
    ASSUME NEW r, NEW s, NEW w, Clear(w)
    PROVE  Prepared(r, s, w)
BY DEF Prepared, Clear, I, C

\* What a callback's result writes.
LEMMA RanWrites ==
    ASSUME NEW ok, NEW reads, NEW w, NEW id, NEW e \in Ran(ok, reads, w, id)
    PROVE  e.writes = w
BY DEF Ran
LEMMA AdminWrites ==
    ASSUME NEW r, NEW s, NEW ok, NEW reads, NEW w, NEW e \in ByAdmin(r, s, ok, reads, w)
    PROVE  e.writes = w
<1>1. \E b : e \in Ran(b, Seen(s, r.by) \cup reads, w, r.id) BY DEF ByAdmin
<1> QED BY <1>1, RanWrites

\* What Put writes.
LEMMA PutOne ==
    ASSUME NEW k, NEW v
    PROVE  DOMAIN Put(None, k, v) = {k} /\ Put(None, k, v)[k] = v
BY DEF Put, None
LEMMA PutClear ==
    ASSUME NEW w, Clear(w), NEW k, k[1] \notin {"initial", "client"}, NEW v
    PROVE  Clear(Put(w, k, v))
BY DEF Put, Clear

\* Accounts and sessions are clear of tokens and clients.
LEMMA SessionsClear ==
    /\ Clear(None)
    /\ \A x : U(x)[1] = "user" /\ S(x)[1] = "session" /\ R(x)[1] = "rat"
BY DEF Clear, None, U, S, R
LEMMA EndingClear ==
    ASSUME NEW s, NEW H
    PROVE  Clear(Ending(s, H))
BY DEF Ending, Clear, S
LEMMA SavingClear ==
    ASSUME NEW s, NEW u, NEW v
    PROVE  Clear(SavingUser(s, u, v))
<1>1. CASE s[U(u)] \notin {Absent, v}
      BY <1>1, EndingClear, PutClear, SessionsClear DEF SavingUser
<1>2. CASE s[U(u)] \in {Absent, v}
      BY <1>2, PutClear, SessionsClear DEF SavingUser
<1> QED BY <1>1, <1>2

\* The callbacks on accounts and sessions write no token and no client.
LEMMA AccountCallbacks ==
    ASSUME NEW r, NEW s, NEW e,
           \/ e \in Bootstrap(r, s) \/ e \in CreateUser(r, s)
           \/ e \in Login(r, s) \/ e \in Logout(r, s)
           \/ e \in UpdateUser(r, s) \/ e \in DeleteUser(r, s)
           \/ e \in ChangePassword(r, s)
    PROVE  Clear(e.writes)
<1>2. CASE e \in Bootstrap(r, s)
      <2> DEFINE v == [cred |-> 0, role |-> "admin", active |-> TRUE, first |-> TRUE]
      <2>1. e.writes = Put(None, U(r.new), v) BY <1>2, RanWrites DEF Bootstrap
      <2> HIDE DEF v
      <2> QED BY <2>1, PutClear, SessionsClear
<1>3. CASE e \in CreateUser(r, s)
      <2> DEFINE v == [cred |-> 0, role |-> r.arg, active |-> TRUE, first |-> FALSE]
      <2>1. e.writes = Put(None, U(r.new), v) BY ZenonT(40), <1>3, AdminWrites DEF CreateUser
      <2> HIDE DEF v
      <2> QED BY <2>1, PutClear, SessionsClear
<1>4. CASE e \in Login(r, s)
      <2> DEFINE again == Live(s, r.by) /\ s[S(r.by)].user = r.on
                 id  == IF again THEN s[S(r.by)].id ELSE r.id
                 old == IF again THEN Put(None, S(r.by), Absent)
                        ELSE IF Live(s, r.by) THEN Ending(s, Sharing(s, s[S(r.by)].id))
                        ELSE None
                 new == [id |-> id, user |-> r.on, ended |-> FALSE, cred |-> r.seen]
      <2>1. Clear(old) BY EndingClear, PutClear, SessionsClear
      <2>2. e.writes = Put(old, S(r.new), new) BY <1>4 DEF Login, Ran
      <2> HIDE DEF old, new
      <2> QED BY <2>1, <2>2, PutClear, SessionsClear
<1>5. CASE e \in Logout(r, s)
      BY <1>5, RanWrites, EndingClear DEF Logout
<1>6. CASE e \in UpdateUser(r, s)
      <2> DEFINE v == [s[U(r.on)] EXCEPT !.role = r.arg.role, !.active = r.arg.active]
      <2>1. e.writes = SavingUser(s, r.on, v) BY <1>6, AdminWrites DEF UpdateUser
      <2> HIDE DEF v
      <2> QED BY <2>1, SavingClear
<1>7. CASE e \in DeleteUser(r, s)
      BY <1>7, AdminWrites, PutClear, EndingClear, SessionsClear DEF DeleteUser
<1>8. CASE e \in ChangePassword(r, s)
      <2> DEFINE u == s[S(r.by)].user
                 v == [s[U(u)] EXCEPT !.cred = r.seen + 1]
      <2>1. e.writes = SavingUser(s, u, v) BY <1>8, RanWrites DEF ChangePassword
      <2> HIDE DEF u, v
      <2> QED BY <2>1, SavingClear
<1> QED BY <1>2, <1>3, <1>4, <1>5, <1>6, <1>7, <1>8

\* Removing a client and managing its token write no initial token.
LEMMA ClientCallbacks ==
    ASSUME NEW r, NEW s, NEW e,
           e \in ManageRegistrationToken(r, s) \/ e \in DeleteClient(r, s)
    PROVE  Prepared(r, s, e.writes)
<1>1. CASE e \in ManageRegistrationToken(r, s)
      <2>1. Clear(e.writes)
            BY <1>1, AdminWrites, PutClear, SessionsClear DEF ManageRegistrationToken
      <2> QED BY <2>1, Elsewhere
<1>2. CASE e \in DeleteClient(r, s)
      <2>1. e.writes = Removal(r.on) BY <1>2, AdminWrites DEF DeleteClient
      <2>2. DOMAIN e.writes = {C(r.on), R(r.on)} /\ e.writes[C(r.on)] = Absent
            BY <2>1, Apart DEF Removal, Put, None
      <2> QED BY <2>2, Apart DEF Prepared
<1> QED BY <1>1, <1>2

\* Issuing and revoking write the token they name.
LEMMA TokenCallbacks ==
    ASSUME NEW r, NEW s, NEW e,
           \/ r.op = "issue" /\ e \in IssueInitialToken(r, s)
           \/ r.op = "revoke" /\ e \in RevokeInitialToken(r, s)
    PROVE  Prepared(r, s, e.writes)
<1>1. CASE r.op = "issue" /\ e \in IssueInitialToken(r, s)
      <2>1. e.writes = Put(None, I(r.new), New(r.arg))
            BY ZenonT(40), <1>1, AdminWrites DEF IssueInitialToken, New
      <2>2. DOMAIN e.writes = {I(r.new)} /\ e.writes[I(r.new)] = New(r.arg)
            BY <2>1, PutOne
      <2> QED BY <1>1, <2>2, Apart DEF Prepared, Writes
<1>2. CASE r.op = "revoke" /\ e \in RevokeInitialToken(r, s)
      <2>1. e.writes = Put(None, I(r.on), Revoked(s[I(r.on)]))
            BY <1>2, AdminWrites DEF RevokeInitialToken, Revoked
      <2>3. Usable(s[I(r.on)])
            BY <1>2 DEF RevokeInitialToken, ByAdmin, Ran
      <2>2. DOMAIN e.writes = {I(r.on)} /\ e.writes[I(r.on)] = Revoked(s[I(r.on)])
            BY ZenonT(40), <2>1, PutOne
      <2> QED BY <1>2, <2>2, <2>3, Apart DEF Prepared, Writes
<1> QED BY <1>1, <1>2

\* Registering writes the client, its token and the count.
LEMMA RegisterCallback ==
    ASSUME NEW r, NEW s, r.op = "register", NEW e \in RegisterClient(r, s)
    PROVE  Prepared(r, s, e.writes)
<1>1. /\ e.writes = Put(Put(Put(None, C(r.new), [initial |-> r.on]), R(r.new), Issued),
                        I(r.on), Used(s[I(r.on)]))
      /\ Usable(s[I(r.on)])
      BY DEF RegisterClient, Ran, Counted, Used
<1>2. /\ DOMAIN e.writes = {C(r.new), R(r.new), I(r.on)}
      /\ e.writes[I(r.on)] = Used(s[I(r.on)])
      /\ e.writes[C(r.new)] = [initial |-> r.on]
      BY <1>1, Apart DEF Put, None
<1> QED BY <1>1, <1>2, Apart DEF Prepared, Writes, Registers

\* Whatever a callback returns is prepared.
LEMMA CallbackPrepared ==
    ASSUME NEW r, NEW s, r.op \in Ops, NEW e \in Callback(r, s)
    PROVE  Prepared(r, s, e.writes)
<1>1. \/ e \in Bootstrap(r, s) \/ e \in CreateUser(r, s)
      \/ e \in Login(r, s) \/ e \in Logout(r, s)
      \/ e \in UpdateUser(r, s) \/ e \in DeleteUser(r, s)
      \/ e \in ChangePassword(r, s)
      \/ e \in ManageRegistrationToken(r, s) \/ e \in DeleteClient(r, s)
      \/ r.op = "issue" /\ e \in IssueInitialToken(r, s)
      \/ r.op = "revoke" /\ e \in RevokeInitialToken(r, s)
      \/ r.op = "register" /\ e \in RegisterClient(r, s)
      BY DEF Callback, Ops
<1> QED BY <1>1, AccountCallbacks, Elsewhere, ClientCallbacks, TokenCallbacks, RegisterCallback

(***************************************************************************)
(* Arrivals and attempts.                                                  *)
(***************************************************************************)
\* A request that arrives has its fields, and a key of its own if it needs one.
LEMMA Arrived ==
    ASSUME NEW op \in Ops, NEW r \in Arrivals(op)
    PROVE  /\ DOMAIN r = ReqFields /\ r.tx = NoTx /\ ~r.open
           /\ r.op = op
           /\ r.new = Nobody \/ r.new \notin drawn
           /\ Named(r)
<1>1. \E by, on, arg, new, seen :
         /\ r = Request(op, by, on, arg, new, seen)
         /\ new = Nobody \/ new \notin drawn
         /\ op = "issue" => new \in Initials /\ arg \in MaxUses
         /\ op \in {"revoke", "register"} => on \in Initials
      <2>1. CASE op = "bootstrap"
            <3>1. \E u \in Fresh(Users) :
                     r = Request(op, Nobody, Nobody, 0, u, 0)
                  BY <2>1 DEF Arrivals
            <3> QED BY <2>1, <3>1 DEF Fresh, Present
      <2>2. CASE op = "create"
            <3>1. \E h \in Cookies, role \in Role, u \in Fresh(Users) :
                     r = Request(op, h, Nobody, role, u, 0)
                  BY <2>2 DEF Arrivals
            <3> QED BY <2>2, <3>1 DEF Fresh, Present
      <2>3. CASE op = "login"
            <3>1. \E old \in Cookies \cup {Nobody}, h \in Fresh(Hashes), u \in MaySignIn :
                     r = Request(op, old, u, 0, h, db[U(u)].cred)
                  BY <2>3 DEF Arrivals
            <3> QED BY <2>3, <3>1 DEF Fresh, Present
      <2>4. CASE op = "logout"
            <3>1. \E h \in Cookies :
                     r = Request(op, h, Nobody, 0, Nobody, 0)
                  BY <2>4 DEF Arrivals
            <3> QED BY <2>4, <3>1 DEF Fresh, Present
      <2>5. CASE op = "update"
            <3>1. \E h \in Cookies, u \in Present("user", Users), a \in Change :
                     r = Request(op, h, u, a, Nobody, 0)
                  BY <2>5 DEF Arrivals
            <3> QED BY <2>5, <3>1 DEF Fresh, Present
      <2>6. CASE op = "delete"
            <3>1. \E h \in Cookies, u \in Present("user", Users) :
                     r = Request(op, h, u, 0, Nobody, 0)
                  BY <2>6 DEF Arrivals
            <3> QED BY <2>6, <3>1 DEF Fresh, Present
      <2>7. CASE op = "password"
            <3>1. \E h \in MayChangePassword :
                     r = Request(op, h, Nobody, 0, Nobody, db[U(db[S(h)].user)].cred)
                  BY <2>7 DEF Arrivals
            <3> QED BY <2>7, <3>1 DEF Fresh, Present
      <2>8. CASE op = "issue"
            <3>1. \E h \in Cookies, max \in MaxUses, i \in Fresh(Initials) :
                     r = Request(op, h, Nobody, max, i, 0)
                  BY <2>8 DEF Arrivals
            <3> QED BY <2>8, <3>1 DEF Fresh, Present
      <2>9. CASE op = "revoke"
            <3>1. \E h \in Cookies, i \in Present("initial", Initials) :
                     r = Request(op, h, i, 0, Nobody, 0)
                  BY <2>9 DEF Arrivals
            <3> QED BY <2>9, <3>1 DEF Fresh, Present
      <2>10. CASE op = "manage"
            <3>1. \E h \in Cookies, c \in Present("client", Clients), issue \in BOOLEAN :
                     r = Request(op, h, c, issue, Nobody, 0)
                  BY <2>10 DEF Arrivals
            <3> QED BY <2>10, <3>1 DEF Fresh, Present
      <2>11. CASE op = "register"
            <3>1. \E i \in {x \in Initials : Usable(db[I(x)])}, c \in Fresh(Clients) :
                     r = Request(op, Nobody, i, 0, c, db[I(i)])
                  BY <2>11 DEF Arrivals
            <3> QED BY <2>11, <3>1 DEF Fresh, Present
      <2>12. CASE op = "remove"
            <3>1. \E h \in Cookies, c \in Present("client", Clients) :
                     r = Request(op, h, c, 0, Nobody, 0)
                  BY <2>12 DEF Arrivals
            <3> QED BY <2>12, <3>1 DEF Fresh, Present
      <2> QED BY <2>1, <2>2, <2>3, <2>4, <2>5, <2>6, <2>7, <2>8, <2>9, <2>10, <2>11, <2>12 DEF Ops
<1> QED BY <1>1 DEF Request, ReqFields, Named

\* A refused deletion drops out; what is left is still prepared.
LEMMA WrittenPrepared ==
    ASSUME NEW r, Named(r), NEW s,
           \A i \in Initials : s[I(i)] = Absent \/ s[I(i)] \in Initial,
           NEW w, Prepared(r, s, w)
    PROVE  Prepared(r, s, Written(s, w))
<1>1. /\ DOMAIN Written(s, w) \subseteq DOMAIN w
      /\ \A k \in DOMAIN Written(s, w) : Written(s, w)[k] = w[k]
      /\ \A k \in DOMAIN w : w[k] # Absent => k \in DOMAIN Written(s, w)
      BY DEF Written
<1>2. \A i \in Initials : Usable(s[I(i)]) => Used(s[I(i)]) # Absent
      BY AccountsAssumption DEF Usable, Used, Initial
<1>3. ASSUME NEW i \in Initials, I(i) \in DOMAIN Written(s, w)
      PROVE  Writes(r, s, i, Written(s, w)[I(i)])
      BY <1>1, <1>3 DEF Prepared
<1>4. ASSUME NEW c \in Clients, C(c) \in DOMAIN Written(s, w), Written(s, w)[C(c)] # Absent
      PROVE  Registers(r, Written(s, w), c)
      <2>1. Registers(r, w, c) BY <1>1, <1>4 DEF Prepared
      <2>2. r.on \in Initials /\ Writes(r, s, r.on, w[I(r.on)])
            BY <2>1 DEF Prepared, Registers, Named
      <2>3. w[I(r.on)] # Absent BY <1>2, <2>1, <2>2 DEF Writes, Registers
      <2> QED BY <1>1, <1>4, <2>1, <2>3 DEF Registers
<1> QED BY <1>3, <1>4 DEF Prepared

\* No request is under way and nothing is stored.
LEMMA InitIInv == Init => IInv
<1> SUFFICES ASSUME Init PROVE IInv OBVIOUS
<1>1. \A i \in Initials : I(i) \in Item BY Items
<1>2. /\ DOMAIN Idle = ReqFields /\ Idle.tx = NoTx /\ Idle.open = FALSE
      /\ Idle.op = "idle" /\ Idle.new = Nobody
      BY DEF Idle, Request, ReqFields
<1>3. DOMAIN NoTx = TxFields
      BY DEF NoTx, Open, TxFields
<1>4. Shaped BY <1>2, <1>3 DEF Init, Shaped
<1>5. KeysDrawn BY <1>1, <1>2 DEF Init, KeysDrawn
<1>6. RequestsNamed BY <1>2 DEF Init, RequestsNamed, Named
<1>7. Pending BY <1>2 DEF Init, Pending
<1>8. Counts BY <1>1, FS_EmptySet DEF Init, Counts, Registered
<1> QED BY <1>4, <1>5, <1>6, <1>7, <1>8 DEF IInv

\* An arrival changes its process and draws its key.
LEMMA ArriveIInv ==
    ASSUME IInv, NEW p \in Procs, NEW op \in Ops, Arrive(p, op)
    PROVE  IInv'
<1>1. PICK r \in Arrivals(op) :
         /\ req' = [req EXCEPT ![p] = r]
         /\ drawn' = drawn \cup ({r.new} \ {Nobody})
      BY DEF Arrive
<1>2. /\ DOMAIN r = ReqFields /\ r.tx = NoTx /\ ~r.open /\ r.op = op
      /\ r.new = Nobody \/ r.new \notin drawn
      /\ Named(r)
      BY Arrived
<1>3. DOMAIN NoTx = TxFields
      BY DEF NoTx, Open, TxFields
<1>4. db' = db /\ born' = born BY DEF Arrive
<1>5. req'[p] = r /\ \A q \in Procs : q # p => req'[q] = req[q]
      BY <1>1 DEF IInv, Shaped
<1>6. Shaped' BY <1>1, <1>2, <1>3, <1>4, <1>5 DEF IInv, Shaped
<1>7. KeysDrawn' BY <1>1, <1>2, <1>4, <1>5 DEF IInv, KeysDrawn
<1>8. r.op = "issue" => db[I(r.new)] = Absent
      BY <1>2, AccountsAssumption DEF IInv, KeysDrawn, Named
<1>9. RequestsNamed' BY <1>2, <1>4, <1>5, <1>8 DEF IInv, RequestsNamed, Named
<1>10. Pending' BY <1>2, <1>4, <1>5 DEF IInv, Pending, Prepared, Writes, Registers
<1>11. Counts' BY <1>4 DEF IInv, Counts, Registered
<1> QED BY <1>6, <1>7, <1>9, <1>10, <1>11 DEF IInv

\* A request that ends leaves its process idle.
LEMMA FailIInv ==
    ASSUME IInv, NEW p \in Procs, Fail(p)
    PROVE  IInv'
<1>1. req'[p] = Idle /\ \A q \in Procs : q # p => req'[q] = req[q]
      BY DEF IInv, Shaped, Fail
<1>2. /\ DOMAIN Idle = ReqFields /\ Idle.tx = NoTx /\ Idle.open = FALSE
      /\ Idle.op = "idle" /\ Idle.new = Nobody
      BY DEF Idle, Request, ReqFields
<1>3. DOMAIN NoTx = TxFields
      BY DEF NoTx, Open, TxFields
<1>4. db' = db /\ born' = born /\ drawn' = drawn BY DEF Fail
<1>5. Shaped' BY <1>1, <1>2, <1>3, <1>4 DEF IInv, Shaped, Fail
<1>6. KeysDrawn' BY <1>1, <1>2, <1>4 DEF IInv, KeysDrawn
<1>7. RequestsNamed' BY <1>1, <1>2, <1>4 DEF IInv, RequestsNamed, Named
<1>8. Pending' BY <1>1, <1>2, <1>4 DEF IInv, Pending, Prepared, Writes, Registers
<1>9. Counts' BY <1>4 DEF IInv, Counts, Registered
<1> QED BY <1>5, <1>6, <1>7, <1>8, <1>9 DEF IInv

\* What matters of a request is its operation, target, input and key.
LEMMA SameRequest ==
    ASSUME NEW r, NEW q, q.op = r.op, q.on = r.on, q.arg = r.arg, q.new = r.new
    PROVE  /\ Named(q) <=> Named(r)
           /\ \A s, w : Prepared(r, s, w) => Prepared(q, s, w)
BY DEF Named, Prepared, Writes, Registers

\* An attempt begins: what it will write is prepared on what is committed.
LEMMA BeginIInv ==
    ASSUME IInv, NEW p \in Procs, Begin(p)
    PROVE  IInv'
<1> DEFINE r == req[p]
<1>1. PICK e \in Callback(r, db) :
         req' = [req EXCEPT
                   ![p].id = e.id, ![p].open = TRUE,
                   ![p].tx = Open(e.reads \cup DOMAIN e.writes, Written(db, e.writes),
                                  Marks(db, Written(db, e.writes)))]
      BY DEF Begin
<1> DEFINE w == Written(db, e.writes)
           t == Open(e.reads \cup DOMAIN e.writes, w, Marks(db, w))
<1>2. db' = db /\ born' = born /\ drawn' = drawn BY DEF Begin
<1>3. /\ DOMAIN t = TxFields /\ t.writes = w BY DEF Open, TxFields
<1> HIDE DEF t, w
<1>4. /\ DOMAIN req' = Procs /\ \A q \in Procs : q # p => req'[q] = req[q]
      /\ DOMAIN req'[p] = ReqFields /\ req'[p].tx = t
      /\ req'[p].op = r.op /\ req'[p].on = r.on /\ req'[p].arg = r.arg /\ req'[p].new = r.new
      BY <1>1 DEF IInv, Shaped, ReqFields, t, w
<1>5. r.op \in Ops BY DEF IInv, Shaped, Begin, Busy
<1>6. Named(r) BY DEF IInv, RequestsNamed
<1>7. \A i \in Initials : db[I(i)] = Absent \/ db[I(i)] \in Initial
      BY DEF IInv, Counts
<1>8. Prepared(r, db, w) BY <1>5, <1>6, <1>7, CallbackPrepared, WrittenPrepared DEF w
<1>9. Prepared(req'[p], db, w) /\ Named(req'[p]) BY <1>4, <1>6, <1>8, SameRequest
<1>10. Shaped' BY <1>2, <1>3, <1>4, <1>5 DEF IInv, Shaped
<1>11. KeysDrawn' BY <1>2, <1>4 DEF IInv, KeysDrawn
<1>12. RequestsNamed' BY <1>2, <1>4, <1>9 DEF IInv, RequestsNamed, Named
<1>13. Pending' BY <1>2, <1>3, <1>4, <1>9 DEF IInv, Pending, Prepared, Writes, Registers
<1>14. Counts' BY <1>2 DEF IInv, Counts, Registered
<1> QED BY <1>10, <1>11, <1>12, <1>13, <1>14 DEF IInv

\* A refused attempt leaves its request to try again.
LEMMA RetryIInv ==
    ASSUME IInv, NEW p \in Procs, Retry(p)
    PROVE  IInv'
<1>1. db' = db /\ born' = born /\ drawn' = drawn BY DEF Retry
<1>2. DOMAIN NoTx = TxFields BY DEF NoTx, Open, TxFields
<1> HIDE DEF NoTx
<1>3. /\ DOMAIN req' = Procs /\ \A q \in Procs : q # p => req'[q] = req[q]
      /\ DOMAIN req'[p] = ReqFields /\ req'[p].tx = NoTx /\ req'[p].open = FALSE
      /\ req'[p].op = req[p].op /\ req'[p].on = req[p].on
      /\ req'[p].arg = req[p].arg /\ req'[p].new = req[p].new
      BY DEF Retry, IInv, Shaped, ReqFields
<1>4. req[p].op \in Ops
      BY DEF IInv, Shaped, Retry, InWrite, Idle, Request
<1>5. Named(req'[p]) BY <1>3, SameRequest DEF IInv, RequestsNamed
<1>6. Shaped' BY <1>1, <1>2, <1>3, <1>4 DEF IInv, Shaped
<1>7. KeysDrawn' BY <1>1, <1>3 DEF IInv, KeysDrawn
<1>8. RequestsNamed' BY <1>1, <1>3, <1>5 DEF IInv, RequestsNamed
<1>9. Pending' BY <1>1, <1>3 DEF IInv, Pending, Prepared, Writes, Registers
<1>10. Counts' BY <1>1 DEF IInv, Counts, Registered
<1> QED BY <1>6, <1>7, <1>8, <1>9, <1>10 DEF IInv

\* A commit writes what was prepared; an initial token it does not write stays,
\* and only a registration that counts itself adds to what a token registered.
LEMMA CommitEffect ==
    ASSUME IInv, NEW p \in Procs, Commit(p), NEW i \in Initials
    PROVE  LET r == req[p]
               w == req[p].tx.writes
           IN  /\ I(i) \notin DOMAIN w => db'[I(i)] = db[I(i)] /\ Registered(i)' = Registered(i)
               /\ I(i) \in DOMAIN w =>
                     /\ db'[I(i)] = w[I(i)]
                     /\ Writes(r, db, i, w[I(i)])
                     /\ \/ Registered(i)' = Registered(i)
                        \/ r.op = "register" /\ Registered(i)' = Registered(i) \cup {r.new}
<1> DEFINE r == req[p]
           w == req[p].tx.writes
           X == {x \in Clients : db[C(x)] = Absent /\ db'[C(x)] # Absent}
<1>1. Prepared(r, db, w)
      BY DEF IInv, Pending, Commit, InWrite, MayCommit
<1>2. \A k \in Item : db'[k] = IF k \in DOMAIN w THEN w[k] ELSE db[k]
      BY DEF Commit, Merge, IInv, Shaped
<1>3. born' = born \cup {<<c, db'[C(c)].initial>> : c \in X}
      BY DEF Commit
<1>4. ASSUME NEW c \in X
      PROVE  r.op = "register" /\ c = r.new /\ db'[C(c)].initial = r.on /\ I(r.on) \in DOMAIN w
      BY <1>1, <1>2, Items DEF Prepared, Registers
<1>5. \A k \in Item : k \in DOMAIN w => db'[k] = w[k] BY <1>2
<1>6. \A k \in Item : k \notin DOMAIN w => db'[k] = db[k] BY <1>2
<1>7. \/ Registered(i)' = Registered(i)
      \/ /\ r.op = "register" /\ i = r.on /\ I(i) \in DOMAIN w
         /\ Registered(i)' = Registered(i) \cup {r.new}
      <2>1. CASE \E c \in X : i = db'[C(c)].initial
            <3>1. PICK c \in X : i = db'[C(c)].initial BY <2>1
            <3>2. /\ r.op = "register" /\ c = r.new /\ i = r.on /\ I(i) \in DOMAIN w
                  /\ r.new \in Clients
                  BY <3>1, <1>4
            <3>3. \A d : <<d, i>> \in born' <=> <<d, i>> \in born \/ d = r.new
                  BY <1>3, <1>4, <3>1, <3>2
            <3> QED BY <3>2, <3>3 DEF Registered
      <2>2. CASE ~ \E c \in X : i = db'[C(c)].initial
            <3>1. \A d : <<d, i>> \in born' <=> <<d, i>> \in born
                  BY <1>3, <2>2
            <3> QED BY <3>1 DEF Registered
      <2> QED BY <2>1, <2>2
<1>8. I(i) \in DOMAIN w => Writes(r, db, i, w[I(i)]) BY <1>1 DEF Prepared
<1>9. I(i) \in Item BY Items
<1> HIDE DEF r, w
<1> QED BY <1>5, <1>6, <1>7, <1>8, <1>9 DEF r, w

\* What a commit may do to an initial token: nothing, or issue it, revoke it
\* while it is usable, or count one registration while it is usable.
TokenStep(i, r) ==
    \/ db'[I(i)] = db[I(i)] /\ Registered(i)' = Registered(i)
    \/ /\ r.op = "issue" /\ i = r.new /\ db'[I(i)] = New(r.arg)
       /\ Registered(i)' = Registered(i)
    \/ /\ Usable(db[I(i)]) /\ db'[I(i)] = Revoked(db[I(i)])
       /\ Registered(i)' = Registered(i)
    \/ /\ Usable(db[I(i)]) /\ db'[I(i)] = Used(db[I(i)])
       /\ Registered(i)' = Registered(i) \/ Registered(i)' = Registered(i) \cup {r.new}

\* Every commit is one of these, for every token.
LEMMA CommitTokens ==
    ASSUME IInv, NEW p \in Procs, Commit(p), NEW i \in Initials
    PROVE  TokenStep(i, req[p])
<1>1. CASE I(i) \notin DOMAIN req[p].tx.writes
      BY <1>1, CommitEffect DEF TokenStep
<1>2. CASE I(i) \in DOMAIN req[p].tx.writes
      BY <1>2, CommitEffect DEF TokenStep, Writes
<1> QED BY <1>1, <1>2

\* A step on a token keeps its count within its quota.
LEMMA TokenCounts ==
    ASSUME IInv, NEW p \in Procs, NEW i \in Initials, TokenStep(i, req[p])
    PROVE  /\ IsFiniteSet(Registered(i)')
           /\ db'[I(i)] = Absent => Registered(i)' = {}
           /\ db'[I(i)] # Absent =>
                 /\ db'[I(i)] \in Initial
                 /\ Cardinality(Registered(i)') <= db'[I(i)].uses
                 /\ db'[I(i)].uses <= db'[I(i)].max
<1>1. /\ IsFiniteSet(Registered(i))
      /\ db[I(i)] = Absent => Registered(i) = {}
      /\ db[I(i)] # Absent => /\ db[I(i)] \in Initial
                              /\ Cardinality(Registered(i)) <= db[I(i)].uses
                              /\ db[I(i)].uses <= db[I(i)].max
      BY DEF IInv, Counts
<1>2. CASE db'[I(i)] = db[I(i)] /\ Registered(i)' = Registered(i)
      BY <1>1, <1>2
<1>3. CASE /\ req[p].op = "issue" /\ i = req[p].new /\ db'[I(i)] = New(req[p].arg)
           /\ Registered(i)' = Registered(i)
      <2>1. req[p].arg \in Nat \ {0} /\ db[I(i)] = Absent
            BY <1>3, AccountsAssumption DEF IInv, RequestsNamed, Named
      <2>2. Cardinality(Registered(i)') = 0 BY <2>1, <1>1, <1>3, FS_EmptySet
      <2> QED BY <1>1, <1>3, <2>1, <2>2, AccountsAssumption DEF New, Initial
<1>4. CASE /\ Usable(db[I(i)]) /\ db'[I(i)] = Revoked(db[I(i)])
           /\ Registered(i)' = Registered(i)
      BY <1>1, <1>4, AccountsAssumption DEF Usable, Revoked, Initial
<1>5. CASE /\ Usable(db[I(i)]) /\ db'[I(i)] = Used(db[I(i)])
           /\ Registered(i)' = Registered(i) \/ Registered(i)' = Registered(i) \cup {req[p].new}
      <2>1. /\ db'[I(i)] \in Initial /\ db'[I(i)] # Absent
            /\ db'[I(i)].uses = db[I(i)].uses + 1 /\ db'[I(i)].max = db[I(i)].max
            /\ db[I(i)].uses < db[I(i)].max
            /\ db[I(i)].uses \in Nat /\ db[I(i)].max \in Nat
            BY <1>1, <1>5, AccountsAssumption DEF Usable, Used, Initial
      <2>2. /\ IsFiniteSet(Registered(i)')
            /\ Cardinality(Registered(i)') <= Cardinality(Registered(i)) + 1
            <3>1. IsFiniteSet(Registered(i)) /\ Cardinality(Registered(i)) \in Nat
                  BY <1>1, FS_CardinalityType
            <3> DEFINE T == Registered(i) \cup {req[p].new}
            <3>2. /\ IsFiniteSet(T)
                  /\ \/ Cardinality(T) = Cardinality(Registered(i))
                     \/ Cardinality(T) = Cardinality(Registered(i)) + 1
                  BY <3>1, FS_AddElement
            <3> HIDE DEF T
            <3>3. CASE Registered(i)' = Registered(i) BY <3>1, <3>3
            <3>4. CASE Registered(i)' = T BY <3>1, <3>2, <3>4
            <3> QED BY <1>5, <3>3, <3>4 DEF T
      <2>3. /\ Cardinality(Registered(i)) \in Nat /\ Cardinality(Registered(i)') \in Nat
            /\ Cardinality(Registered(i)) <= db[I(i)].uses
            BY <1>1, <1>5, <2>2, FS_CardinalityType DEF Usable
      <2>4. Cardinality(Registered(i)') <= db'[I(i)].uses
            BY <2>1, <2>2, <2>3
      <2> QED BY <2>1, <2>2, <2>4
<1> QED BY <1>2, <1>3, <1>4, <1>5 DEF TokenStep

\* A commit ends its request and marks the others.
LEMMA CommitIInv ==
    ASSUME IInv, NEW p \in Procs, Commit(p)
    PROVE  IInv'
<1>1. /\ DOMAIN req' = Procs /\ req'[p] = Idle
      /\ \A q \in Procs : q # p =>
            req'[q] = IF req[q].open THEN [req[q] EXCEPT !.tx = After(@, req[p].tx)]
                      ELSE req[q]
      BY DEF Commit, InWrite
<1>2. /\ DOMAIN Idle = ReqFields /\ Idle.tx = NoTx /\ Idle.open = FALSE
      /\ Idle.op = "idle" /\ Idle.new = Nobody
      BY DEF Idle, Request, ReqFields
<1>3. DOMAIN NoTx = TxFields BY DEF NoTx, Open, TxFields
<1>4. ASSUME NEW q \in Procs, q # p
      PROVE  /\ DOMAIN req'[q] = ReqFields /\ DOMAIN req'[q].tx = TxFields
             /\ req'[q].op = req[q].op /\ req'[q].on = req[q].on
             /\ req'[q].arg = req[q].arg /\ req'[q].new = req[q].new
             /\ req'[q].open = req[q].open
             /\ req'[q] = Idle \/ req'[q].op \in Ops
      <2>1. CASE req[q].open
            <3>1. req'[q] = [req[q] EXCEPT !.tx = After(@, req[p].tx)] BY <1>1, <1>4, <2>1
            <3>2. DOMAIN req[q] = ReqFields /\ DOMAIN req[q].tx = TxFields BY DEF IInv, Shaped
            <3>3. DOMAIN After(req[q].tx, req[p].tx) = TxFields BY <3>2 DEF After
            <3>4. req[q].op \in Ops BY <1>2, <2>1 DEF IInv, Shaped
            <3> QED BY <3>1, <3>2, <3>3, <3>4 DEF ReqFields
      <2>2. CASE ~req[q].open BY <1>1, <1>4, <2>2 DEF IInv, Shaped
      <2> QED BY <2>1, <2>2
<1>5. drawn' = drawn BY DEF Commit
<1>6. DOMAIN db' = Item BY DEF Commit, Merge, IInv, Shaped
<1>7. \A i \in Initials : TokenStep(i, req[p]) BY CommitTokens
<1>8. Shaped' BY <1>1, <1>2, <1>3, <1>4, <1>6 DEF IInv, Shaped
<1>9. KeysDrawn'
      <2>1. \A i \in Initials : db'[I(i)] # Absent => i \in drawn
            <3> SUFFICES ASSUME NEW i \in Initials, db'[I(i)] # Absent PROVE i \in drawn
                OBVIOUS
            <3>1. db[I(i)] # Absent => i \in drawn BY DEF IInv, KeysDrawn
            <3>2. req[p].op = "issue" => req[p].new # Nobody
                  BY AccountsAssumption DEF IInv, RequestsNamed, Named
            <3>3. req[p].op = "issue" => req[p].new \in drawn
                  BY <3>2 DEF IInv, KeysDrawn
            <3>4. \/ db'[I(i)] = db[I(i)] \/ Usable(db[I(i)])
                  \/ req[p].op = "issue" /\ i = req[p].new
                  BY <1>7 DEF TokenStep
            <3> QED BY <3>1, <3>3, <3>4 DEF Usable
      <2> QED BY <1>1, <1>2, <1>4, <1>5, <2>1 DEF IInv, KeysDrawn
<1>10. RequestsNamed'
      <2>1. ASSUME NEW q \in Procs, q # p PROVE Named(req'[q])
            BY <1>4, <2>1, SameRequest DEF IInv, RequestsNamed
      <2>2. ASSUME NEW q \in Procs, q # p, req'[q].op = "issue"
            PROVE  db'[I(req'[q].new)] = Absent
            <3>1. req[q].op = "issue" /\ req'[q].new = req[q].new BY <1>4, <2>2
            <3>2. req[q].new \in Initials /\ db[I(req[q].new)] = Absent
                  BY <3>1 DEF IInv, RequestsNamed, Named
            <3>3. req[q].new # req[p].new
                  BY <2>2, <3>2, AccountsAssumption DEF IInv, KeysDrawn
            <3> QED BY <1>7, <3>1, <3>2, <3>3 DEF TokenStep, Usable
      <2> QED BY <1>1, <1>2, <2>1, <2>2 DEF RequestsNamed, Named
<1>11. Pending'
      <2> SUFFICES ASSUME NEW q \in Procs, req'[q].open, ~req'[q].tx.lost
                   PROVE  Prepared(req'[q], db', req'[q].tx.writes)
          BY DEF Pending
      <2>1. q # p /\ req[q].open BY <1>1, <1>2, <1>4
      <2>2. req'[q] = [req[q] EXCEPT !.tx = After(@, req[p].tx)] BY <1>1, <2>1
      <2>3. req'[q].tx = After(req[q].tx, req[p].tx)
            BY <2>2 DEF IInv, Shaped, ReqFields
      <2>4. /\ req'[q].tx.writes = req[q].tx.writes
            /\ ~req[q].tx.lost
            /\ DOMAIN req[q].tx.writes \cap DOMAIN req[p].tx.writes = {}
            BY <2>3 DEF After, IInv, Shaped, TxFields
      <2>5. Prepared(req[q], db, req[q].tx.writes) BY <2>1, <2>4 DEF IInv, Pending
      <2>6. \A i \in Initials : I(i) \in DOMAIN req[q].tx.writes => db'[I(i)] = db[I(i)]
            BY <2>4, CommitEffect
      <2>7. Prepared(req[q], db', req[q].tx.writes)
            BY <2>5, <2>6 DEF Prepared, Writes
      <2> QED BY <1>4, <2>1, <2>4, <2>7, SameRequest
<1>12. Counts' BY <1>7, TokenCounts DEF Counts
<1> QED BY <1>8, <1>9, <1>10, <1>11, <1>12 DEF IInv

\* What every step preserves.
LEMMA NextIInv == IInv /\ [Next]_vars => IInv'
<1> SUFFICES ASSUME IInv, [Next]_vars PROVE IInv' OBVIOUS
<1>1. CASE UNCHANGED vars
      BY <1>1 DEF vars, IInv, Shaped, KeysDrawn, RequestsNamed, Pending, Prepared, Writes,
                  Registers, Counts, Registered
<1>2. ASSUME NEW p \in Procs, NEW op \in Ops, Arrive(p, op) PROVE IInv' BY <1>2, ArriveIInv
<1>3. ASSUME NEW p \in Procs, Begin(p) PROVE IInv' BY <1>3, BeginIInv
<1>4. ASSUME NEW p \in Procs, Commit(p) PROVE IInv' BY <1>4, CommitIInv
<1>5. ASSUME NEW p \in Procs, Retry(p) PROVE IInv' BY <1>5, RetryIInv
<1>6. ASSUME NEW p \in Procs, Fail(p) PROVE IInv' BY <1>6, FailIInv
<1> QED BY <1>1, <1>2, <1>3, <1>4, <1>5, <1>6 DEF Next, Step

\* An initial access token registers no more clients than it allows, whatever
\* the backend and however many registrations work on it at once
\* (RegisterClient, registration.go).
THEOREM QuotaHeld == Spec => []Quota
<1>1. IInv => Quota
      <2> SUFFICES ASSUME IInv, NEW i \in Initials, db[I(i)] # Absent
                   PROVE  Cardinality(Registered(i)) <= db[I(i)].max
          BY DEF Quota
      <2>1. /\ IsFiniteSet(Registered(i)) /\ db[I(i)] \in Initial
            /\ Cardinality(Registered(i)) <= db[I(i)].uses
            /\ db[I(i)].uses <= db[I(i)].max
            BY DEF IInv, Counts
      <2>2. Cardinality(Registered(i)) \in Nat BY <2>1, FS_CardinalityType
      <2> QED BY <2>1, <2>2 DEF Initial
<1> QED BY InitIInv, NextIInv, <1>1, PTL DEF Spec

\* A revoked initial access token stays as it is and registers nothing more,
\* whatever was under way when it was revoked (RevokeInitialToken,
\* registration.go).
THEOREM RevocationFinal == Spec => RevokedFinal
<1>1. IInv /\ [Next]_vars =>
        [\A i \in Initials : (db[I(i)] # Absent /\ db[I(i)].revoked) =>
            db'[I(i)] = db[I(i)] /\ Registered(i)' = Registered(i)]_vars
      <2> SUFFICES ASSUME IInv, [Next]_vars, NEW i \in Initials,
                          db[I(i)] # Absent, db[I(i)].revoked
                   PROVE  db'[I(i)] = db[I(i)] /\ Registered(i)' = Registered(i)
          OBVIOUS
      <2>1. CASE UNCHANGED <<db, born>> BY <2>1 DEF Registered
      <2>2. ASSUME NEW p \in Procs, Commit(p)
            PROVE  db'[I(i)] = db[I(i)] /\ Registered(i)' = Registered(i)
            <3>1. req[p].op = "issue" => i # req[p].new BY DEF IInv, RequestsNamed
            <3> QED BY <2>2, <3>1, CommitTokens DEF TokenStep, Usable
      <2> QED BY <2>1, <2>2 DEF Next, Step, Arrive, Begin, Retry, Fail, vars
<1> QED BY InitIInv, NextIInv, <1>1, PTL DEF Spec, RevokedFinal

(***************************************************************************)
(* The rules about accounts, sessions and clients that a transaction can   *)
(* break although every record it writes is its own: an administrator      *)
(* remains, the first-run form makes one account, an open session has the  *)
(* credentials of its account, a registration access token has its client, *)
(* and a session's ID names one record.                                    *)
(*                                                                         *)
(* Safe is what the first four say of a database.  Ready says of a         *)
(* transaction what it may write into a database that is Safe, so that the *)
(* result is too (SafeStays), and what it must have read to know that.     *)
(* Every callback is Ready when it has run (CallbackFit).  The transaction *)
(* is Ready still when others have committed, or it can commit no more     *)
(* (ReadyStays): two transactions of which one breaks what the other       *)
(* relies on have each read what the other writes, and SERIALIZABLE        *)
(* refuses a transaction with a conflict in and a conflict out.  The file  *)
(* store runs one at a time (Alone).  MongoDB compares no reads, and only  *)
(* TypeCorrect and OneRecord are about it.                                 *)
(***************************************************************************)
(***************************************************************************)
(* Rules that span records, on the backends that are serializable.         *)
(***************************************************************************)
ActiveUser(v) == v # Absent /\ v.active
ActiveAdmin(v) == ActiveUser(v) /\ v.role = "admin"
IsFirst(v) == v # Absent /\ v.first
Opened(v) == v # Absent /\ ~v.ended
Current(d, v) == ActiveUser(d[U(v.user)]) /\ d[U(v.user)].cred = v.cred
HasUsers(d) == \E u \in Users : d[U(u)] # Absent
HasAdmin(d) == \E u \in Users : ActiveAdmin(d[U(u)])

\* what the rules say of a database
AdminKept(d) == HasUsers(d) => HasAdmin(d)
FirstOnce(d) == \A u, o \in Users : IsFirst(d[U(u)]) /\ IsFirst(d[U(o)]) => u = o
SessionsCurrent(d) == \A h \in Hashes : Opened(d[S(h)]) => Current(d, d[S(h)])
CredentialsOwned(d) == \A c \in Clients : d[R(c)] # Absent => d[C(c)] # Absent
Safe(d) == AdminKept(d) /\ FirstOnce(d) /\ SessionsCurrent(d) /\ CredentialsOwned(d)

\* What a transaction that read reads may write into d without breaking a
\* rule, and what it must have read to know: it takes the rights of an
\* administrator only if another one stays,
AdminStays(reads, w, d) ==
    /\ \A u \in Users :
          (U(u) \in DOMAIN w /\ ActiveAdmin(d[U(u)]) /\ ~ActiveAdmin(w[U(u)])) =>
              /\ AllUsers \in reads
              /\ \E o \in Users : U(o) \notin DOMAIN w /\ ActiveAdmin(d[U(o)])
    /\ \A u \in Users : (U(u) \in DOMAIN w /\ w[U(u)] # Absent) =>
          ActiveAdmin(w[U(u)]) \/ HasUsers(d)

\* makes a first account only if there is none,
FirstAlone(reads, w, d) ==
    /\ \A u, o \in Users : U(u) \in DOMAIN w /\ U(o) \in DOMAIN w => u = o
    /\ \A u \in Users : (U(u) \in DOMAIN w /\ IsFirst(w[U(u)]) /\ ~IsFirst(d[U(u)])) =>
          /\ AllUsers \in reads
          /\ \A o \in Users : ~IsFirst(d[U(o)])

\* opens a session with the credentials of its account, which it does not
\* change, or changes them and ends every session opened with them,
OpensCurrent(reads, w, d) ==
    \A h \in Hashes : (S(h) \in DOMAIN w /\ Opened(w[S(h)])) =>
        /\ U(w[S(h)].user) \in reads
        /\ U(w[S(h)].user) \notin DOMAIN w
        /\ Current(d, w[S(h)])
SameCredentials(v, x) == x # Absent /\ x.active = v.active /\ x.cred = v.cred
EndsSessions(reads, w, d) ==
    \A u \in Users : (U(u) \in DOMAIN w /\ d[U(u)] # Absent) =>
        \/ SameCredentials(d[U(u)], w[U(u)])
        \/ /\ SessionsOf(u) \in reads
           /\ \A h \in Hashes :
                 (Opened(d[S(h)]) /\ d[S(h)].user = u) => S(h) \in DOMAIN w

\* and issues a registration access token to a client that is there, or takes
\* the token of a client it removes
IssuesOwned(reads, w, d) ==
    \A c \in Clients : (R(c) \in DOMAIN w /\ w[R(c)] # Absent) =>
        /\ C(c) \in reads
        /\ IF C(c) \in DOMAIN w THEN w[C(c)] # Absent ELSE d[C(c)] # Absent
RemovesOwned(reads, w, d) ==
    \A c \in Clients : (C(c) \in DOMAIN w /\ w[C(c)] = Absent) =>
        /\ R(c) \in reads
        /\ IF R(c) \in DOMAIN w THEN w[R(c)] = Absent ELSE d[R(c)] = Absent

Ready(reads, w, d) ==
    /\ AdminStays(reads, w, d) /\ FirstAlone(reads, w, d)
    /\ OpensCurrent(reads, w, d) /\ EndsSessions(reads, w, d)
    /\ IssuesOwned(reads, w, d) /\ RemovesOwned(reads, w, d)

\* records that are there have their fields
UserAt(d, K) == \A u \in Users : U(u) \in K => d[U(u)] \in User \cup {Absent}
SessionAt(d, K) == \A h \in Hashes : S(h) \in K => d[S(h)] \in Session \cup {Absent}
ClientAt(d, K) ==
    \A c \in Clients : /\ C(c) \in K => d[C(c)] \in Client \cup {Absent}
                       /\ R(c) \in K => d[R(c)] \in {Issued, Absent}
Typed(d, K) == UserAt(d, K) /\ SessionAt(d, K) /\ ClientAt(d, K)

\* a transaction has read what it writes, and marks it and its collections
Tidy(t) ==
    /\ DOMAIN t.writes \subseteq Item
    /\ DOMAIN t.writes \subseteq t.reads
    /\ DOMAIN t.writes \subseteq t.marks
    /\ Typed(t.writes, DOMAIN t.writes)
    /\ \A u \in Users : U(u) \in DOMAIN t.writes => AllUsers \in t.marks
    /\ \A h \in Hashes : (S(h) \in DOMAIN t.writes /\ t.writes[S(h)] # Absent) =>
          SessionsOf(t.writes[S(h)].user) \in t.marks

\* Users', sessions', clients' and their tokens' items are items of their own.
LEMMA Kinds ==
    /\ \A u \in Users : U(u) \in Item
    /\ \A h \in Hashes : S(h) \in Item
    /\ \A c \in Clients : C(c) \in Item /\ R(c) \in Item
    /\ \A x, y : /\ U(x) # S(y) /\ U(x) # C(y) /\ U(x) # R(y) /\ S(x) # C(y) /\ S(x) # R(y)
                 /\ C(x) # R(y)
                 /\ U(x) = U(y) => x = y
                 /\ S(x) = S(y) => x = y
                 /\ C(x) = C(y) => x = y
                 /\ R(x) = R(y) => x = y
BY DEF U, S, C, R, Item

\* What Merge leaves and what it replaces.
LEMMA Merged ==
    ASSUME NEW d, DOMAIN d = Item, NEW w
    PROVE  /\ DOMAIN Merge(d, w) = Item
           /\ \A k \in Item : k \in DOMAIN w => Merge(d, w)[k] = w[k]
           /\ \A k \in Item : k \notin DOMAIN w => Merge(d, w)[k] = d[k]
BY DEF Merge

\* A commit keeps the rule about administrators: if it takes the rights of
\* one, another one stays.
LEMMA AdminCommit ==
    ASSUME NEW d, DOMAIN d = Item, NEW w, NEW reads,
           AdminKept(d), AdminStays(reads, w, d)
    PROVE  /\ AdminKept(Merge(d, w))
           /\ HasUsers(d) => HasUsers(Merge(d, w))
<1> DEFINE m == Merge(d, w)
<1>1. /\ \A u \in Users : U(u) \in DOMAIN w => m[U(u)] = w[U(u)]
      /\ \A u \in Users : U(u) \notin DOMAIN w => m[U(u)] = d[U(u)]
      BY Merged, Kinds
<1> HIDE DEF m
<1>2. HasAdmin(d) => HasAdmin(m)
      <2> SUFFICES ASSUME NEW a \in Users, ActiveAdmin(d[U(a)]) PROVE HasAdmin(m)
          BY DEF HasAdmin
      <2>1. CASE U(a) \notin DOMAIN w BY <1>1, <2>1 DEF HasAdmin
      <2>2. CASE U(a) \in DOMAIN w /\ ActiveAdmin(w[U(a)]) BY <1>1, <2>2 DEF HasAdmin
      <2>3. CASE U(a) \in DOMAIN w /\ ~ActiveAdmin(w[U(a)])
            BY <1>1, <2>3 DEF AdminStays, HasAdmin
      <2> QED BY <2>1, <2>2, <2>3
<1>3. HasAdmin(m) => HasUsers(m) BY DEF HasAdmin, HasUsers, ActiveAdmin, ActiveUser
<1>4. HasUsers(m) => HasAdmin(m)
      <2> SUFFICES ASSUME NEW u \in Users, m[U(u)] # Absent PROVE HasAdmin(m)
          BY DEF HasUsers
      <2>1. CASE HasUsers(d) BY <1>2, <2>1 DEF AdminKept
      <2>2. CASE ~HasUsers(d) /\ U(u) \in DOMAIN w
            BY <1>1, <2>2 DEF AdminStays, HasAdmin
      <2>3. CASE ~HasUsers(d) /\ U(u) \notin DOMAIN w
            BY <1>1, <2>3 DEF HasUsers
      <2> QED BY <2>1, <2>2, <2>3
<1> QED BY <1>2, <1>3, <1>4 DEF AdminKept, m

\* A commit keeps every rule.
LEMMA SafeStays ==
    ASSUME NEW d, DOMAIN d = Item, Typed(d, Item), NEW w, NEW reads,
           Safe(d), Ready(reads, w, d), Typed(w, DOMAIN w)
    PROVE  Safe(Merge(d, w))
<1> DEFINE m == Merge(d, w)
<1>1. /\ \A k \in Item : k \in DOMAIN w => m[k] = w[k]
      /\ \A k \in Item : k \notin DOMAIN w => m[k] = d[k]
      BY Merged
<1>2. AdminKept(m) BY AdminCommit DEF Safe, Ready
<1> HIDE DEF m
<1>3. FirstOnce(m)
      BY <1>1, Kinds DEF Safe, FirstOnce, Ready, FirstAlone
<1>4. SessionsCurrent(m)
      <2> SUFFICES ASSUME NEW h \in Hashes, Opened(m[S(h)])
                   PROVE  Current(m, m[S(h)])
          BY DEF SessionsCurrent
      <2>1. CASE S(h) \in DOMAIN w
            <3>1. m[S(h)] = w[S(h)] BY <1>1, <2>1, Kinds
            <3>2. w[S(h)].user \in Users
                  BY <2>1, <3>1 DEF Typed, SessionAt, Session, Opened
            <3>3. /\ U(w[S(h)].user) \notin DOMAIN w /\ Current(d, w[S(h)])
                  BY <2>1, <3>1 DEF Ready, OpensCurrent
            <3> QED BY <1>1, <3>1, <3>2, <3>3, Kinds DEF Current
      <2>2. CASE S(h) \notin DOMAIN w
            <3> DEFINE u == d[S(h)].user
            <3>1. m[S(h)] = d[S(h)] BY <1>1, <2>2, Kinds
            <3>2. u \in Users
                  BY <3>1, Kinds DEF Typed, SessionAt, Session, Opened
            <3>3. Current(d, d[S(h)]) BY <3>1 DEF Safe, SessionsCurrent
            <3>4. CASE U(u) \notin DOMAIN w
                  BY <1>1, <3>1, <3>2, <3>3, <3>4, Kinds DEF Current
            <3>5. CASE U(u) \in DOMAIN w
                  <4>1. d[U(u)] # Absent BY <3>3 DEF Current, ActiveUser
                  <4>2. SameCredentials(d[U(u)], w[U(u)])
                        BY <2>2, <3>1, <3>2, <3>5, <4>1 DEF Ready, EndsSessions
                  <4>3. m[U(u)] = w[U(u)] BY <1>1, <3>2, <3>5, Kinds
                  <4> QED BY <3>1, <3>3, <4>2, <4>3
                          DEF Current, ActiveUser, SameCredentials
            <3> QED BY <3>4, <3>5
      <2> QED BY <2>1, <2>2
<1>5. CredentialsOwned(m)
      BY <1>1, Kinds DEF Safe, CredentialsOwned, Ready, IssuesOwned, RemovesOwned
<1> QED BY <1>2, <1>3, <1>4, <1>5 DEF Safe, m

(***************************************************************************)
(* What another transaction's commit leaves of this.  Two transactions     *)
(* that could spoil each other's rule have each read what the other        *)
(* writes, and a transaction with a conflict in and a conflict out does    *)
(* not commit.                                                             *)
(***************************************************************************)
\* t, open while c commits, may still commit as far as the two go
Compatible(t, c) ==
    /\ DOMAIN t.writes \cap DOMAIN c.writes = {}
    /\ ~(Missed(t, c) /\ Missed(c, t))

\* What is asked of t and c, and d, below.
Meeting(t, c, d) ==
    /\ DOMAIN d = Item /\ Typed(d, Item) /\ Safe(d)
    /\ Tidy(t) /\ Tidy(c) /\ Compatible(t, c)
    /\ Ready(t.reads, t.writes, d) /\ Ready(c.reads, c.writes, d)

\* What c wrote is in the database and t does not write it.
LEMMA AfterMeeting ==
    ASSUME NEW t, NEW c, NEW d, Meeting(t, c, d)
    PROVE  LET m == Merge(d, c.writes) IN
           /\ \A k \in Item : k \in DOMAIN c.writes => m[k] = c.writes[k]
           /\ \A k \in Item : k \notin DOMAIN c.writes => m[k] = d[k]
           /\ \A k \in Item : k \in DOMAIN t.writes => k \notin DOMAIN c.writes /\ m[k] = d[k]
<1>1. DOMAIN d = Item BY DEF Meeting
<1>2. \A k : k \in DOMAIN t.writes => k \notin DOMAIN c.writes
      BY DEF Meeting, Compatible
<1> QED BY <1>1, <1>2, Merged

\* Two transactions of which each read what the other marks do not meet.
LEMMA Crossing ==
    ASSUME NEW t, NEW c, NEW d, Meeting(t, c, d),
           NEW x, x \in t.reads, x \in c.marks,
           NEW y, y \in c.reads, y \in t.marks
    PROVE  FALSE
BY DEF Meeting, Compatible, Missed

\* If t takes the rights of an administrator, c did not take the other's.
LEMMA AdminMeets ==
    ASSUME NEW t, NEW c, NEW d, Meeting(t, c, d)
    PROVE  AdminStays(t.reads, t.writes, Merge(d, c.writes))
<1> DEFINE m == Merge(d, c.writes)
           w == t.writes
<1>1. /\ \A u \in Users : U(u) \in DOMAIN c.writes => m[U(u)] = c.writes[U(u)]
      /\ \A u \in Users : U(u) \notin DOMAIN c.writes => m[U(u)] = d[U(u)]
      /\ \A u \in Users : U(u) \in DOMAIN w => m[U(u)] = d[U(u)]
      BY AfterMeeting, Kinds
<1>2. AdminStays(t.reads, w, d) BY DEF Meeting, Ready
<1>3. HasUsers(d) => HasUsers(m)
      BY AdminCommit DEF Meeting, Ready, Safe
<1> HIDE DEF m
<1>4. ASSUME NEW u \in Users, U(u) \in DOMAIN w, ActiveAdmin(m[U(u)]), ~ActiveAdmin(w[U(u)])
      PROVE  /\ AllUsers \in t.reads
             /\ \E o \in Users : U(o) \notin DOMAIN w /\ ActiveAdmin(m[U(o)])
      <2>1. ActiveAdmin(d[U(u)]) BY <1>1, <1>4
      <2>2. AllUsers \in t.reads BY <1>2, <1>4, <2>1 DEF AdminStays
      <2>3. PICK o \in Users : U(o) \notin DOMAIN w /\ ActiveAdmin(d[U(o)])
            BY <1>2, <1>4, <2>1 DEF AdminStays
      <2>4. ActiveAdmin(m[U(o)])
            <3> SUFFICES ASSUME ~ActiveAdmin(m[U(o)]) PROVE FALSE OBVIOUS
            <3>1. U(o) \in DOMAIN c.writes /\ ~ActiveAdmin(c.writes[U(o)])
                  BY <1>1, <2>3
            <3>2. AllUsers \in c.reads /\ AllUsers \in c.marks
                  BY <2>3, <3>1 DEF Meeting, Ready, AdminStays, Tidy
            <3>3. AllUsers \in t.marks BY <1>4 DEF Meeting, Tidy
            <3> QED BY <2>2, <3>2, <3>3, Crossing
      <2> QED BY <2>2, <2>3, <2>4
<1>5. ASSUME NEW u \in Users, U(u) \in DOMAIN w, w[U(u)] # Absent
      PROVE  ActiveAdmin(w[U(u)]) \/ HasUsers(m)
      BY <1>2, <1>3, <1>5 DEF AdminStays
<1> QED BY <1>4, <1>5 DEF AdminStays, m

\* If t makes the first account, c did not.
LEMMA FirstMeets ==
    ASSUME NEW t, NEW c, NEW d, Meeting(t, c, d)
    PROVE  FirstAlone(t.reads, t.writes, Merge(d, c.writes))
<1> DEFINE m == Merge(d, c.writes)
           w == t.writes
<1>1. /\ \A u \in Users : U(u) \in DOMAIN c.writes => m[U(u)] = c.writes[U(u)]
      /\ \A u \in Users : U(u) \notin DOMAIN c.writes => m[U(u)] = d[U(u)]
      /\ \A u \in Users : U(u) \in DOMAIN w => m[U(u)] = d[U(u)]
      BY AfterMeeting, Kinds
<1>2. FirstAlone(t.reads, w, d) BY DEF Meeting, Ready
<1> HIDE DEF m
<1>3. ASSUME NEW u \in Users, U(u) \in DOMAIN w, IsFirst(w[U(u)]), ~IsFirst(m[U(u)])
      PROVE  AllUsers \in t.reads /\ \A o \in Users : ~IsFirst(m[U(o)])
      <2>1. AllUsers \in t.reads /\ \A o \in Users : ~IsFirst(d[U(o)])
            BY <1>1, <1>2, <1>3 DEF FirstAlone
      <2>2. ASSUME NEW o \in Users, IsFirst(m[U(o)]) PROVE FALSE
            <3>1. U(o) \in DOMAIN c.writes /\ IsFirst(c.writes[U(o)]) /\ ~IsFirst(d[U(o)])
                  BY <1>1, <2>1, <2>2
            <3>2. AllUsers \in c.reads /\ AllUsers \in c.marks
                  BY <3>1 DEF Meeting, Ready, FirstAlone, Tidy
            <3>3. AllUsers \in t.marks BY <1>3 DEF Meeting, Tidy
            <3> QED BY <2>1, <3>2, <3>3, Crossing
      <2> QED BY <2>1, <2>2
<1> QED BY <1>2, <1>3 DEF FirstAlone, m

\* If t opens a session, c did not change its account's credentials.
LEMMA OpensMeets ==
    ASSUME NEW t, NEW c, NEW d, Meeting(t, c, d)
    PROVE  OpensCurrent(t.reads, t.writes, Merge(d, c.writes))
<1> DEFINE m == Merge(d, c.writes)
           w == t.writes
<1>1. /\ \A u \in Users : U(u) \in DOMAIN c.writes => m[U(u)] = c.writes[U(u)]
      /\ \A u \in Users : U(u) \notin DOMAIN c.writes => m[U(u)] = d[U(u)]
      BY AfterMeeting, Kinds
<1> HIDE DEF m
<1> SUFFICES ASSUME NEW h \in Hashes, S(h) \in DOMAIN w, Opened(w[S(h)])
             PROVE  /\ U(w[S(h)].user) \in t.reads /\ U(w[S(h)].user) \notin DOMAIN w
                    /\ Current(m, w[S(h)])
    BY DEF OpensCurrent, m
<1> DEFINE u == w[S(h)].user
<1>2. U(u) \in t.reads /\ U(u) \notin DOMAIN w /\ Current(d, w[S(h)])
      BY DEF Meeting, Ready, OpensCurrent
<1>3. u \in Users /\ SessionsOf(u) \in t.marks
      BY DEF Meeting, Tidy, Typed, SessionAt, Session, Opened
<1>4. d[U(u)] # Absent BY <1>2 DEF Current, ActiveUser
<1>5. CASE U(u) \notin DOMAIN c.writes
      BY <1>1, <1>2, <1>3, <1>5 DEF Current
<1>6. CASE U(u) \in DOMAIN c.writes
      <2>1. U(u) \in c.marks BY <1>6 DEF Meeting, Tidy
      <2>2. SessionsOf(u) \notin c.reads BY <1>2, <1>3, <2>1, Crossing
      <2>3. SameCredentials(d[U(u)], c.writes[U(u)])
            BY <1>3, <1>4, <1>6, <2>2 DEF Meeting, Ready, EndsSessions
      <2>4. m[U(u)] = c.writes[U(u)] BY <1>1, <1>3, <1>6
      <2> QED BY <1>2, <2>3, <2>4 DEF Current, ActiveUser, SameCredentials
<1> QED BY <1>2, <1>5, <1>6

\* If t changes an account's credentials, c opened no session with them.
LEMMA EndsMeets ==
    ASSUME NEW t, NEW c, NEW d, Meeting(t, c, d)
    PROVE  EndsSessions(t.reads, t.writes, Merge(d, c.writes))
<1> DEFINE m == Merge(d, c.writes)
           w == t.writes
<1>1. /\ \A u \in Users : U(u) \in DOMAIN w => m[U(u)] = d[U(u)]
      /\ \A h \in Hashes : S(h) \in DOMAIN c.writes => m[S(h)] = c.writes[S(h)]
      /\ \A h \in Hashes : S(h) \notin DOMAIN c.writes => m[S(h)] = d[S(h)]
      BY AfterMeeting, Kinds
<1> HIDE DEF m
<1> SUFFICES ASSUME NEW u \in Users, U(u) \in DOMAIN w, m[U(u)] # Absent,
                    ~SameCredentials(m[U(u)], w[U(u)])
             PROVE  /\ SessionsOf(u) \in t.reads
                    /\ \A h \in Hashes :
                          (Opened(m[S(h)]) /\ m[S(h)].user = u) => S(h) \in DOMAIN w
    BY DEF EndsSessions, m
<1>2. /\ SessionsOf(u) \in t.reads
      /\ \A h \in Hashes : (Opened(d[S(h)]) /\ d[S(h)].user = u) => S(h) \in DOMAIN w
      BY <1>1 DEF Meeting, Ready, EndsSessions
<1>3. ASSUME NEW h \in Hashes, Opened(m[S(h)]), m[S(h)].user = u, S(h) \notin DOMAIN w
      PROVE  FALSE
      <2>1. S(h) \in DOMAIN c.writes /\ m[S(h)] = c.writes[S(h)] BY <1>1, <1>2, <1>3
      <2>2. U(u) \in c.reads BY <1>3, <2>1 DEF Meeting, Ready, OpensCurrent
      <2>3. SessionsOf(u) \in c.marks BY <1>3, <2>1 DEF Meeting, Tidy, Opened
      <2>4. U(u) \in t.marks BY DEF Meeting, Tidy
      <2> QED BY <1>2, <2>2, <2>3, <2>4, Crossing
<1> QED BY <1>2, <1>3

\* If t issues a client's token, c did not remove the client.
LEMMA IssuesMeets ==
    ASSUME NEW t, NEW c, NEW d, Meeting(t, c, d)
    PROVE  IssuesOwned(t.reads, t.writes, Merge(d, c.writes))
<1> DEFINE m == Merge(d, c.writes)
           w == t.writes
<1>1. /\ \A x \in Clients : C(x) \in DOMAIN c.writes => m[C(x)] = c.writes[C(x)]
      /\ \A x \in Clients : C(x) \notin DOMAIN c.writes => m[C(x)] = d[C(x)]
      BY AfterMeeting, Kinds
<1> HIDE DEF m
<1> SUFFICES ASSUME NEW x \in Clients, R(x) \in DOMAIN w, w[R(x)] # Absent
             PROVE  /\ C(x) \in t.reads
                    /\ IF C(x) \in DOMAIN w THEN w[C(x)] # Absent ELSE m[C(x)] # Absent
    BY DEF IssuesOwned, m
<1>2. /\ C(x) \in t.reads
      /\ IF C(x) \in DOMAIN w THEN w[C(x)] # Absent ELSE d[C(x)] # Absent
      BY DEF Meeting, Ready, IssuesOwned
<1>3. ASSUME C(x) \in DOMAIN c.writes, c.writes[C(x)] = Absent PROVE FALSE
      <2>1. R(x) \in c.reads BY <1>3 DEF Meeting, Ready, RemovesOwned
      <2>2. C(x) \in c.marks /\ R(x) \in t.marks BY <1>3 DEF Meeting, Tidy
      <2> QED BY <1>2, <2>1, <2>2, Crossing
<1> QED BY <1>1, <1>2, <1>3
\* If t removes a client, c issued it no token.
LEMMA RemovesMeets ==
    ASSUME NEW t, NEW c, NEW d, Meeting(t, c, d)
    PROVE  RemovesOwned(t.reads, t.writes, Merge(d, c.writes))
<1> DEFINE m == Merge(d, c.writes)
           w == t.writes
<1>1. /\ \A x \in Clients : R(x) \in DOMAIN c.writes => m[R(x)] = c.writes[R(x)]
      /\ \A x \in Clients : R(x) \notin DOMAIN c.writes => m[R(x)] = d[R(x)]
      BY AfterMeeting, Kinds
<1> HIDE DEF m
<1> SUFFICES ASSUME NEW x \in Clients, C(x) \in DOMAIN w, w[C(x)] = Absent
             PROVE  /\ R(x) \in t.reads
                    /\ IF R(x) \in DOMAIN w THEN w[R(x)] = Absent ELSE m[R(x)] = Absent
    BY DEF RemovesOwned, m
<1>2. /\ R(x) \in t.reads
      /\ IF R(x) \in DOMAIN w THEN w[R(x)] = Absent ELSE d[R(x)] = Absent
      BY DEF Meeting, Ready, RemovesOwned
<1>3. ASSUME R(x) \in DOMAIN c.writes, c.writes[R(x)] # Absent PROVE FALSE
      <2>1. C(x) \in c.reads BY <1>3 DEF Meeting, Ready, IssuesOwned
      <2>2. R(x) \in c.marks /\ C(x) \in t.marks BY <1>3 DEF Meeting, Tidy
      <2> QED BY <1>2, <2>1, <2>2, Crossing
<1> QED BY <1>1, <1>2, <1>3

\* What t may still commit breaks no rule after c has.
LEMMA ReadyStays ==
    ASSUME NEW t, NEW c, NEW d, Meeting(t, c, d)
    PROVE  Ready(t.reads, t.writes, Merge(d, c.writes))
BY AdminMeets, FirstMeets, OpensMeets, EndsMeets, IssuesMeets, RemovesMeets DEF Ready

(***************************************************************************)
(* Callbacks again: what each may write keeps the rules.                   *)
(***************************************************************************)
\* what a request asks for
Asks(r) ==
    /\ r.by \in Hashes \cup {Nobody}
    /\ r.op \in {"bootstrap", "create"} => r.new \in Users
    /\ r.op = "create" => r.arg \in Role
    /\ r.op = "login" => r.on \in Users /\ r.new \in Hashes /\ r.id \in Hashes
    /\ r.op \in {"login", "password"} => r.seen \in Nat
    /\ r.op \in {"update", "delete"} => r.on \in Users
    /\ r.op = "update" => r.arg \in Change
    /\ r.op = "register" => r.new \in Clients
    /\ r.op \in {"manage", "remove"} => r.on \in Clients

\* an account is new, or was there
Creates(r, w, d) ==
    \A u \in Users : (U(u) \in DOMAIN w /\ w[U(u)] # Absent) =>
        d[U(u)] # Absent \/ (r.op \in {"bootstrap", "create"} /\ u = r.new)

\* what a callback that read reads, on s, for r, may write
Fit(r, reads, w, s) ==
    /\ DOMAIN w \subseteq Item
    /\ Typed(w, DOMAIN w)
    /\ Ready(reads, w, s)
    /\ Creates(r, w, s)

\* w writes, of sessions, only ends and removals
OnlyEnds(w) ==
    \A h \in Hashes : S(h) \in DOMAIN w =>
        w[S(h)] \in Session \cup {Absent} /\ ~Opened(w[S(h)])

\* A result of a callback is what it ran to.
LEMMA RanIs ==
    ASSUME NEW ok, NEW reads, NEW w, NEW id, NEW e \in Ran(ok, reads, w, id)
    PROVE  ok /\ e.reads = reads /\ e.writes = w /\ e.id = id
BY DEF Ran

\* A result of a callback that asks for an administrator is what it ran to.
LEMMA AdminIs ==
    ASSUME NEW r, NEW s, NEW ok, NEW reads, NEW w, NEW e \in ByAdmin(r, s, ok, reads, w)
    PROVE  e.reads = Seen(s, r.by) \cup reads /\ e.writes = w /\ e.id = r.id
<1> DEFINE P == Principal(s, r.by, TRUE) /\ ok
           Q == Seen(s, r.by) \cup reads
<1>1. e \in Ran(P, Q, w, r.id) BY DEF ByAdmin
<1> HIDE DEF P, Q
<1>2. e.reads = Q /\ e.writes = w /\ e.id = r.id BY <1>1, RanIs
<1> QED BY <1>2 DEF Q

\* Who is signed in has an account.
LEMMA SignedIn ==
    ASSUME NEW s, Typed(s, Item), NEW h \in Hashes \cup {Nobody},
           Principal(s, h, TRUE) \/ Principal(s, h, FALSE)
    PROVE  /\ h \in Hashes /\ Opened(s[S(h)]) /\ s[S(h)] \in Session
           /\ s[S(h)].user \in Users
           /\ s[U(s[S(h)].user)] \in User /\ s[U(s[S(h)].user)].active
           /\ HasUsers(s)
<1>1. h \in Hashes /\ Opened(s[S(h)]) BY DEF Principal, Live, Opened
<1>2. s[S(h)] \in Session BY <1>1, Kinds DEF Typed, SessionAt, Opened
<1>3. s[S(h)].user \in Users BY <1>2 DEF Session
<1>4. /\ s[U(s[S(h)].user)] # Absent /\ s[U(s[S(h)].user)].active BY DEF Principal
<1>5. s[U(s[S(h)].user)] \in User BY <1>3, <1>4, Kinds DEF Typed, UserAt
<1> QED BY <1>1, <1>2, <1>3, <1>4, <1>5 DEF HasUsers

\* Ending sessions that are there ends them.
LEMMA EndingEnds ==
    ASSUME NEW s, Typed(s, Item), NEW H \in SUBSET Hashes, \A h \in H : s[S(h)] # Absent
    PROVE  /\ DOMAIN Ending(s, H) = {S(h) : h \in H}
           /\ OnlyEnds(Ending(s, H))
<1>1. DOMAIN Ending(s, H) = {S(h) : h \in H} BY DEF Ending
<1>2. ASSUME NEW h \in Hashes, S(h) \in DOMAIN Ending(s, H)
      PROVE  Ending(s, H)[S(h)] \in Session \cup {Absent} /\ ~Opened(Ending(s, H)[S(h)])
      <2>1. h \in H BY <1>1, <1>2, Kinds
      <2>2. s[S(h)] \in Session BY <2>1, Kinds DEF Typed, SessionAt
      <2>3. Ending(s, H)[S(h)] = [s[S(h)] EXCEPT !.ended = TRUE] BY <1>1, <1>2 DEF Ending
      <2> QED BY <2>2, <2>3 DEF Session, Opened
<1> QED BY <1>1, <1>2 DEF OnlyEnds

\* Sessions of a user and sessions with an ID are there.
LEMMA LiveThere ==
    ASSUME NEW s, NEW x
    PROVE  /\ OpenOf(s, x) \subseteq Hashes /\ \A h \in OpenOf(s, x) : s[S(h)] # Absent
           /\ Sharing(s, x) \subseteq Hashes /\ \A h \in Sharing(s, x) : s[S(h)] # Absent
           /\ \A h \in Hashes : Opened(s[S(h)]) /\ s[S(h)].user = x => h \in OpenOf(s, x)
BY AccountsAssumption DEF OpenOf, Sharing, Live, Opened

\* Writing one account, and ends of sessions.
LEMMA UserWrite ==
    ASSUME NEW r, NEW s, Typed(s, Item), NEW reads, NEW u \in Users,
           NEW v \in User \cup {Absent}, NEW w,
           DOMAIN w \subseteq {U(u)} \cup {S(h) : h \in Hashes},
           U(u) \in DOMAIN w, w[U(u)] = v, OnlyEnds(w),
           (ActiveAdmin(s[U(u)]) /\ ~ActiveAdmin(v)) =>
               AllUsers \in reads /\ \E o \in Users \ {u} : ActiveAdmin(s[U(o)]),
           v # Absent => ActiveAdmin(v) \/ HasUsers(s),
           (IsFirst(v) /\ ~IsFirst(s[U(u)])) =>
               AllUsers \in reads /\ \A o \in Users : ~IsFirst(s[U(o)]),
           s[U(u)] # Absent =>
               \/ SameCredentials(s[U(u)], v)
               \/ /\ SessionsOf(u) \in reads
                  /\ \A h \in OpenOf(s, u) : S(h) \in DOMAIN w,
           v # Absent => s[U(u)] # Absent \/ (r.op \in {"bootstrap", "create"} /\ u = r.new)
    PROVE  Fit(r, reads, w, s)
<1>1. DOMAIN w \subseteq Item BY Kinds
<1>2. \A o \in Users : U(o) \in DOMAIN w => o = u BY Kinds
<1>3. \A c \in Clients : C(c) \notin DOMAIN w /\ R(c) \notin DOMAIN w BY Kinds
<1>4. Typed(w, DOMAIN w)
      BY <1>2, <1>3 DEF Typed, UserAt, SessionAt, ClientAt, OnlyEnds
<1>5. AdminStays(reads, w, s) BY <1>2 DEF AdminStays
<1>6. FirstAlone(reads, w, s) BY <1>2 DEF FirstAlone
<1>7. OpensCurrent(reads, w, s) BY DEF OpensCurrent, OnlyEnds
<1>8. EndsSessions(reads, w, s) BY <1>2, LiveThere DEF EndsSessions
<1>9. IssuesOwned(reads, w, s) /\ RemovesOwned(reads, w, s)
      BY <1>3 DEF IssuesOwned, RemovesOwned
<1>10. Creates(r, w, s) BY <1>2 DEF Creates
<1> QED BY <1>1, <1>4, <1>5, <1>6, <1>7, <1>8, <1>9, <1>10 DEF Fit, Ready

\* Writing sessions only.
LEMMA SessionWrite ==
    ASSUME NEW r, NEW s, NEW reads, NEW w,
           DOMAIN w \subseteq {S(h) : h \in Hashes}, SessionAt(w, DOMAIN w),
           OpensCurrent(reads, w, s)
    PROVE  Fit(r, reads, w, s)
<1>1. DOMAIN w \subseteq Item BY Kinds
<1>2. \A u \in Users : U(u) \notin DOMAIN w BY Kinds
<1>3. \A c \in Clients : C(c) \notin DOMAIN w /\ R(c) \notin DOMAIN w BY Kinds
<1>4. Typed(w, DOMAIN w) BY <1>2, <1>3 DEF Typed, UserAt, ClientAt
<1>5. /\ AdminStays(reads, w, s) /\ FirstAlone(reads, w, s) /\ EndsSessions(reads, w, s)
      /\ Creates(r, w, s)
      BY <1>2 DEF AdminStays, FirstAlone, EndsSessions, Creates
<1>6. IssuesOwned(reads, w, s) /\ RemovesOwned(reads, w, s)
      BY <1>3 DEF IssuesOwned, RemovesOwned
<1> QED BY <1>1, <1>4, <1>5, <1>6 DEF Fit, Ready

\* Writing a client, its token and an initial token only.
LEMMA ClientWrite ==
    ASSUME NEW r, NEW s, NEW reads, NEW w,
           DOMAIN w \subseteq {C(c) : c \in Clients} \cup {R(c) : c \in Clients}
                              \cup {I(i) : i \in Initials},
           ClientAt(w, DOMAIN w), IssuesOwned(reads, w, s), RemovesOwned(reads, w, s)
    PROVE  Fit(r, reads, w, s)
<1>1. DOMAIN w \subseteq Item BY Kinds, Items
<1>2. \A u \in Users : U(u) \notin DOMAIN w BY Kinds, Apart
<1>3. \A h \in Hashes : S(h) \notin DOMAIN w BY Kinds, Apart
<1>4. Typed(w, DOMAIN w) BY <1>2, <1>3 DEF Typed, UserAt, SessionAt
<1>5. /\ AdminStays(reads, w, s) /\ FirstAlone(reads, w, s) /\ EndsSessions(reads, w, s)
      /\ Creates(r, w, s)
      BY <1>2 DEF AdminStays, FirstAlone, EndsSessions, Creates
<1>6. OpensCurrent(reads, w, s) BY <1>3 DEF OpensCurrent
<1> QED BY <1>1, <1>4, <1>5, <1>6 DEF Fit, Ready

\* What a request for r on s, where a result is e, is given below.
Called(r, s, e) ==
    /\ Typed(s, Item) /\ Asks(r)
    /\ r.op \in {"bootstrap", "create"} => s[U(r.new)] = Absent
    /\ e \in Callback(r, s)

\* reads a result has
ReadBy(e) == e.reads \cup DOMAIN e.writes

\* An account's record with its fields.
LEMMA NewUser ==
    ASSUME NEW a \in Role, NEW f \in BOOLEAN
    PROVE  LET v == [cred |-> 0, role |-> a, active |-> TRUE, first |-> f] IN
           /\ v \in User /\ v # Absent
           /\ ActiveAdmin(v) <=> a = "admin"
           /\ IsFirst(v) <=> f
<1>1. [cred |-> 0, role |-> a, active |-> TRUE, first |-> f] \in User BY DEF User
<1> QED BY <1>1, AccountsAssumption DEF ActiveAdmin, ActiveUser, IsFirst

\* The first-run form finds no account.
LEMMA BootstrapFit ==
    ASSUME NEW r, NEW s, NEW e, Called(r, s, e), r.op = "bootstrap"
    PROVE  Fit(r, ReadBy(e), e.writes, s)
<1> DEFINE v == [cred |-> 0, role |-> "admin", active |-> TRUE, first |-> TRUE]
           w == Put(None, U(r.new), v)
<1>1. e \in Bootstrap(r, s) BY DEF Called, Callback
<1>2. /\ \A u \in Users : s[U(u)] = Absent
      /\ e.reads = {AllUsers} /\ e.writes = w
      BY <1>1 DEF Bootstrap, Ran
<1>3. r.new \in Users /\ Typed(s, Item) BY DEF Called, Asks
<1>4. v \in User /\ v # Absent /\ ActiveAdmin(v) BY NewUser DEF Role
<1> HIDE DEF v
<1>5. DOMAIN w = {U(r.new)} /\ w[U(r.new)] = v BY PutOne
<1> HIDE DEF w
<1>6. OnlyEnds(w) BY <1>5, Kinds DEF OnlyEnds
<1>7. \A u \in Users : ~ActiveAdmin(s[U(u)]) /\ ~IsFirst(s[U(u)])
      BY <1>2 DEF ActiveAdmin, ActiveUser, IsFirst
<1>8. AllUsers \in ReadBy(e) BY <1>2 DEF ReadBy
<1>9. Fit(r, ReadBy(e), w, s)
      BY <1>2, <1>3, <1>4, <1>5, <1>6, <1>7, <1>8, UserWrite
<1> QED BY <1>2, <1>9

\* An administrator adds an account.
LEMMA CreateFit ==
    ASSUME NEW r, NEW s, NEW e, Called(r, s, e), r.op = "create"
    PROVE  Fit(r, ReadBy(e), e.writes, s)
<1> DEFINE v == [cred |-> 0, role |-> r.arg, active |-> TRUE, first |-> FALSE]
           w == Put(None, U(r.new), v)
<1>1. e \in CreateUser(r, s) BY DEF Called, Callback
<1>2. Principal(s, r.by, TRUE) /\ e.writes = w
      <2>1. e \in ByAdmin(r, s, TRUE, {}, w) BY <1>1 DEF CreateUser
      <2> HIDE DEF w
      <2>2. e.writes = w BY <2>1, AdminWrites
      <2>3. Principal(s, r.by, TRUE) BY <2>1 DEF ByAdmin, Ran
      <2> QED BY <2>2, <2>3
<1>3. /\ r.new \in Users /\ r.arg \in Role /\ Typed(s, Item) /\ s[U(r.new)] = Absent
      /\ r.by \in Hashes \cup {Nobody}
      BY DEF Called, Asks
<1>4. v \in User /\ v # Absent /\ ~IsFirst(v) BY <1>3, NewUser
<1> HIDE DEF v
<1>5. DOMAIN w = {U(r.new)} /\ w[U(r.new)] = v BY PutOne
<1> HIDE DEF w
<1>6. OnlyEnds(w) BY <1>5, Kinds DEF OnlyEnds
<1>7. HasUsers(s) BY <1>2, <1>3, SignedIn
<1>8. ~ActiveAdmin(s[U(r.new)]) BY <1>3 DEF ActiveAdmin, ActiveUser
<1>9. Fit(r, ReadBy(e), w, s)
      BY <1>3, <1>4, <1>5, <1>6, <1>7, <1>8, UserWrite
<1> QED BY <1>2, <1>9

\* A sign-in opens one session, with the credentials it was checked against.
LEMMA LoginFit ==
    ASSUME NEW r, NEW s, NEW e, Called(r, s, e), r.op = "login"
    PROVE  /\ Fit(r, ReadBy(e), e.writes, s)
           /\ e.id \in Hashes
<1> DEFINE again == Live(s, r.by) /\ s[S(r.by)].user = r.on
           id  == IF again THEN s[S(r.by)].id ELSE r.id
           old == IF again THEN Put(None, S(r.by), Absent)
                  ELSE IF Live(s, r.by) THEN Ending(s, Sharing(s, s[S(r.by)].id))
                  ELSE None
           new == [id |-> id, user |-> r.on, ended |-> FALSE, cred |-> r.seen]
           w   == Put(old, S(r.new), new)
<1>1. e \in Login(r, s) BY DEF Called, Callback
<1>2. /\ Recheck(r, s) /\ e.writes = w /\ e.id = id
      /\ e.reads = {U(r.on)} \cup {S(h) : h \in {r.by} \ {Nobody}}
      BY <1>1 DEF Login, Ran
<1>3. /\ r.on \in Users /\ r.new \in Hashes /\ r.id \in Hashes /\ r.seen \in Nat
      /\ r.by \in Hashes \cup {Nobody} /\ Typed(s, Item)
      BY DEF Called, Asks
<1>4. id \in Hashes
      BY <1>3, Kinds DEF Live, Typed, SessionAt, Session
<1>5. new \in Session BY <1>3, <1>4 DEF Session
<1>6. new.user = r.on /\ new.cred = r.seen OBVIOUS
<1>7. DOMAIN old \subseteq {S(h) : h \in Hashes} /\ OnlyEnds(old)
      <2>1. CASE again
            <3>1. r.by \in Hashes BY <1>3, <2>1 DEF Live
            <3>2. DOMAIN old = {S(r.by)} /\ old[S(r.by)] = Absent BY <2>1, PutOne
            <3> HIDE DEF old
            <3> QED BY <3>1, <3>2, Kinds DEF OnlyEnds, Opened
      <2>2. CASE ~again /\ Live(s, r.by)
            <3> DEFINE H == Sharing(s, s[S(r.by)].id)
            <3>1. H \in SUBSET Hashes /\ \A h \in H : s[S(h)] # Absent BY LiveThere
            <3>2. old = Ending(s, H) BY <2>2
            <3> HIDE DEF H, old
            <3>3. DOMAIN old = {S(h) : h \in H} /\ OnlyEnds(old)
                  BY <1>3, <3>1, <3>2, EndingEnds
            <3> QED BY <3>1, <3>3
      <2>3. CASE ~again /\ ~Live(s, r.by)
            <3>1. old = None BY <2>3
            <3> QED BY <3>1 DEF None, OnlyEnds
      <2> QED BY <2>1, <2>2, <2>3
<1> HIDE DEF old, new, id
<1>8. /\ DOMAIN w = DOMAIN old \cup {S(r.new)} /\ w[S(r.new)] = new
      /\ \A x \in DOMAIN old : x # S(r.new) => w[x] = old[x]
      BY DEF Put
<1> HIDE DEF w
<1>9. /\ DOMAIN w \subseteq {S(h) : h \in Hashes}
      /\ \A h \in Hashes : S(h) \in DOMAIN w =>
            \/ h = r.new /\ w[S(h)] = new
            \/ w[S(h)] \in Session \cup {Absent} /\ ~Opened(w[S(h)])
      BY <1>3, <1>7, <1>8, Kinds DEF OnlyEnds
<1>10. SessionAt(w, DOMAIN w) BY <1>5, <1>9 DEF SessionAt
<1>11. U(r.on) \in ReadBy(e) BY <1>2 DEF ReadBy
<1>12. U(r.on) \notin DOMAIN w BY <1>9, Kinds
<1>13. Current(s, new)
       BY <1>2, <1>6 DEF Recheck, Current, ActiveUser
<1>14. OpensCurrent(ReadBy(e), w, s)
       BY <1>6, <1>9, <1>11, <1>12, <1>13 DEF OpensCurrent
<1>15. Fit(r, ReadBy(e), w, s) BY <1>9, <1>10, <1>14, SessionWrite
<1> QED BY <1>2, <1>4, <1>15

\* A sign-out ends the session.
LEMMA LogoutFit ==
    ASSUME NEW r, NEW s, NEW e, Called(r, s, e), r.op = "logout"
    PROVE  Fit(r, ReadBy(e), e.writes, s)
<1> DEFINE H == Sharing(s, s[S(r.by)].id)
           w == Ending(s, H)
<1>1. e \in Logout(r, s) BY DEF Called, Callback
<1>2. e.writes = w BY <1>1, RanIs DEF Logout
<1>3. Typed(s, Item) BY DEF Called
<1>4. H \in SUBSET Hashes /\ \A h \in H : s[S(h)] # Absent BY LiveThere
<1> HIDE DEF H
<1>5. DOMAIN w = {S(h) : h \in H} /\ OnlyEnds(w) BY <1>3, <1>4, EndingEnds
<1> HIDE DEF w
<1>6. DOMAIN w \subseteq {S(h) : h \in Hashes} BY <1>4, <1>5
<1>7. SessionAt(w, DOMAIN w) /\ OpensCurrent(ReadBy(e), w, s)
      BY <1>5 DEF OnlyEnds, SessionAt, OpensCurrent
<1>8. Fit(r, ReadBy(e), w, s) BY <1>6, <1>7, SessionWrite
<1> QED BY <1>2, <1>8

\* Saving an account ends its sessions if it has changed.
LEMMA SavingWrites ==
    ASSUME NEW s, Typed(s, Item), NEW u \in Users, NEW v \in User
    PROVE  LET w == SavingUser(s, u, v) IN
           /\ DOMAIN w \subseteq {U(u)} \cup {S(h) : h \in Hashes}
           /\ U(u) \in DOMAIN w /\ w[U(u)] = v /\ OnlyEnds(w)
           /\ s[U(u)] # Absent /\ s[U(u)] # v => \A h \in OpenOf(s, u) : S(h) \in DOMAIN w
<1> DEFINE H == OpenOf(s, u)
           old == IF s[U(u)] \notin {Absent, v} THEN Ending(s, H) ELSE None
           w == Put(old, U(u), v)
<1>1. H \in SUBSET Hashes /\ \A h \in H : s[S(h)] # Absent BY LiveThere
<1>2. /\ DOMAIN Ending(s, H) = {S(h) : h \in H} /\ OnlyEnds(Ending(s, H))
      BY <1>1, EndingEnds
<1>3. DOMAIN None = {} /\ OnlyEnds(None) BY DEF None, OnlyEnds
<1>4. /\ DOMAIN old \subseteq {S(h) : h \in Hashes} /\ OnlyEnds(old)
      /\ s[U(u)] # Absent /\ s[U(u)] # v => \A h \in H : S(h) \in DOMAIN old
      <2> HIDE DEF H
      <2>1. CASE s[U(u)] \notin {Absent, v} BY <1>1, <1>2, <2>1
      <2>2. CASE s[U(u)] \in {Absent, v} BY <1>3, <2>2
      <2> QED BY <2>1, <2>2
<1> HIDE DEF old
<1>5. /\ DOMAIN w = DOMAIN old \cup {U(u)} /\ w[U(u)] = v
      /\ \A x \in DOMAIN old : x # U(u) => w[x] = old[x]
      BY DEF Put
<1>6. SavingUser(s, u, v) = w BY DEF SavingUser, old
<1> HIDE DEF w, H
<1>7. OnlyEnds(w) BY <1>4, <1>5, Kinds DEF OnlyEnds
<1>8. /\ DOMAIN w \subseteq {U(u)} \cup {S(h) : h \in Hashes}
      /\ U(u) \in DOMAIN w /\ w[U(u)] = v /\ OnlyEnds(w)
      /\ s[U(u)] # Absent /\ s[U(u)] # v => \A h \in H : S(h) \in DOMAIN w
      BY <1>4, <1>5, <1>7
<1> QED BY <1>6, <1>8 DEF H

\* An administrator changes an account's role and status.
LEMMA UpdateFit ==
    ASSUME NEW r, NEW s, NEW e, Called(r, s, e), r.op = "update"
    PROVE  Fit(r, ReadBy(e), e.writes, s)
<1> DEFINE u == r.on
           v == [s[U(u)] EXCEPT !.role = r.arg.role, !.active = r.arg.active]
           w == SavingUser(s, u, v)
           Q == {U(u), SessionsOf(u), AllUsers}
           ok == MayBecome(s, u, r.arg)
<1>1. e \in ByAdmin(r, s, ok, Q, w)
      BY DEF Called, Callback, UpdateUser
<1>2. u \in Users /\ r.arg \in Change /\ Typed(s, Item)
      BY DEF Called, Asks
<1>3. ok
      <2> HIDE DEF ok, w, Q
      <2> QED BY <1>1 DEF ByAdmin, Ran
<1>4. e.writes = w /\ Q \subseteq ReadBy(e)
      <2> HIDE DEF ok, w, Q
      <2>1. e.writes = w /\ e.reads = Seen(s, r.by) \cup Q BY <1>1, AdminIs
      <2> QED BY <2>1 DEF ReadBy
<1>5. s[U(u)] \in User /\ s[U(u)] # Absent
      BY <1>2, <1>3, Kinds DEF MayBecome, Typed, UserAt
<1>6. /\ v \in User /\ v.role = r.arg.role /\ v.active = r.arg.active
      /\ v.cred = s[U(u)].cred /\ v.first = s[U(u)].first
      BY <1>2, <1>5 DEF User, Change
<1> HIDE DEF v
<1>7. /\ DOMAIN w \subseteq {U(u)} \cup {S(h) : h \in Hashes}
      /\ U(u) \in DOMAIN w /\ w[U(u)] = v /\ OnlyEnds(w)
      /\ s[U(u)] # v => \A h \in OpenOf(s, u) : S(h) \in DOMAIN w
      BY <1>2, <1>5, <1>6, SavingWrites
<1> HIDE DEF w
<1>8. v # Absent BY <1>6, AccountsAssumption
<1>9. (ActiveAdmin(s[U(u)]) /\ ~ActiveAdmin(v)) =>
          \E o \in Users \ {u} : ActiveAdmin(s[U(o)])
      BY <1>3, <1>6, <1>8 DEF MayBecome, LastAdmin, ActiveAdmin, ActiveUser
<1>10. HasUsers(s) BY <1>2, <1>5 DEF HasUsers
<1>11. IsFirst(v) => IsFirst(s[U(u)]) BY <1>5, <1>6 DEF IsFirst
<1>12. AllUsers \in ReadBy(e) /\ SessionsOf(u) \in ReadBy(e) BY <1>4
<1>13. s[U(u)] = v => SameCredentials(s[U(u)], v) BY <1>8 DEF SameCredentials
<1>14. Fit(r, ReadBy(e), w, s)
       <2> HIDE DEF u
       <2>1. /\ \/ SameCredentials(s[U(u)], v)
                \/ /\ SessionsOf(u) \in ReadBy(e)
                   /\ \A h \in OpenOf(s, u) : S(h) \in DOMAIN w
             BY <1>7, <1>12, <1>13
       <2> QED BY <1>2, <1>5, <1>6, <1>7, <1>9, <1>10, <1>11, <1>12, <2>1, UserWrite
<1> QED BY <1>4, <1>14

\* An administrator removes an account, and its sessions end.
LEMMA DeleteFit ==
    ASSUME NEW r, NEW s, NEW e, Called(r, s, e), r.op = "delete"
    PROVE  Fit(r, ReadBy(e), e.writes, s)
<1> DEFINE u == r.on
           H == OpenOf(s, u)
           w == Put(Ending(s, H), U(u), Absent)
           Q == {U(u), SessionsOf(u), AllUsers}
           ok == MayGo(s, u)
<1>1. e \in ByAdmin(r, s, ok, Q, w)
      BY DEF Called, Callback, DeleteUser
<1>2. u \in Users /\ Typed(s, Item)
      BY DEF Called, Asks
<1>3. ok
      <2> HIDE DEF ok, w, Q
      <2> QED BY <1>1 DEF ByAdmin, Ran
<1>4. e.writes = w /\ Q \subseteq ReadBy(e)
      <2> HIDE DEF ok, w, Q
      <2>1. e.writes = w /\ e.reads = Seen(s, r.by) \cup Q BY <1>1, AdminIs
      <2> QED BY <2>1 DEF ReadBy
<1>5. H \in SUBSET Hashes /\ \A h \in H : s[S(h)] # Absent BY LiveThere
<1>6. DOMAIN Ending(s, H) = {S(h) : h \in H} /\ OnlyEnds(Ending(s, H))
      <2> HIDE DEF H
      <2> QED BY <1>2, <1>5, EndingEnds
<1>7. /\ DOMAIN w \subseteq {U(u)} \cup {S(h) : h \in Hashes}
      /\ U(u) \in DOMAIN w /\ w[U(u)] = Absent /\ OnlyEnds(w)
      /\ \A h \in H : S(h) \in DOMAIN w
      <2> DEFINE old == Ending(s, H)
      <2>1. /\ DOMAIN w = DOMAIN old \cup {U(u)} /\ w[U(u)] = Absent
            /\ \A x \in DOMAIN old : x # U(u) => w[x] = old[x]
            BY DEF Put
      <2> HIDE DEF old, w, H
      <2>2. OnlyEnds(w) BY <1>6, <2>1, Kinds DEF OnlyEnds, old
      <2> QED BY <1>5, <1>6, <2>1, <2>2 DEF old
<1> HIDE DEF w
<1>8. (ActiveAdmin(s[U(u)]) /\ ~ActiveAdmin(Absent)) =>
          \E o \in Users \ {u} : ActiveAdmin(s[U(o)])
      BY <1>3 DEF MayGo, LastAdmin, ActiveAdmin, ActiveUser
<1>9. ~IsFirst(Absent) BY DEF IsFirst
<1>10. AllUsers \in ReadBy(e) /\ SessionsOf(u) \in ReadBy(e) BY <1>4
<1>11. Fit(r, ReadBy(e), w, s)
       <2>1. Absent \in User \cup {Absent} OBVIOUS
       <2> HIDE DEF u
       <2> QED BY <1>2, <1>7, <1>8, <1>9, <1>10, <2>1, UserWrite
<1> QED BY <1>4, <1>11

\* A new password ends the account's sessions.
LEMMA PasswordFit ==
    ASSUME NEW r, NEW s, NEW e, Called(r, s, e), r.op = "password"
    PROVE  Fit(r, ReadBy(e), e.writes, s)
<1> DEFINE u == s[S(r.by)].user
           v == [s[U(u)] EXCEPT !.cred = r.seen + 1]
           w == SavingUser(s, u, v)
<1>1. e \in ChangePassword(r, s) BY DEF Called, Callback
<1>2. /\ Principal(s, r.by, FALSE) /\ s[U(u)].cred = r.seen
      /\ e.writes = w /\ SessionsOf(u) \in e.reads
      <2> DEFINE P == Principal(s, r.by, FALSE)
                 Q == Seen(s, r.by) \cup {SessionsOf(u)}
      <2>1. e \in Ran(P /\ s[U(u)].cred = r.seen, Q, w, r.id) BY <1>1 DEF ChangePassword
      <2> HIDE DEF w, P, Q, u
      <2>2. P /\ s[U(u)].cred = r.seen /\ e.writes = w /\ e.reads = Q BY <2>1 DEF Ran
      <2>3. SessionsOf(u) \in Q BY DEF Q
      <2> QED BY <2>2, <2>3 DEF P
<1>3. Typed(s, Item) /\ r.by \in Hashes \cup {Nobody} /\ r.seen \in Nat
      BY DEF Called, Asks
<1>4. /\ u \in Users /\ s[U(u)] \in User /\ s[U(u)] # Absent /\ HasUsers(s)
      <2>1. /\ r.by \in Hashes /\ u \in Users /\ s[U(u)] \in User /\ HasUsers(s)
            BY <1>2, <1>3, SignedIn
      <2> HIDE DEF u
      <2> QED BY <2>1, AccountsAssumption
<1>5. /\ v \in User /\ v.role = s[U(u)].role /\ v.active = s[U(u)].active
      /\ v.cred = r.seen + 1 /\ v.first = s[U(u)].first
      BY <1>3, <1>4 DEF User
<1> HIDE DEF v
<1>6. v # Absent /\ v # s[U(u)]
      <2> HIDE DEF u
      <2>1. r.seen + 1 # r.seen BY <1>3
      <2> QED BY <1>2, <1>5, <2>1, AccountsAssumption
<1>7. /\ DOMAIN w \subseteq {U(u)} \cup {S(h) : h \in Hashes}
      /\ U(u) \in DOMAIN w /\ w[U(u)] = v /\ OnlyEnds(w)
      /\ \A h \in OpenOf(s, u) : S(h) \in DOMAIN w
      <2> HIDE DEF u
      <2> QED BY <1>3, <1>4, <1>5, <1>6, SavingWrites
<1> HIDE DEF w
<1>8. ActiveAdmin(s[U(u)]) => ActiveAdmin(v)
      BY <1>4, <1>5, <1>6 DEF ActiveAdmin, ActiveUser
<1>9. IsFirst(v) => IsFirst(s[U(u)]) BY <1>4, <1>5 DEF IsFirst
<1>10. SessionsOf(u) \in ReadBy(e) BY <1>2 DEF ReadBy
<1>11. Fit(r, ReadBy(e), w, s)
       <2> HIDE DEF u
       <2> QED BY <1>3, <1>4, <1>5, <1>7, <1>8, <1>9, <1>10, UserWrite
<1> QED BY <1>2, <1>11

\* Issuing and revoking write no account, session or client.
LEMMA InitialFit ==
    ASSUME NEW r, NEW s, NEW e, Called(r, s, e), r.op \in {"issue", "revoke"}, Named(r),
           r.op = "revoke" => r.on \in Initials
    PROVE  Fit(r, ReadBy(e), e.writes, s)
<1>1. \E i \in Initials : \E v : e.writes = Put(None, I(i), v)
      <2>1. CASE r.op = "issue"
            <3> DEFINE v == [max |-> r.arg, uses |-> 0, revoked |-> FALSE]
                       w == Put(None, I(r.new), v)
            <3>1. e \in ByAdmin(r, s, TRUE, {}, w)
                  BY <2>1 DEF Called, Callback, IssueInitialToken
            <3>2. e.writes = w
                  <4> HIDE DEF w
                  <4> QED BY <3>1, AdminWrites
            <3> QED BY <2>1, <3>2 DEF Named
      <2>2. CASE r.op = "revoke"
            <3> DEFINE v == [s[I(r.on)] EXCEPT !.revoked = TRUE]
                       w == Put(None, I(r.on), v)
            <3>1. e \in ByAdmin(r, s, Usable(s[I(r.on)]), {I(r.on)}, w)
                  BY <2>2 DEF Called, Callback, RevokeInitialToken
            <3>2. e.writes = w
                  <4> HIDE DEF w
                  <4> QED BY <3>1, AdminWrites
            <3> QED BY <2>2, <3>2 DEF Named
      <2> QED BY <2>1, <2>2
<1>2. PICK i \in Initials : DOMAIN e.writes = {I(i)}
      BY <1>1, PutOne
<1>3. \A c \in Clients : C(c) \notin DOMAIN e.writes /\ R(c) \notin DOMAIN e.writes
      BY <1>2, Apart
<1>4. /\ ClientAt(e.writes, DOMAIN e.writes)
      /\ IssuesOwned(ReadBy(e), e.writes, s) /\ RemovesOwned(ReadBy(e), e.writes, s)
      BY <1>3 DEF ClientAt, IssuesOwned, RemovesOwned
<1> QED BY <1>2, <1>4, ClientWrite

\* A client is registered along with its token.
LEMMA RegisterFit ==
    ASSUME NEW r, NEW s, NEW e, Called(r, s, e), r.op = "register", Named(r)
    PROVE  Fit(r, ReadBy(e), e.writes, s)
<1> DEFINE k == C(r.new)
           v == [initial |-> r.on]
           w == Put(Put(Put(None, k, v), R(r.new), Issued), I(r.on), Counted(r, s))
<1>1. e \in RegisterClient(r, s) BY DEF Called, Callback
<1>2. e.writes = w /\ k \in e.reads BY <1>1 DEF RegisterClient, Ran
<1>3. r.new \in Clients /\ r.on \in Initials BY DEF Called, Asks, Named
<1>4. v \in Client BY <1>3 DEF Client
<1> HIDE DEF v
<1>5. /\ DOMAIN w = {k, R(r.new), I(r.on)} /\ w[k] = v /\ w[R(r.new)] = Issued
      BY Apart DEF Put, None
<1> HIDE DEF w
<1>6. k \in ReadBy(e) BY <1>2 DEF ReadBy
<1>7. \A c \in Clients : (C(c) \in DOMAIN w \/ R(c) \in DOMAIN w) => c = r.new
      BY <1>5, Kinds, Apart
<1>8. v # Absent /\ Issued # Absent BY <1>4, AccountsAssumption
<1>9. ClientAt(w, DOMAIN w) BY <1>4, <1>5, <1>7 DEF ClientAt
<1>10. IssuesOwned(ReadBy(e), w, s) BY <1>5, <1>6, <1>7, <1>8 DEF IssuesOwned
<1>11. RemovesOwned(ReadBy(e), w, s) BY <1>5, <1>7, <1>8 DEF RemovesOwned
<1>12. Fit(r, ReadBy(e), w, s) BY <1>3, <1>5, <1>9, <1>10, <1>11, ClientWrite
<1> QED BY <1>2, <1>12

\* A registration access token is issued to a client that is there.
LEMMA ManageFit ==
    ASSUME NEW r, NEW s, NEW e, Called(r, s, e), r.op = "manage"
    PROVE  Fit(r, ReadBy(e), e.writes, s)
<1> DEFINE k == R(r.on)
           v == IF r.arg THEN Issued ELSE Absent
           w == Put(None, k, v)
           Q == {C(r.on)}
           ok == s[C(r.on)] # Absent
<1>1. e \in ByAdmin(r, s, ok, Q, w)
      BY DEF Called, Callback, ManageRegistrationToken
<1>2. ok
      <2> HIDE DEF ok, w, Q
      <2> QED BY <1>1 DEF ByAdmin, Ran
<1>3. e.writes = w /\ Q \subseteq ReadBy(e)
      <2> HIDE DEF ok, w, Q
      <2>1. e.writes = w /\ e.reads = Seen(s, r.by) \cup Q BY <1>1, AdminIs
      <2> QED BY <2>1 DEF ReadBy
<1>4. r.on \in Clients BY DEF Called, Asks
<1>5. v \in {Issued, Absent} OBVIOUS
<1> HIDE DEF v
<1>6. DOMAIN w = {k} /\ w[k] = v BY PutOne
<1> HIDE DEF w
<1>7. \A c \in Clients : C(c) \notin DOMAIN w /\ (R(c) \in DOMAIN w => c = r.on)
      BY <1>6, Kinds
<1>8. ClientAt(w, DOMAIN w) BY <1>5, <1>6, <1>7 DEF ClientAt
<1>9. IssuesOwned(ReadBy(e), w, s) BY <1>2, <1>3, <1>7 DEF IssuesOwned
<1>10. RemovesOwned(ReadBy(e), w, s) BY <1>7 DEF RemovesOwned
<1>11. Fit(r, ReadBy(e), w, s) BY <1>4, <1>6, <1>8, <1>9, <1>10, ClientWrite
<1> QED BY <1>3, <1>11

\* A client is removed along with its token.
LEMMA RemoveFit ==
    ASSUME NEW r, NEW s, NEW e, Called(r, s, e), r.op = "remove"
    PROVE  Fit(r, ReadBy(e), e.writes, s)
<1> DEFINE w == Removal(r.on)
           ok == s[C(r.on)] # Absent
           Q == {C(r.on)}
<1>1. e \in ByAdmin(r, s, ok, Q, w)
      BY DEF Called, Callback, DeleteClient, Ops
<1>2. e.writes = w
      <2> HIDE DEF ok, w, Q
      <2> QED BY <1>1, AdminIs
<1>3. r.on \in Clients BY DEF Called, Asks
<1>4. DOMAIN w = {C(r.on), R(r.on)} /\ w[C(r.on)] = Absent /\ w[R(r.on)] = Absent
      BY Apart DEF Removal, Put, None
<1> HIDE DEF w
<1>5. \A c \in Clients : C(c) \in DOMAIN w \/ R(c) \in DOMAIN w => c = r.on
      BY <1>4, Kinds
<1>6. R(r.on) \in ReadBy(e) BY <1>2, <1>4 DEF ReadBy
<1>7. ClientAt(w, DOMAIN w) BY <1>4, <1>5 DEF ClientAt
<1>8. IssuesOwned(ReadBy(e), w, s) BY <1>4, <1>5 DEF IssuesOwned
<1>9. RemovesOwned(ReadBy(e), w, s) BY <1>4, <1>5, <1>6 DEF RemovesOwned
<1>10. Fit(r, ReadBy(e), w, s) BY <1>3, <1>4, <1>7, <1>8, <1>9, ClientWrite
<1> QED BY <1>2, <1>10

\* Whatever a callback returns keeps the rules.
LEMMA CallbackFit ==
    ASSUME NEW r, NEW s, NEW e, Called(r, s, e), Named(r), r.op \in Ops
    PROVE  /\ Fit(r, ReadBy(e), e.writes, s)
           /\ r.op = "login" => e.id \in Hashes
<1>1. r.op = "revoke" => r.on \in Initials BY DEF Named
<1>2. Fit(r, ReadBy(e), e.writes, s)
      BY <1>1, BootstrapFit, CreateFit, LoginFit, LogoutFit, UpdateFit, DeleteFit, PasswordFit,
         InitialFit, RegisterFit, ManageFit, RemoveFit DEF Ops
<1>3. r.op = "login" => e.id \in Hashes BY LoginFit
<1> QED BY <1>2, <1>3

(***************************************************************************)
(* Open transactions and what is committed.                                *)
(***************************************************************************)
\* Dropping removals of what is not there changes nothing of this.
LEMMA WrittenFit ==
    ASSUME NEW r, NEW reads, NEW w, NEW s, Fit(r, reads, w, s)
    PROVE  Fit(r, reads, Written(s, w), s)
<1> DEFINE m == Written(s, w)
<1>1. /\ DOMAIN m \subseteq DOMAIN w
      /\ \A k \in DOMAIN m : m[k] = w[k]
      /\ \A k \in DOMAIN w : k \notin DOMAIN m => w[k] = Absent /\ s[k] = Absent
      BY DEF Written
<1> HIDE DEF m
<1>2. DOMAIN m \subseteq Item /\ Typed(m, DOMAIN m)
      BY <1>1 DEF Fit, Typed, UserAt, SessionAt, ClientAt
<1>3. Creates(r, m, s) BY <1>1 DEF Fit, Creates
<1>4. AdminStays(reads, m, s)
      BY <1>1 DEF Fit, Ready, AdminStays
<1>5. FirstAlone(reads, m, s) BY <1>1 DEF Fit, Ready, FirstAlone
<1>6. OpensCurrent(reads, m, s) BY <1>1 DEF Fit, Ready, OpensCurrent
<1>7. EndsSessions(reads, m, s) BY <1>1 DEF Fit, Ready, EndsSessions, Opened
<1>8. IssuesOwned(reads, m, s) BY <1>1 DEF Fit, Ready, IssuesOwned
<1>9. RemovesOwned(reads, m, s) BY <1>1 DEF Fit, Ready, RemovesOwned
<1>10. Ready(reads, m, s) BY <1>4, <1>5, <1>6, <1>7, <1>8, <1>9 DEF Ready
<1> QED BY <1>2, <1>3, <1>10 DEF Fit, m

\* What Marks holds of a transaction's writes.
LEMMA Marked ==
    ASSUME NEW s, NEW w
    PROVE  /\ DOMAIN w \subseteq Marks(s, w)
           /\ \A u \in Users : U(u) \in DOMAIN w => AllUsers \in Marks(s, w)
           /\ \A h \in Hashes : S(h) \in DOMAIN w /\ w[S(h)] # Absent =>
                 SessionsOf(w[S(h)].user) \in Marks(s, w)
<1>1. DOMAIN w \subseteq Marks(s, w) BY DEF Marks
<1>2. ASSUME NEW u \in Users, U(u) \in DOMAIN w PROVE AllUsers \in Marks(s, w)
      <2>1. U(u) \in {x \in DOMAIN w : x[1] = "user"} BY <1>2 DEF U
      <2> QED BY <2>1 DEF Marks
<1>3. ASSUME NEW h \in Hashes, S(h) \in DOMAIN w, w[S(h)] # Absent
      PROVE  SessionsOf(w[S(h)].user) \in Marks(s, w)
      <2> DEFINE D == {x \in DOMAIN w : x[1] = "session"}
                 V == {f[k] : f \in {s, w}, k \in D} \ {Absent}
      <2>1. S(h) \in D BY <1>3 DEF S
      <2>2. w[S(h)] \in V BY <1>3, <2>1
      <2> HIDE DEF V
      <2>3. SessionsOf(w[S(h)].user) \in {SessionsOf(v.user) : v \in V} BY <2>2
      <2> QED BY <2>3 DEF Marks, V
<1> QED BY <1>1, <1>2, <1>3

\* A transaction that opens is tidy.
LEMMA OpenTidy ==
    ASSUME NEW r, NEW s, NEW reads, NEW e, Fit(r, ReadBy(e), e.writes, s)
    PROVE  LET w == Written(s, e.writes)
               t == Open(ReadBy(e), w, Marks(s, w))
           IN  /\ Tidy(t) /\ Ready(t.reads, t.writes, s) /\ Creates(r, t.writes, s)
               /\ DOMAIN t = TxFields
               /\ t.reads = ReadBy(e) /\ t.writes = w
<1> DEFINE w == Written(s, e.writes)
           t == Open(ReadBy(e), w, Marks(s, w))
<1>1. Fit(r, ReadBy(e), w, s) BY WrittenFit
<1>2. DOMAIN w \subseteq ReadBy(e) BY DEF Written, ReadBy
<1> HIDE DEF w
<1>3. /\ t.reads = ReadBy(e) /\ t.writes = w /\ t.marks = Marks(s, w) /\ DOMAIN t = TxFields
      BY DEF Open, TxFields
<1> HIDE DEF t
<1>4. Tidy(t) BY <1>1, <1>2, <1>3, Marked DEF Tidy, Fit
<1>5. Tidy(t) /\ Ready(t.reads, t.writes, s) /\ Creates(r, t.writes, s)
      BY <1>1, <1>3, <1>4 DEF Fit
<1> QED BY <1>3, <1>5 DEF t, w

\* No transaction has written nothing.
LEMMA NoTxTidy == Tidy(NoTx) /\ DOMAIN NoTx = TxFields /\ DOMAIN NoTx.writes = {}
<1>1. /\ DOMAIN NoTx = TxFields /\ NoTx.writes = None
      BY DEF NoTx, Open, TxFields
<1>2. DOMAIN None = {} BY DEF None
<1> HIDE DEF NoTx
<1> QED BY <1>1, <1>2 DEF Tidy, Typed, UserAt, SessionAt, ClientAt

(***************************************************************************)
(* The invariant.                                                          *)
(***************************************************************************)
\* records have their fields, requests ask for what is there to ask for, and
\* transactions write records
Formed ==
    /\ backend \in Backends
    /\ Typed(db, Item)
    /\ born \subseteq Clients \X Initials
    /\ \A p \in Procs : Asks(req[p]) /\ Tidy(req[p].tx)

\* an account's key is its own
AccountsDrawn ==
    /\ \A u \in Users : db[U(u)] # Absent => u \in drawn
    /\ \A p \in Procs : req[p].op \in {"bootstrap", "create"} => db[U(req[p].new)] = Absent
    /\ \A p \in Procs :
          (req[p].open /\ ~req[p].tx.lost) => Creates(req[p], req[p].tx.writes, db)

\* the file store's transactions take turns
Alone ==
    backend = "file" => \A p, q \in Procs : req[p].open /\ req[q].open => p = q

\* what is committed keeps the rules, and so does what still may be
Ruled ==
    Serial =>
        /\ Safe(db)
        /\ \A p \in Procs : (req[p].open /\ MayCommit(backend, req[p].tx)) =>
              Ready(req[p].tx.reads, req[p].tx.writes, db)

RInv == IInv /\ Formed /\ AccountsDrawn /\ Alone /\ Ruled

\* What Idle is.
LEMMA IdleIs ==
    /\ DOMAIN Idle = ReqFields /\ Idle.tx = NoTx /\ Idle.open = FALSE
    /\ Idle.op = "idle" /\ Idle.new = Nobody /\ Asks(Idle)
BY DEF Idle, Request, ReqFields, Asks

\* Nothing is stored and nothing under way.
LEMMA InitRInv == Init => RInv
<1> SUFFICES ASSUME Init PROVE RInv OBVIOUS
<1>1. \A k \in Item : db[k] = Absent BY DEF Init
<1>2. \A p \in Procs : req[p] = Idle BY DEF Init
<1>3. Formed
      <2>1. Typed(db, Item) BY <1>1, Kinds DEF Typed, UserAt, SessionAt, ClientAt
      <2> QED BY <1>2, <2>1, IdleIs, NoTxTidy DEF Formed, Init
<1>4. AccountsDrawn BY <1>1, <1>2, IdleIs, Kinds DEF AccountsDrawn
<1>5. Alone BY <1>2, IdleIs DEF Alone
<1>6. Safe(db)
      BY <1>1, Kinds DEF Safe, AdminKept, HasUsers, FirstOnce, IsFirst, SessionsCurrent, Opened,
                         CredentialsOwned
<1>7. Ruled BY <1>2, <1>6, IdleIs DEF Ruled
<1> QED BY <1>3, <1>4, <1>5, <1>7, InitIInv DEF RInv

\* A request that arrives asks for what is there.
LEMMA ArrivedAsks ==
    ASSUME RInv, NEW op \in Ops, NEW r \in Arrivals(op)
    PROVE  Asks(r)
<1>1. Typed(db, Item) BY DEF RInv, Formed
<1>2. \A K, h : h \in Present("session", K) => h \in K BY DEF Present
<1>3. \A h \in Cookies : h \in Hashes BY <1>2 DEF Cookies
<1>4. \A K, x : x \in Fresh(K) => x \in K BY DEF Fresh
<1>5. \A kind, K, x : x \in Present(kind, K) => x \in K BY DEF Present
<1>6. CASE op = "bootstrap"
      <2>1. PICK u \in Fresh(Users) : r = Request(op, Nobody, Nobody, 0, u, 0)
            BY <1>6 DEF Arrivals
      <2> QED BY <1>4, <1>6, <2>1 DEF Request, Asks
<1>7. CASE op = "create"
      <2>1. \E h \in Cookies, role \in Role, u \in Fresh(Users) :
               r = Request(op, h, Nobody, role, u, 0)
            BY <1>7 DEF Arrivals
      <2> QED BY <1>3, <1>4, <1>7, <2>1 DEF Request, Asks
<1>8. CASE op = "login"
      <2>1. \E old \in Cookies \cup {Nobody}, h \in Fresh(Hashes), u \in MaySignIn :
               r = Request(op, old, u, 0, h, db[U(u)].cred)
            BY <1>8 DEF Arrivals
      <2>2. \A u \in MaySignIn : u \in Users /\ db[U(u)].cred \in Nat
            <3> SUFFICES ASSUME NEW u \in MaySignIn PROVE u \in Users /\ db[U(u)].cred \in Nat
                OBVIOUS
            <3>1. u \in Users /\ db[U(u)] # Absent BY DEF MaySignIn, Present, U
            <3> QED BY <1>1, <3>1, Kinds DEF Typed, UserAt, User
      <2> QED BY <1>3, <1>4, <1>8, <2>1, <2>2 DEF Request, Asks
<1>9. CASE op = "logout"
      <2>1. \E h \in Cookies : r = Request(op, h, Nobody, 0, Nobody, 0)
            BY <1>9 DEF Arrivals
      <2> QED BY <1>3, <1>9, <2>1 DEF Request, Asks
<1>10. CASE op = "update"
      <2>1. \E h \in Cookies, u \in Present("user", Users), a \in Change :
               r = Request(op, h, u, a, Nobody, 0)
            BY <1>10 DEF Arrivals
      <2> QED BY <1>3, <1>5, <1>10, <2>1 DEF Request, Asks
<1>11. CASE op = "delete"
      <2>1. \E h \in Cookies, u \in Present("user", Users) :
               r = Request(op, h, u, 0, Nobody, 0)
            BY <1>11 DEF Arrivals
      <2> QED BY <1>3, <1>5, <1>11, <2>1 DEF Request, Asks
<1>12. CASE op = "password"
      <2>1. \E h \in MayChangePassword :
               r = Request(op, h, Nobody, 0, Nobody, db[U(db[S(h)].user)].cred)
            BY <1>12 DEF Arrivals
      <2>2. \A h \in MayChangePassword : h \in Hashes /\ db[U(db[S(h)].user)].cred \in Nat
            <3> SUFFICES ASSUME NEW h \in MayChangePassword
                         PROVE  h \in Hashes /\ db[U(db[S(h)].user)].cred \in Nat
                OBVIOUS
            <3>1. h \in Hashes /\ Principal(db, h, FALSE) BY <1>3 DEF MayChangePassword
            <3>2. db[U(db[S(h)].user)] \in User BY <1>1, <3>1, SignedIn
            <3> QED BY <3>1, <3>2 DEF User
      <2> QED BY <1>12, <2>1, <2>2 DEF Request, Asks
<1>13. CASE op \in {"issue", "revoke"}
      <2>1. \E h \in Cookies : \E on, arg, new : r = Request(op, h, on, arg, new, 0)
            BY <1>13 DEF Arrivals
      <2> QED BY <1>3, <1>13, <2>1 DEF Request, Asks
<1>14. CASE op = "manage"
      <2>1. \E h \in Cookies, c \in Present("client", Clients), issue \in BOOLEAN :
               r = Request(op, h, c, issue, Nobody, 0)
            BY <1>14 DEF Arrivals
      <2> QED BY <1>3, <1>5, <1>14, <2>1 DEF Request, Asks
<1>15. CASE op = "register"
      <2>1. \E i \in {x \in Initials : Usable(db[I(x)])}, c \in Fresh(Clients) :
               r = Request(op, Nobody, i, 0, c, db[I(i)])
            BY <1>15 DEF Arrivals
      <2> QED BY <1>4, <1>15, <2>1 DEF Request, Asks
<1>16. CASE op = "remove"
      <2>1. \E h \in Cookies, c \in Present("client", Clients) :
               r = Request(op, h, c, 0, Nobody, 0)
            BY <1>16 DEF Arrivals
      <2> QED BY <1>3, <1>5, <1>16, <2>1 DEF Request, Asks
<1> QED BY <1>6, <1>7, <1>8, <1>9, <1>10, <1>11, <1>12, <1>13, <1>14, <1>15, <1>16 DEF Ops

\* What a request may write depends on its operation and key.
LEMMA CreatesSame ==
    ASSUME NEW r, NEW q, q.op = r.op, q.new = r.new, NEW w, NEW d, Creates(r, w, d)
    PROVE  Creates(q, w, d)
BY DEF Creates

\* A step of one process that leaves what is committed alone keeps all of
\* this, if what the process may write then keeps the rules.
LEMMA Steady ==
    ASSUME RInv, NEW p \in Procs,
           backend' = backend, db' = db, born' = born, drawn \subseteq drawn',
           \A q \in Procs : q # p => req'[q] = req[q],
           Asks(req'[p]), Tidy(req'[p].tx),
           req'[p].op \in {"bootstrap", "create"} => db[U(req'[p].new)] = Absent,
           req'[p].open =>
               /\ Creates(req'[p], req'[p].tx.writes, db)
               /\ Ready(req'[p].tx.reads, req'[p].tx.writes, db)
               /\ backend = "file" => \A q \in Procs : ~req[q].open
    PROVE  Formed' /\ AccountsDrawn' /\ Alone' /\ Ruled'
<1>1. Formed' BY DEF RInv, Formed
<1>2. AccountsDrawn'
      <2>1. \A u \in Users : db[U(u)] # Absent => u \in drawn'
            BY DEF RInv, AccountsDrawn
      <2>2. \A q \in Procs : req'[q].op \in {"bootstrap", "create"} => db[U(req'[q].new)] = Absent
            BY DEF RInv, AccountsDrawn
      <2>3. \A q \in Procs : (req'[q].open /\ ~req'[q].tx.lost) =>
               Creates(req'[q], req'[q].tx.writes, db)
            BY DEF RInv, AccountsDrawn
      <2> QED BY <2>1, <2>2, <2>3 DEF AccountsDrawn, Creates
<1>3. Alone' BY DEF RInv, Alone
<1>4. \A q \in Procs : Serial /\ req'[q].open /\ MayCommit(backend, req'[q].tx) =>
          Ready(req'[q].tx.reads, req'[q].tx.writes, db)
      BY DEF RInv, Ruled
<1>5. Serial' = Serial BY DEF Serial
<1>6. Serial => Safe(db)'
      BY DEF RInv, Ruled, Safe, AdminKept, HasUsers, HasAdmin, FirstOnce, SessionsCurrent,
             Current, CredentialsOwned
<1>7. Ruled' BY SMTT(30), <1>4, <1>5, <1>6 DEF Ruled, Ready, AdminStays, HasUsers, FirstAlone,
                    OpensCurrent, Current, EndsSessions, IssuesOwned, RemovesOwned
<1> QED BY <1>1, <1>2, <1>3, <1>7

\* An arrival asks for what is there and has nothing open.
LEMMA ArriveRInv ==
    ASSUME RInv, NEW p \in Procs, NEW op \in Ops, Arrive(p, op)
    PROVE  RInv'
<1>1. PICK r \in Arrivals(op) :
         /\ req' = [req EXCEPT ![p] = r]
         /\ drawn' = drawn \cup ({r.new} \ {Nobody})
      BY DEF Arrive
<1>2. /\ r.tx = NoTx /\ ~r.open /\ r.op = op
      /\ r.new = Nobody \/ r.new \notin drawn
      BY Arrived
<1>3. Asks(r) BY ArrivedAsks
<1>4. backend' = backend /\ db' = db /\ born' = born BY DEF Arrive
<1>5. req'[p] = r /\ \A q \in Procs : q # p => req'[q] = req[q]
      BY <1>1 DEF RInv, IInv, Shaped
<1>6. r.op \in {"bootstrap", "create"} => db[U(r.new)] = Absent
      BY <1>2, <1>3, AccountsAssumption DEF Asks, RInv, AccountsDrawn
<1>7. Tidy(r.tx) BY <1>2, NoTxTidy
<1>8. drawn \subseteq drawn' BY <1>1
<1>9. Formed' /\ AccountsDrawn' /\ Alone' /\ Ruled'
      BY <1>2, <1>3, <1>4, <1>5, <1>6, <1>7, <1>8, Steady
<1>10. IInv' BY ArriveIInv DEF RInv
<1> QED BY <1>9, <1>10 DEF RInv

\* A request that ends leaves its process idle.
LEMMA FailRInv ==
    ASSUME RInv, NEW p \in Procs, Fail(p)
    PROVE  RInv'
<1>1. backend' = backend /\ db' = db /\ born' = born /\ drawn' = drawn BY DEF Fail
<1>2. req'[p] = Idle /\ \A q \in Procs : q # p => req'[q] = req[q]
      BY DEF Fail, RInv, IInv, Shaped
<1>3. Formed' /\ AccountsDrawn' /\ Alone' /\ Ruled'
      BY <1>1, <1>2, IdleIs, NoTxTidy, Steady
<1>4. IInv' BY FailIInv DEF RInv
<1> QED BY <1>3, <1>4 DEF RInv

\* A refused attempt leaves its request to try again.
LEMMA RetryRInv ==
    ASSUME RInv, NEW p \in Procs, Retry(p)
    PROVE  RInv'
<1>1. backend' = backend /\ db' = db /\ born' = born /\ drawn' = drawn BY DEF Retry
<1>2. /\ \A q \in Procs : q # p => req'[q] = req[q]
      /\ req'[p].tx = NoTx /\ req'[p].open = FALSE
      /\ req'[p].op = req[p].op /\ req'[p].on = req[p].on /\ req'[p].by = req[p].by
      /\ req'[p].arg = req[p].arg /\ req'[p].new = req[p].new /\ req'[p].seen = req[p].seen
      /\ req'[p].id = req[p].id
      BY DEF Retry, RInv, IInv, Shaped, ReqFields
<1>3. Asks(req'[p]) BY <1>2 DEF RInv, Formed, Asks
<1>4. req'[p].op \in {"bootstrap", "create"} => db[U(req'[p].new)] = Absent
      BY <1>2 DEF RInv, AccountsDrawn
<1>5. Formed' /\ AccountsDrawn' /\ Alone' /\ Ruled'
      BY <1>1, <1>2, <1>3, <1>4, NoTxTidy, Steady
<1>6. IInv' BY RetryIInv DEF RInv
<1> QED BY <1>5, <1>6 DEF RInv

\* What an attempt reads and will write, as it begins.
LEMMA BeginIs ==
    ASSUME RInv, NEW p \in Procs, Begin(p)
    PROVE  \E e \in Callback(req[p], db) :
              LET w == Written(db, e.writes)
                  t == Open(ReadBy(e), w, Marks(db, w))
              IN  /\ req'[p].tx = t /\ req'[p].open = TRUE /\ req'[p].id = e.id
                  /\ req'[p].op = req[p].op /\ req'[p].on = req[p].on
                  /\ req'[p].by = req[p].by /\ req'[p].arg = req[p].arg
                  /\ req'[p].new = req[p].new /\ req'[p].seen = req[p].seen
                  /\ Fit(req[p], ReadBy(e), e.writes, db)
                  /\ req[p].op = "login" => e.id \in Hashes
<1>1. PICK e \in Callback(req[p], db) :
         req' = [req EXCEPT
                   ![p].id = e.id, ![p].open = TRUE,
                   ![p].tx = Open(e.reads \cup DOMAIN e.writes, Written(db, e.writes),
                                  Marks(db, Written(db, e.writes)))]
      BY DEF Begin
<1> DEFINE w == Written(db, e.writes)
           t == Open(ReadBy(e), w, Marks(db, w))
<1>2. req' = [req EXCEPT ![p].id = e.id, ![p].open = TRUE, ![p].tx = t]
      BY <1>1 DEF ReadBy
<1> HIDE DEF t
<1>3. /\ req'[p].tx = t /\ req'[p].open = TRUE /\ req'[p].id = e.id
      /\ req'[p].op = req[p].op /\ req'[p].on = req[p].on
      /\ req'[p].by = req[p].by /\ req'[p].arg = req[p].arg
      /\ req'[p].new = req[p].new /\ req'[p].seen = req[p].seen
      BY <1>2 DEF RInv, IInv, Shaped, ReqFields
<1>4. req[p].op \in Ops BY DEF RInv, IInv, Shaped, Begin, Busy
<1>5. Called(req[p], db, e) BY DEF Called, RInv, Formed, AccountsDrawn
<1>6. Named(req[p]) BY DEF RInv, IInv, RequestsNamed
<1>7. /\ Fit(req[p], ReadBy(e), e.writes, db)
      /\ req[p].op = "login" => e.id \in Hashes
      BY <1>4, <1>5, <1>6, CallbackFit
<1> QED BY <1>3, <1>7 DEF t

\* An attempt begins: what it will write keeps the rules.
LEMMA BeginRInv ==
    ASSUME RInv, NEW p \in Procs, Begin(p)
    PROVE  RInv'
<1>1. backend' = backend /\ db' = db /\ born' = born /\ drawn' = drawn BY DEF Begin
<1>2. \A q \in Procs : q # p => req'[q] = req[q]
      BY DEF Begin, RInv, IInv, Shaped
<1>3. PICK e \in Callback(req[p], db) :
              LET w == Written(db, e.writes)
                  t == Open(ReadBy(e), w, Marks(db, w))
              IN  /\ req'[p].tx = t /\ req'[p].open = TRUE /\ req'[p].id = e.id
                  /\ req'[p].op = req[p].op /\ req'[p].on = req[p].on
                  /\ req'[p].by = req[p].by /\ req'[p].arg = req[p].arg
                  /\ req'[p].new = req[p].new /\ req'[p].seen = req[p].seen
                  /\ Fit(req[p], ReadBy(e), e.writes, db)
                  /\ req[p].op = "login" => e.id \in Hashes
      BY BeginIs
<1>4. Asks(req'[p]) BY <1>3 DEF RInv, Formed, Asks
<1>5. req'[p].op \in {"bootstrap", "create"} => db[U(req'[p].new)] = Absent
      BY <1>3 DEF RInv, AccountsDrawn
<1>6. /\ Tidy(req'[p].tx)
      /\ Ready(req'[p].tx.reads, req'[p].tx.writes, db)
      /\ Creates(req[p], req'[p].tx.writes, db)
      BY <1>3, OpenTidy
<1>7. Creates(req'[p], req'[p].tx.writes, db) BY <1>3, <1>6, CreatesSame
<1>8. backend = "file" => \A q \in Procs : ~req[q].open BY DEF Begin, InWrite
<1>9. Formed' /\ AccountsDrawn' /\ Alone' /\ Ruled'
      BY <1>1, <1>2, <1>4, <1>5, <1>6, <1>7, <1>8, Steady
<1>10. IInv' BY BeginIInv DEF RInv
<1> QED BY <1>9, <1>10 DEF RInv

\* A transaction that may commit after another has could before, and the two
\* are compatible.
LEMMA AfterCommit ==
    ASSUME NEW t, NEW c, DOMAIN t = TxFields, backend \in Backends,
           MayCommit(backend, After(t, c))
    PROVE  /\ After(t, c).writes = t.writes /\ After(t, c).reads = t.reads
           /\ After(t, c).marks = t.marks
           /\ DOMAIN t.writes \cap DOMAIN c.writes = {} /\ ~t.lost
           /\ backend = "postgres" => MayCommit(backend, t) /\ Compatible(t, c)
<1>1. /\ After(t, c).writes = t.writes /\ After(t, c).reads = t.reads
      /\ After(t, c).marks = t.marks
      /\ After(t, c).lost = (t.lost \/ DOMAIN t.writes \cap DOMAIN c.writes # {})
      /\ After(t, c).in = (t.in \/ Missed(c, t))
      /\ After(t, c).out = (t.out \/ Missed(t, c))
      /\ After(t, c).late = (t.late \/ (Missed(t, c) /\ c.out))
      BY DEF After, TxFields
<1>2. ~t.lost /\ DOMAIN t.writes \cap DOMAIN c.writes = {} BY <1>1 DEF MayCommit
<1>3. ASSUME backend = "postgres"
      PROVE  MayCommit(backend, t) /\ Compatible(t, c)
      BY <1>1, <1>2, <1>3 DEF MayCommit, Compatible
<1> QED BY <1>1, <1>2, <1>3

\* What a commit does to the requests and the database.
LEMMA CommitIs ==
    ASSUME RInv, NEW p \in Procs, Commit(p)
    PROVE  /\ req'[p] = Idle
           /\ \A q \in Procs : q # p =>
                 IF req[q].open
                 THEN req'[q] = [req[q] EXCEPT !.tx = After(req[q].tx, req[p].tx)]
                 ELSE req'[q] = req[q]
           /\ db' = Merge(db, req[p].tx.writes)
           /\ \A k \in Item : k \in DOMAIN req[p].tx.writes => db'[k] = req[p].tx.writes[k]
           /\ \A k \in Item : k \notin DOMAIN req[p].tx.writes => db'[k] = db[k]
           /\ req[p].open /\ MayCommit(backend, req[p].tx) /\ ~req[p].tx.lost
<1>1. /\ req'[p] = Idle /\ db' = Merge(db, req[p].tx.writes)
      /\ req[p].open /\ MayCommit(backend, req[p].tx) /\ ~req[p].tx.lost
      BY DEF Commit, InWrite, MayCommit
<1>2. ASSUME NEW q \in Procs, q # p
      PROVE  IF req[q].open
             THEN req'[q] = [req[q] EXCEPT !.tx = After(req[q].tx, req[p].tx)]
             ELSE req'[q] = req[q]
      BY <1>2 DEF Commit, InWrite
<1>3. DOMAIN db = Item BY DEF RInv, IInv, Shaped
<1> QED BY <1>1, <1>2, <1>3, Merged

\* What it leaves of another request.
LEMMA CommitLeaves ==
    ASSUME RInv, NEW p \in Procs, Commit(p), NEW q \in Procs, q # p
    PROVE  /\ req'[q].op = req[q].op /\ req'[q].on = req[q].on /\ req'[q].by = req[q].by
           /\ req'[q].arg = req[q].arg /\ req'[q].new = req[q].new
           /\ req'[q].seen = req[q].seen /\ req'[q].id = req[q].id
           /\ req'[q].open = req[q].open
           /\ req'[q].tx.writes = req[q].tx.writes /\ req'[q].tx.reads = req[q].tx.reads
           /\ req'[q].tx.marks = req[q].tx.marks
           /\ req[q].open => req'[q].tx = After(req[q].tx, req[p].tx)
<1>1. DOMAIN req[q] = ReqFields /\ DOMAIN req[q].tx = TxFields BY DEF RInv, IInv, Shaped
<1>2. CASE ~req[q].open
      <2>1. req'[q] = req[q] BY <1>2, CommitIs
      <2> QED BY <1>2, <2>1
<1>3. CASE req[q].open
      <2> DEFINE a == After(req[q].tx, req[p].tx)
      <2>1. req'[q] = [req[q] EXCEPT !.tx = a] BY <1>3, CommitIs
      <2>2. /\ a.writes = req[q].tx.writes /\ a.reads = req[q].tx.reads
            /\ a.marks = req[q].tx.marks
            BY <1>1 DEF After, TxFields
      <2> HIDE DEF a
      <2>3. /\ req'[q].op = req[q].op /\ req'[q].on = req[q].on /\ req'[q].by = req[q].by
            /\ req'[q].arg = req[q].arg /\ req'[q].new = req[q].new
            /\ req'[q].seen = req[q].seen /\ req'[q].id = req[q].id
            /\ req'[q].open = req[q].open /\ req'[q].tx = a
            BY <1>1, <2>1 DEF ReqFields
      <2> QED BY <2>2, <2>3 DEF a
<1> QED BY <1>2, <1>3

\* What depends on the items of a transaction's fields only.
LEMMA TidySame ==
    ASSUME NEW t, NEW a, a.writes = t.writes, a.reads = t.reads, a.marks = t.marks, Tidy(t)
    PROVE  Tidy(a)
BY DEF Tidy

\* A commit leaves the records it does not write to those that still write them.
LEMMA CommitFormed ==
    ASSUME RInv, NEW p \in Procs, Commit(p)
    PROVE  Formed'
<1> DEFINE w == req[p].tx.writes
<1>1. Tidy(req[p].tx) /\ Typed(db, Item) BY DEF RInv, Formed
<1>2. /\ \A k \in Item : k \in DOMAIN w => db'[k] = w[k]
      /\ \A k \in Item : k \notin DOMAIN w => db'[k] = db[k]
      BY CommitIs
<1>3. Typed(w, DOMAIN w) BY <1>1 DEF Tidy
<1> HIDE DEF w
<1>4. Typed(db', Item)
      BY <1>1, <1>2, <1>3, Kinds DEF Typed, UserAt, SessionAt, ClientAt
<1>5. born' \subseteq Clients \X Initials
      <2>1. \A c \in Clients : db'[C(c)] # Absent => db'[C(c)].initial \in Initials
            BY <1>4, Kinds DEF Typed, ClientAt, Client
      <2> QED BY <2>1 DEF Commit, RInv, Formed
<1>6. ASSUME NEW q \in Procs PROVE Asks(req'[q]) /\ Tidy(req'[q].tx)
      <2>1. CASE q = p
            <3>1. req'[q] = Idle BY <2>1, CommitIs
            <3> QED BY <3>1, IdleIs, NoTxTidy
      <2>2. CASE q # p
            <3>1. Asks(req[q]) /\ Tidy(req[q].tx) BY DEF RInv, Formed
            <3>2. Tidy(req'[q].tx) BY <2>2, <3>1, CommitLeaves, TidySame
            <3>3. Asks(req'[q]) BY <2>2, <3>1, CommitLeaves DEF Asks
            <3> QED BY <3>2, <3>3
      <2> QED BY <2>1, <2>2
<1>7. backend' \in Backends BY DEF Commit, RInv, Formed
<1>8. Typed(db, Item)' BY <1>4 DEF Typed, UserAt, SessionAt, ClientAt
<1> QED BY <1>5, <1>6, <1>7, <1>8 DEF Formed

\* It creates the accounts it says, with keys of its own.
LEMMA CommitDrawn ==
    ASSUME RInv, NEW p \in Procs, Commit(p)
    PROVE  AccountsDrawn'
<1> DEFINE w == req[p].tx.writes
<1>1. /\ req[p].open /\ ~req[p].tx.lost
      /\ \A k \in Item : k \in DOMAIN w => db'[k] = w[k]
      /\ \A k \in Item : k \notin DOMAIN w => db'[k] = db[k]
      BY CommitIs
<1>2. Creates(req[p], w, db) BY <1>1 DEF RInv, AccountsDrawn
<1>3. \A u \in Users : db'[U(u)] # Absent =>
          db[U(u)] # Absent \/ (req[p].op \in {"bootstrap", "create"} /\ u = req[p].new)
      BY <1>1, <1>2, Kinds DEF Creates
<1>4. req[p].op \in {"bootstrap", "create"} => req[p].new \in drawn
      BY AccountsAssumption DEF RInv, Formed, Asks, IInv, KeysDrawn
<1>5. drawn' = drawn BY DEF Commit
<1>6. \A u \in Users : db'[U(u)] # Absent => u \in drawn'
      BY <1>3, <1>4, <1>5 DEF RInv, AccountsDrawn
<1>7. ASSUME NEW q \in Procs, req'[q].op \in {"bootstrap", "create"}
      PROVE  db'[U(req'[q].new)] = Absent
      <2>1. q # p BY <1>7, CommitIs, IdleIs
      <2>2. req[q].op = req'[q].op /\ req[q].new = req'[q].new BY <2>1, CommitLeaves
      <2>3. req[q].new \in Users /\ db[U(req[q].new)] = Absent
            BY <1>7, <2>2 DEF RInv, Formed, Asks, AccountsDrawn
      <2>4. req[q].new # req[p].new
            BY <2>1, <2>3, AccountsAssumption DEF RInv, IInv, KeysDrawn
      <2> QED BY <1>3, <2>2, <2>3, <2>4
<1>8. ASSUME NEW q \in Procs, req'[q].open, ~req'[q].tx.lost
      PROVE  Creates(req'[q], req'[q].tx.writes, db')
      <2>1. q # p BY <1>8, CommitIs, IdleIs
      <2>2. /\ req'[q].op = req[q].op /\ req'[q].new = req[q].new /\ req[q].open
            /\ req'[q].tx.writes = req[q].tx.writes
            /\ req'[q].tx = After(req[q].tx, req[p].tx)
            BY <1>8, <2>1, CommitLeaves
      <2>3. DOMAIN req[q].tx = TxFields BY DEF RInv, IInv, Shaped
      <2>4. ~req[q].tx.lost /\ DOMAIN req[q].tx.writes \cap DOMAIN w = {}
            BY <1>8, <2>2, <2>3 DEF After, TxFields
      <2>5. Creates(req[q], req[q].tx.writes, db) BY <2>2, <2>4 DEF RInv, AccountsDrawn
      <2>6. Creates(req[q], req[q].tx.writes, db')
            BY <1>1, <2>4, <2>5, Kinds DEF Creates
      <2> QED BY <2>2, <2>6, CreatesSame
<1>9. \A q \in Procs : (req'[q].open /\ ~req'[q].tx.lost) =>
          (Creates(req[q], req[q].tx.writes, db))'
      BY <1>8 DEF Creates
<1> QED BY <1>6, <1>7, <1>9 DEF AccountsDrawn

\* It keeps the rules, and leaves the others to keep them.
LEMMA CommitRuled ==
    ASSUME RInv, NEW p \in Procs, Commit(p)
    PROVE  Ruled'
<1> SUFFICES ASSUME Serial PROVE Ruled'
    <2>1. Serial' = Serial BY DEF Commit, Serial
    <2> QED BY <2>1 DEF Ruled
<1> DEFINE c == req[p].tx
<1>1. /\ c.writes = req[p].tx.writes /\ db' = Merge(db, c.writes)
      /\ req[p].open /\ MayCommit(backend, c)
      BY CommitIs
<1>2. DOMAIN db = Item /\ Typed(db, Item) /\ Safe(db) /\ backend \in Backends
      BY DEF RInv, Formed, IInv, Shaped, Ruled
<1>3. Ready(c.reads, c.writes, db) /\ Tidy(c)
      BY <1>1 DEF RInv, Formed, Ruled
<1>4. Safe(db')
      <2>1. Typed(c.writes, DOMAIN c.writes) BY <1>3 DEF Tidy
      <2> HIDE DEF c
      <2> QED BY <1>1, <1>2, <1>3, <2>1, SafeStays
<1>5. ASSUME NEW q \in Procs, req'[q].open, MayCommit(backend, req'[q].tx)
      PROVE  Ready(req'[q].tx.reads, req'[q].tx.writes, db')
      <2> DEFINE t == req[q].tx
      <2>1. q # p BY <1>5, CommitIs, IdleIs
      <2>2. req[q].open /\ req'[q].tx = After(t, c) BY <1>5, <2>1, CommitLeaves
      <2>3. backend = "postgres"
            <3>1. backend # "file" BY <1>1, <2>1, <2>2 DEF RInv, Alone
            <3> QED BY <3>1 DEF Serial, Serializable
      <2>4. DOMAIN t = TxFields BY DEF RInv, IInv, Shaped
      <2>5. /\ MayCommit(backend, t) /\ Compatible(t, c)
            /\ req'[q].tx.reads = t.reads /\ req'[q].tx.writes = t.writes
            <3> HIDE DEF t, c
            <3> QED BY <1>2, <1>5, <2>2, <2>3, <2>4, AfterCommit
      <2>6. Ready(t.reads, t.writes, db) /\ Tidy(t)
            BY <2>2, <2>5 DEF RInv, Formed, Ruled
      <2>7. Meeting(t, c, db) BY <1>2, <1>3, <2>5, <2>6 DEF Meeting
      <2>8. Ready(t.reads, t.writes, Merge(db, c.writes))
            <3> HIDE DEF t, c
            <3> QED BY <2>7, ReadyStays
      <2> QED BY <1>1, <2>5, <2>8
<1>6. backend' = backend BY DEF Commit
<1>7. Safe(db)'
      BY <1>4 DEF Safe, AdminKept, HasUsers, HasAdmin, FirstOnce, SessionsCurrent, Current,
                  CredentialsOwned
<1>8. \A q \in Procs : (req'[q].open /\ MayCommit(backend, req'[q].tx)) =>
          (Ready(req[q].tx.reads, req[q].tx.writes, db))'
      BY <1>5 DEF Ready, AdminStays, HasUsers, FirstAlone, OpensCurrent, Current, EndsSessions,
                  IssuesOwned, RemovesOwned
<1> QED BY <1>6, <1>7, <1>8 DEF Ruled

\* A commit keeps all of it.
LEMMA CommitRInv ==
    ASSUME RInv, NEW p \in Procs, Commit(p)
    PROVE  RInv'
<1>1. Formed' /\ AccountsDrawn' /\ Ruled' BY CommitFormed, CommitDrawn, CommitRuled
<1>2. Alone'
      <2>1. \A q \in Procs : req'[q].open => req[q].open
            BY CommitIs, CommitLeaves, IdleIs
      <2> QED BY <2>1 DEF Commit, RInv, Alone
<1>3. IInv' BY CommitIInv DEF RInv
<1> QED BY <1>1, <1>2, <1>3 DEF RInv

\* What every step preserves.
LEMMA NextRInv == RInv /\ [Next]_vars => RInv'
<1> SUFFICES ASSUME RInv, [Next]_vars PROVE RInv' OBVIOUS
<1>1. CASE UNCHANGED vars
      <2>1. IInv' BY <1>1, NextIInv DEF RInv
      <2> QED BY SMTT(30), <1>1, <2>1
              DEF vars, RInv, Formed, AccountsDrawn, Creates, Alone, Ruled, Serial,
                  Safe, AdminKept, HasUsers, HasAdmin, FirstOnce, SessionsCurrent, Current,
                  CredentialsOwned, Ready, AdminStays, FirstAlone, OpensCurrent, EndsSessions,
                  IssuesOwned, RemovesOwned, Typed, UserAt, SessionAt, ClientAt
<1>2. ASSUME NEW p \in Procs, NEW op \in Ops, Arrive(p, op) PROVE RInv' BY <1>2, ArriveRInv
<1>3. ASSUME NEW p \in Procs, Begin(p) PROVE RInv' BY <1>3, BeginRInv
<1>4. ASSUME NEW p \in Procs, Commit(p) PROVE RInv' BY <1>4, CommitRInv
<1>5. ASSUME NEW p \in Procs, Retry(p) PROVE RInv' BY <1>5, RetryRInv
<1>6. ASSUME NEW p \in Procs, Fail(p) PROVE RInv' BY <1>6, FailRInv
<1> QED BY <1>1, <1>2, <1>3, <1>4, <1>5, <1>6 DEF Next, Step

\* So it always holds.
LEMMA RInvHolds == Spec => []RInv
<1> QED BY InitRInv, NextRInv, PTL DEF Spec

(***************************************************************************)
(* IDs of sessions.                                                        *)
(***************************************************************************)
\* a session that r writes keeps its ID, is new, or takes the ID of one that
\* the same transaction removes
KeepsID(r, w, d) ==
    \A h \in Hashes : (S(h) \in DOMAIN w /\ w[S(h)] # Absent) =>
        \/ d[S(h)] # Absent /\ w[S(h)].id = d[S(h)].id
        \/ /\ r.op = "login" /\ h = r.new
           /\ \/ w[S(h)].id = r.new
              \/ \E g \in Hashes : /\ S(g) \in DOMAIN w /\ w[S(g)] = Absent
                                   /\ d[S(g)] # Absent /\ w[S(h)].id = d[S(g)].id

\* On the file store no attempt is refused, so that a sign-in's ID is the one
\* it drew and no record has it yet.
FileIDs ==
    backend = "file" =>
        /\ \A p \in Procs : req[p].open => ~req[p].tx.lost
        /\ \A p \in Procs : (req[p].op = "login" /\ ~req[p].open) => req[p].id = req[p].new
        /\ \A h \in Hashes : db[S(h)] # Absent =>
              /\ db[S(h)].id \in drawn
              /\ \A p \in Procs : req[p].op = "login" => db[S(h)].id # req[p].new
        /\ \A p \in Procs : req[p].open => KeepsID(req[p], req[p].tx.writes, db)

SInv == RInv /\ UniqueIDs(db) /\ FileIDs

\* Sessions that end keep their IDs.
LEMMA EndingKeeps ==
    ASSUME NEW r, NEW s, Typed(s, Item), NEW H \in SUBSET Hashes, \A h \in H : s[S(h)] # Absent
    PROVE  KeepsID(r, Ending(s, H), s)
<1> SUFFICES ASSUME NEW h \in Hashes, S(h) \in DOMAIN Ending(s, H)
             PROVE  s[S(h)] # Absent /\ Ending(s, H)[S(h)].id = s[S(h)].id
    BY DEF KeepsID
<1>1. h \in H BY Kinds DEF Ending
<1>2. s[S(h)] \in Session BY <1>1, Kinds DEF Typed, SessionAt
<1>3. Ending(s, H)[S(h)] = [s[S(h)] EXCEPT !.ended = TRUE] BY DEF Ending
<1> QED BY <1>1, <1>2, <1>3 DEF Session

\* What writes sessions of another transaction's besides writes their IDs.
LEMMA BesidesKeeps ==
    ASSUME NEW r, NEW s, NEW w, KeepsID(r, w, s), NEW k, \A h \in Hashes : k # S(h), NEW v
    PROVE  KeepsID(r, Put(w, k, v), s)
<1>1. /\ DOMAIN Put(w, k, v) = DOMAIN w \cup {k}
      /\ \A x \in DOMAIN w : x # k => Put(w, k, v)[x] = w[x]
      BY DEF Put
<1> DEFINE m == Put(w, k, v)
<1> HIDE DEF m
<1>2. \A h \in Hashes : S(h) \in DOMAIN m => S(h) \in DOMAIN w /\ m[S(h)] = w[S(h)]
      BY <1>1 DEF m
<1>3. \A h \in Hashes : S(h) \in DOMAIN w => S(h) \in DOMAIN m /\ m[S(h)] = w[S(h)]
      BY <1>1 DEF m
<1>4. KeepsID(r, m, s) BY <1>2, <1>3 DEF KeepsID
<1> QED BY <1>4 DEF m

\* A transaction that writes no session keeps IDs.
LEMMA NoSessionKeeps ==
    ASSUME NEW r, NEW s, NEW w, \A h \in Hashes : S(h) \notin DOMAIN w
    PROVE  KeepsID(r, w, s)
BY DEF KeepsID

\* Saving an account keeps IDs.
LEMMA SavingKeeps ==
    ASSUME NEW r, NEW s, Typed(s, Item), NEW u, NEW v
    PROVE  KeepsID(r, SavingUser(s, u, v), s)
<1> DEFINE H == OpenOf(s, u)
           old == IF s[U(u)] \notin {Absent, v} THEN Ending(s, H) ELSE None
<1>1. H \in SUBSET Hashes /\ \A h \in H : s[S(h)] # Absent BY LiveThere
<1>2. KeepsID(r, Ending(s, H), s)
      <2> HIDE DEF H
      <2> QED BY <1>1, EndingKeeps
<1>3. KeepsID(r, None, s) BY NoSessionKeeps DEF None
<1>4. KeepsID(r, old, s)
      <2>1. CASE s[U(u)] \notin {Absent, v} BY <1>2, <2>1
      <2>2. CASE s[U(u)] \in {Absent, v} BY <1>3, <2>2
      <2> QED BY <2>1, <2>2
<1>5. SavingUser(s, u, v) = Put(old, U(u), v) BY DEF SavingUser
<1>6. \A h \in Hashes : U(u) # S(h) BY Kinds
<1> HIDE DEF old
<1> QED BY <1>4, <1>5, <1>6, BesidesKeeps

\* A sign-in that has not been tried before takes its own ID or the old one.
LEMMA LoginKeeps ==
    ASSUME NEW r, NEW s, NEW e, Called(r, s, e), r.op = "login", r.id = r.new
    PROVE  KeepsID(r, e.writes, s)
<1> DEFINE again == Live(s, r.by) /\ s[S(r.by)].user = r.on
           id  == IF again THEN s[S(r.by)].id ELSE r.id
           old == IF again THEN Put(None, S(r.by), Absent)
                  ELSE IF Live(s, r.by) THEN Ending(s, Sharing(s, s[S(r.by)].id))
                  ELSE None
           new == [id |-> id, user |-> r.on, ended |-> FALSE, cred |-> r.seen]
           w   == Put(old, S(r.new), new)
<1>1. e \in Login(r, s) BY DEF Called, Callback
<1>2. e.writes = w BY <1>1 DEF Login, Ran
<1>3. /\ r.new \in Hashes /\ r.by \in Hashes \cup {Nobody} /\ Typed(s, Item)
      BY DEF Called, Asks
<1>4. new.id = id OBVIOUS
<1>5. again => r.by \in Hashes /\ s[S(r.by)] # Absent BY <1>3 DEF Live
<1>6. again => DOMAIN old = {S(r.by)} /\ old[S(r.by)] = Absent BY PutOne
<1>7. KeepsID(r, old, s)
      <2>1. CASE again
            <3> HIDE DEF old, again
            <3>1. \A h \in Hashes : S(h) \in DOMAIN old => old[S(h)] = Absent
                  BY <1>6, <2>1
            <3> QED BY <3>1 DEF KeepsID
      <2>2. CASE ~again /\ Live(s, r.by)
            <3> DEFINE H == Sharing(s, s[S(r.by)].id)
            <3>1. H \in SUBSET Hashes /\ \A h \in H : s[S(h)] # Absent BY LiveThere
            <3>2. old = Ending(s, H) BY <2>2
            <3> HIDE DEF H, old
            <3>3. KeepsID(r, Ending(s, H), s) BY <1>3, <3>1, EndingKeeps
            <3> QED BY <3>2, <3>3
      <2>3. CASE ~again /\ ~Live(s, r.by)
            <3>1. old = None BY <2>3
            <3> HIDE DEF old
            <3> QED BY <3>1, NoSessionKeeps DEF None
      <2> QED BY <2>1, <2>2, <2>3
<1>8. ~again => id = r.new OBVIOUS
<1>9. again => id = s[S(r.by)].id OBVIOUS
<1> HIDE DEF old, new, id, again
<1>10. /\ DOMAIN w = DOMAIN old \cup {S(r.new)} /\ w[S(r.new)] = new
       /\ \A x \in DOMAIN old : x # S(r.new) => w[x] = old[x]
       BY DEF Put
<1> HIDE DEF w
<1>11. \A h \in Hashes : h # r.new => S(h) # S(r.new) BY Kinds
<1>12. ASSUME NEW h \in Hashes, S(h) \in DOMAIN w, w[S(h)] # Absent
       PROVE  \/ s[S(h)] # Absent /\ w[S(h)].id = s[S(h)].id
              \/ /\ h = r.new
                 /\ \/ w[S(h)].id = r.new
                    \/ \E g \in Hashes : /\ S(g) \in DOMAIN w /\ w[S(g)] = Absent
                                         /\ s[S(g)] # Absent /\ w[S(h)].id = s[S(g)].id
       <2>1. CASE h # r.new
             <3>1. S(h) \in DOMAIN old /\ w[S(h)] = old[S(h)]
                   BY <1>10, <1>11, <1>12, <2>1
             <3> QED BY <1>7, <1>12, <2>1, <3>1 DEF KeepsID
       <2>2. CASE h = r.new /\ ~again
             BY <1>4, <1>8, <1>10, <2>2
       <2>3. CASE h = r.new /\ again
             <3>1. CASE r.by = r.new BY <1>4, <1>5, <1>9, <1>10, <2>3, <3>1
             <3>2. CASE r.by # r.new
                   <4>1. r.by \in Hashes /\ s[S(r.by)] # Absent BY <1>5, <2>3
                   <4>2. S(r.by) \in DOMAIN w /\ w[S(r.by)] = Absent
                         BY <1>6, <1>10, <1>11, <2>3, <3>2, <4>1
                   <4>3. w[S(h)].id = s[S(r.by)].id BY <1>4, <1>9, <1>10, <2>3
                   <4> QED BY <2>3, <4>1, <4>2, <4>3
             <3> QED BY <3>1, <3>2
       <2> QED BY <2>1, <2>2, <2>3
<1>13. KeepsID(r, w, s) BY <1>12 DEF KeepsID
<1> QED BY <1>2, <1>13

\* Whatever a callback returns keeps IDs.
LEMMA CallbackKeeps ==
    ASSUME NEW r, NEW s, NEW e, Called(r, s, e), Named(r), r.op \in Ops,
           r.op = "login" => r.id = r.new
    PROVE  KeepsID(r, e.writes, s)
<1>1. Typed(s, Item) BY DEF Called
<1>2. CASE r.op = "login" BY <1>2, LoginKeeps
<1>3. CASE r.op = "logout"
      <2> DEFINE H == Sharing(s, s[S(r.by)].id)
      <2>1. e \in Logout(r, s) BY <1>3 DEF Called, Callback
      <2>2. e.writes = Ending(s, H) BY <2>1, RanWrites DEF Logout
      <2>3. H \in SUBSET Hashes /\ \A h \in H : s[S(h)] # Absent BY LiveThere
      <2> HIDE DEF H
      <2> QED BY <1>1, <2>2, <2>3, EndingKeeps
<1>4. CASE r.op = "update"
      <2> DEFINE v == [s[U(r.on)] EXCEPT !.role = r.arg.role, !.active = r.arg.active]
      <2>1. e \in UpdateUser(r, s) BY <1>4 DEF Called, Callback
      <2>2. e.writes = SavingUser(s, r.on, v) BY <2>1, AdminWrites DEF UpdateUser
      <2> HIDE DEF v
      <2> QED BY <1>1, <2>2, SavingKeeps
<1>5. CASE r.op = "delete"
      <2> DEFINE H == OpenOf(s, r.on)
                 old == Ending(s, H)
      <2>1. e \in DeleteUser(r, s) BY <1>5 DEF Called, Callback
      <2>2. e.writes = Put(old, U(r.on), Absent) BY <2>1, AdminWrites DEF DeleteUser
      <2>3. H \in SUBSET Hashes /\ \A h \in H : s[S(h)] # Absent BY LiveThere
      <2>4. KeepsID(r, old, s)
            <3> HIDE DEF H
            <3> QED BY <1>1, <2>3, EndingKeeps
      <2>5. \A h \in Hashes : U(r.on) # S(h) BY Kinds
      <2> HIDE DEF old
      <2> QED BY <2>2, <2>4, <2>5, BesidesKeeps
<1>6. CASE r.op = "password"
      <2> DEFINE u == s[S(r.by)].user
                 v == [s[U(u)] EXCEPT !.cred = r.seen + 1]
      <2>1. e \in ChangePassword(r, s) BY <1>6 DEF Called, Callback
      <2>2. e.writes = SavingUser(s, u, v) BY <2>1, RanWrites DEF ChangePassword
      <2> HIDE DEF u, v
      <2> QED BY <1>1, <2>2, SavingKeeps
<1>7. CASE r.op \in {"bootstrap", "create"}
      <2>1. \E v : e.writes = Put(None, U(r.new), v)
            <3>1. CASE r.op = "bootstrap"
                  <4>1. e \in Bootstrap(r, s) BY <3>1 DEF Called, Callback
                  <4> QED BY <4>1, RanWrites DEF Bootstrap
            <3>2. CASE r.op = "create"
                  <4>1. e \in CreateUser(r, s) BY <3>2 DEF Called, Callback
                  <4> QED BY ZenonT(40), <4>1, AdminWrites DEF CreateUser
            <3> QED BY <1>7, <3>1, <3>2
      <2>2. DOMAIN e.writes = {U(r.new)} BY <2>1, PutOne
      <2> QED BY <2>2, Kinds, NoSessionKeeps
<1>8. CASE r.op \in {"issue", "revoke"}
      <2>1. \E i, v : e.writes = Put(None, I(i), v)
            <3>1. CASE r.op = "issue"
                  <4>1. e \in IssueInitialToken(r, s) BY <3>1 DEF Called, Callback
                  <4> QED BY <4>1, AdminWrites DEF IssueInitialToken
            <3>2. CASE r.op = "revoke"
                  <4>1. e \in RevokeInitialToken(r, s) BY <3>2 DEF Called, Callback
                  <4> QED BY <4>1, AdminWrites DEF RevokeInitialToken
            <3> QED BY <1>8, <3>1, <3>2
      <2>2. PICK i, v : e.writes = Put(None, I(i), v) BY <2>1
      <2>3. DOMAIN e.writes = {I(i)} BY <2>2, PutOne
      <2> QED BY <2>3, Apart, NoSessionKeeps
<1>9. CASE r.op \in {"manage", "register", "remove"}
      <2>1. CASE r.op = "manage"
            <3>1. e \in ManageRegistrationToken(r, s) BY <2>1 DEF Called, Callback
            <3>2. \E v : e.writes = Put(None, R(r.on), v)
                  BY <3>1, AdminWrites DEF ManageRegistrationToken
            <3>3. DOMAIN e.writes = {R(r.on)} BY <3>2, PutOne
            <3> QED BY <3>3, Kinds, NoSessionKeeps
      <2>2. CASE r.op = "register"
            <3>1. e \in RegisterClient(r, s) BY <2>2 DEF Called, Callback
            <3>2. \E v, x : e.writes = Put(Put(Put(None, C(r.new), v), R(r.new), Issued),
                                           I(r.on), x)
                  BY <3>1, RanWrites DEF RegisterClient
            <3>3. DOMAIN e.writes = {C(r.new), R(r.new), I(r.on)} BY <3>2 DEF Put, None
            <3> QED BY <3>3, Kinds, Apart, NoSessionKeeps
      <2>3. CASE r.op = "remove"
            <3>1. e \in DeleteClient(r, s) BY <2>3 DEF Called, Callback, Ops
            <3>2. e.writes = Removal(r.on) BY <3>1, AdminWrites DEF DeleteClient
            <3>3. DOMAIN e.writes = {C(r.on), R(r.on)} BY <3>2 DEF Removal, Put, None
            <3> QED BY <3>3, Kinds, NoSessionKeeps
      <2> QED BY <1>9, <2>1, <2>2, <2>3
<1> QED BY <1>2, <1>3, <1>4, <1>5, <1>6, <1>7, <1>8, <1>9 DEF Ops

\* Dropping removals of what is not there keeps IDs.
LEMMA WrittenKeeps ==
    ASSUME NEW r, NEW s, NEW w, KeepsID(r, w, s)
    PROVE  KeepsID(r, Written(s, w), s)
<1> DEFINE m == Written(s, w)
<1>1. /\ \A k \in DOMAIN m : k \in DOMAIN w /\ m[k] = w[k]
      /\ \A k \in DOMAIN w : s[k] # Absent => k \in DOMAIN m
      BY DEF Written
<1> HIDE DEF m
<1>2. KeepsID(r, m, s) BY <1>1 DEF KeepsID
<1> QED BY <1>2 DEF m

\* At first no record has an ID.
LEMMA InitSInv == Init => SInv
<1> SUFFICES ASSUME Init PROVE SInv OBVIOUS
<1>1. \A k \in Item : db[k] = Absent BY DEF Init
<1>2. \A p \in Procs : req[p] = Idle BY DEF Init
<1>3. UniqueIDs(db) BY <1>1, Kinds DEF UniqueIDs
<1>4. FileIDs BY <1>1, <1>2, IdleIs, Kinds DEF FileIDs
<1> QED BY <1>3, <1>4, InitRInv DEF SInv

\* A step of one process that leaves what is committed alone keeps the IDs
\* apart.
LEMMA SteadyIDs ==
    ASSUME SInv, NEW p \in Procs, backend' = backend, db' = db, drawn \subseteq drawn',
           \A q \in Procs : q # p => req'[q] = req[q],
           backend = "file" =>
               /\ req'[p].open => ~req'[p].tx.lost /\ KeepsID(req'[p], req'[p].tx.writes, db)
               /\ req'[p].op = "login" /\ ~req'[p].open => req'[p].id = req'[p].new
               /\ req'[p].op = "login" =>
                     \A h \in Hashes : db[S(h)] # Absent => db[S(h)].id # req'[p].new
    PROVE  UniqueIDs(db)' /\ FileIDs'
<1>1. UniqueIDs(db)' BY DEF SInv, UniqueIDs
<1> SUFFICES ASSUME backend = "file" PROVE FileIDs' BY <1>1 DEF FileIDs
<1>2. \A q \in Procs : req'[q].open => ~req'[q].tx.lost BY DEF SInv, FileIDs
<1>3. \A q \in Procs : (req'[q].op = "login" /\ ~req'[q].open) => req'[q].id = req'[q].new
      BY DEF SInv, FileIDs
<1>4. \A h \in Hashes : db[S(h)] # Absent =>
          /\ db[S(h)].id \in drawn'
          /\ \A q \in Procs : req'[q].op = "login" => db[S(h)].id # req'[q].new
      BY DEF SInv, FileIDs
<1>5. \A q \in Procs : req'[q].open => KeepsID(req'[q], req'[q].tx.writes, db)
      BY DEF SInv, FileIDs
<1> QED BY <1>2, <1>3, <1>4, <1>5 DEF FileIDs, KeepsID

\* An arrival draws a new key.
LEMMA ArriveSInv ==
    ASSUME SInv, NEW p \in Procs, NEW op \in Ops, Arrive(p, op)
    PROVE  SInv'
<1>1. PICK r \in Arrivals(op) :
         /\ req' = [req EXCEPT ![p] = r]
         /\ drawn' = drawn \cup ({r.new} \ {Nobody})
      BY DEF Arrive
<1>2. /\ ~r.open /\ r.op = op
      /\ r.new = Nobody \/ r.new \notin drawn
      BY Arrived
<1>3. Asks(r) BY ArrivedAsks DEF SInv
<1>4. backend' = backend /\ db' = db /\ drawn \subseteq drawn' BY <1>1 DEF Arrive
<1>5. req'[p] = r /\ \A q \in Procs : q # p => req'[q] = req[q]
      BY <1>1 DEF SInv, RInv, IInv, Shaped
<1>6. r.op = "login" => r.id = r.new
      <2>1. ASSUME op = "login" PROVE r.id = r.new
            <3>1. \E old \in Cookies \cup {Nobody}, h \in Fresh(Hashes), u \in MaySignIn :
                     r = Request(op, old, u, 0, h, db[U(u)].cred)
                  BY <2>1 DEF Arrivals
            <3> QED BY <3>1 DEF Request
      <2> QED BY <1>2, <2>1
<1>7. r.op = "login" => r.new \notin drawn
      BY <1>2, <1>3, AccountsAssumption DEF Asks
<1>8. backend = "file" /\ r.op = "login" =>
          \A h \in Hashes : db[S(h)] # Absent => db[S(h)].id # r.new
      BY <1>7 DEF SInv, FileIDs
<1>9. UniqueIDs(db)' /\ FileIDs' BY <1>2, <1>4, <1>5, <1>6, <1>8, SteadyIDs
<1>10. RInv' BY ArriveRInv DEF SInv
<1> QED BY <1>9, <1>10 DEF SInv

\* A request that ends leaves no record.
LEMMA FailSInv ==
    ASSUME SInv, NEW p \in Procs, Fail(p)
    PROVE  SInv'
<1>1. backend' = backend /\ db' = db /\ drawn' = drawn BY DEF Fail
<1>2. req'[p] = Idle /\ \A q \in Procs : q # p => req'[q] = req[q]
      BY DEF Fail, SInv, RInv, IInv, Shaped
<1>3. UniqueIDs(db)' /\ FileIDs' BY <1>1, <1>2, IdleIs, SteadyIDs
<1>4. RInv' BY FailRInv DEF SInv
<1> QED BY <1>3, <1>4 DEF SInv

\* The file store refuses no attempt.
LEMMA RetrySInv ==
    ASSUME SInv, NEW p \in Procs, Retry(p)
    PROVE  SInv'
<1>1. backend' = backend /\ db' = db /\ drawn' = drawn BY DEF Retry
<1>2. \A q \in Procs : q # p => req'[q] = req[q]
      BY DEF Retry, SInv, RInv, IInv, Shaped
<1>3. backend # "file"
      BY DEF Retry, InWrite, MayRefuse, SInv, FileIDs
<1>4. UniqueIDs(db)' /\ FileIDs' BY <1>1, <1>2, <1>3, SteadyIDs
<1>5. RInv' BY RetryRInv DEF SInv
<1> QED BY <1>4, <1>5 DEF SInv

\* An attempt that begins writes new IDs, or ones it takes away.
LEMMA BeginSInv ==
    ASSUME SInv, NEW p \in Procs, Begin(p)
    PROVE  SInv'
<1>1. backend' = backend /\ db' = db /\ drawn' = drawn BY DEF Begin
<1>2. \A q \in Procs : q # p => req'[q] = req[q]
      BY DEF Begin, SInv, RInv, IInv, Shaped
<1>3. RInv /\ RInv' BY BeginRInv DEF SInv
<1>4. PICK e \in Callback(req[p], db) :
              LET w == Written(db, e.writes)
                  t == Open(ReadBy(e), w, Marks(db, w))
              IN  /\ req'[p].tx = t /\ req'[p].open = TRUE /\ req'[p].id = e.id
                  /\ req'[p].op = req[p].op /\ req'[p].on = req[p].on
                  /\ req'[p].by = req[p].by /\ req'[p].arg = req[p].arg
                  /\ req'[p].new = req[p].new /\ req'[p].seen = req[p].seen
                  /\ Fit(req[p], ReadBy(e), e.writes, db)
                  /\ req[p].op = "login" => e.id \in Hashes
      BY <1>3, BeginIs
<1> DEFINE w == Written(db, e.writes)
<1>5. /\ req'[p].tx.lost = FALSE /\ req'[p].tx.writes = w
      BY <1>4 DEF Open
<1>6. req[p].op \in Ops /\ ~req[p].open BY <1>3 DEF RInv, IInv, Shaped, Begin, Busy
<1>7. Called(req[p], db, e) /\ Named(req[p])
      BY <1>3 DEF Called, RInv, Formed, AccountsDrawn, IInv, RequestsNamed
<1>8. backend = "file" /\ req[p].op = "login" => req[p].id = req[p].new
      BY <1>6 DEF SInv, FileIDs
<1>9. backend = "file" => KeepsID(req[p], w, db)
      BY <1>6, <1>7, <1>8, CallbackKeeps, WrittenKeeps
<1> HIDE DEF w
<1>10. backend = "file" => KeepsID(req'[p], w, db) BY <1>4, <1>9 DEF KeepsID
<1>11. backend = "file" /\ req'[p].op = "login" =>
           \A h \in Hashes : db[S(h)] # Absent => db[S(h)].id # req'[p].new
       BY <1>4 DEF SInv, FileIDs
<1>12. req'[p].open = TRUE BY <1>4
<1>13. UniqueIDs(db)' /\ FileIDs'
       BY <1>1, <1>2, <1>5, <1>10, <1>11, <1>12, SteadyIDs
<1> QED BY <1>3, <1>13 DEF SInv

\* On the file store a commit gives a new ID, or one that it takes away.
LEMMA CommitSInv ==
    ASSUME SInv, NEW p \in Procs, Commit(p)
    PROVE  SInv'
<1>1. RInv /\ RInv' BY CommitRInv DEF SInv
<1>2. CASE backend # "file"
      <2>1. UniqueIDs(db') /\ backend' = backend BY <1>2 DEF Commit
      <2>2. UniqueIDs(db)' BY <2>1 DEF UniqueIDs
      <2> QED BY <1>1, <1>2, <2>1, <2>2 DEF SInv, FileIDs
<1>3. CASE backend = "file"
      <2> DEFINE w == req[p].tx.writes
      <2>1. /\ req'[p] = Idle /\ req[p].open
            /\ \A k \in Item : k \in DOMAIN w => db'[k] = w[k]
            /\ \A k \in Item : k \notin DOMAIN w => db'[k] = db[k]
            BY <1>1, CommitIs
      <2>2. \A q \in Procs : q # p => ~req[q].open
            BY <1>1, <1>3, <2>1 DEF RInv, Alone
      <2>3. \A q \in Procs : q # p => req'[q] = req[q] BY <1>1, <2>2, CommitIs
      <2>4. KeepsID(req[p], w, db) BY <1>3, <2>1 DEF SInv, FileIDs
      <2>5. req[p].op = "login" =>
               /\ req[p].new \in Hashes /\ req[p].new # Nobody /\ req[p].new \in drawn
               /\ \A h \in Hashes : db[S(h)] # Absent => db[S(h)].id # req[p].new
            BY <1>1, <1>3, AccountsAssumption
            DEF RInv, Formed, Asks, IInv, KeysDrawn, SInv, FileIDs
      <2> HIDE DEF w
      \* where a record's ID comes from
      <2>6. ASSUME NEW h \in Hashes, db'[S(h)] # Absent
            PROVE  \/ db[S(h)] # Absent /\ db'[S(h)].id = db[S(h)].id
                   \/ /\ req[p].op = "login" /\ h = req[p].new
                      /\ \/ db'[S(h)].id = req[p].new
                         \/ \E g \in Hashes : /\ db'[S(g)] = Absent /\ db[S(g)] # Absent
                                              /\ db'[S(h)].id = db[S(g)].id
            <3>1. CASE S(h) \notin DOMAIN w BY <2>1, <2>6, <3>1, Kinds
            <3>2. CASE S(h) \in DOMAIN w
                  <4>1. db'[S(h)] = w[S(h)] BY <2>1, <3>2, Kinds
                  <4>2. \A g \in Hashes : S(g) \in DOMAIN w => db'[S(g)] = w[S(g)]
                        BY <2>1, Kinds
                  <4> QED BY <2>4, <2>6, <3>2, <4>1, <4>2 DEF KeepsID
            <3> QED BY <3>1, <3>2
      <2>7. UniqueIDs(db)'
            <3> SUFFICES ASSUME NEW g \in Hashes, NEW h \in Hashes, db'[S(g)] # Absent,
                                db'[S(h)] # Absent, db'[S(g)].id = db'[S(h)].id
                         PROVE  g = h
                BY DEF UniqueIDs
            <3>1. \A x, y \in Hashes : db[S(x)] # Absent /\ db[S(y)] # Absent
                                       /\ db[S(x)].id = db[S(y)].id => x = y
                  BY DEF SInv, UniqueIDs
            <3>2. CASE /\ db[S(g)] # Absent /\ db'[S(g)].id = db[S(g)].id
                       /\ db[S(h)] # Absent /\ db'[S(h)].id = db[S(h)].id
                  BY <3>1, <3>2
            <3>3. ASSUME NEW x \in Hashes, NEW y \in Hashes, db'[S(x)] # Absent,
                         db'[S(y)] # Absent, db'[S(x)].id = db'[S(y)].id,
                         ~(db[S(x)] # Absent /\ db'[S(x)].id = db[S(x)].id)
                  PROVE  x = y
                  <4>1. /\ req[p].op = "login" /\ x = req[p].new
                        /\ \/ db'[S(x)].id = req[p].new
                           \/ \E z \in Hashes : /\ db'[S(z)] = Absent /\ db[S(z)] # Absent
                                                /\ db'[S(x)].id = db[S(z)].id
                        BY <2>6, <3>3
                  <4>2. CASE db[S(y)] # Absent /\ db'[S(y)].id = db[S(y)].id
                        <5>1. db[S(y)].id # req[p].new BY <2>5, <4>1, <4>2
                        <5>2. PICK z \in Hashes : /\ db'[S(z)] = Absent /\ db[S(z)] # Absent
                                                  /\ db'[S(x)].id = db[S(z)].id
                              BY <3>3, <4>1, <4>2, <5>1
                        <5>3. z = y BY <3>1, <3>3, <4>2, <5>2
                        <5> QED BY <3>3, <5>2, <5>3
                  <4>3. CASE ~(db[S(y)] # Absent /\ db'[S(y)].id = db[S(y)].id)
                        <5>1. y = req[p].new BY <2>6, <3>3, <4>3
                        <5> QED BY <4>1, <5>1
                  <4> QED BY <4>2, <4>3
            <3> QED BY <3>2, <3>3
      <2>8. drawn' = drawn /\ backend' = backend BY DEF Commit
      <2>9. ASSUME NEW h \in Hashes, db'[S(h)] # Absent
            PROVE  /\ db'[S(h)].id \in drawn'
                   /\ \A q \in Procs : req'[q].op = "login" => db'[S(h)].id # req'[q].new
            <3>1. \A g \in Hashes : db[S(g)] # Absent =>
                     /\ db[S(g)].id \in drawn
                     /\ \A q \in Procs : req[q].op = "login" => db[S(g)].id # req[q].new
                  BY <1>3 DEF SInv, FileIDs
            <3>2. \/ \E g \in Hashes : db[S(g)] # Absent /\ db'[S(h)].id = db[S(g)].id
                  \/ req[p].op = "login" /\ db'[S(h)].id = req[p].new
                  BY <2>6, <2>9
            <3>3. db'[S(h)].id \in drawn' BY <2>5, <2>8, <3>1, <3>2
            <3>4. ASSUME NEW q \in Procs, req'[q].op = "login"
                  PROVE  db'[S(h)].id # req'[q].new
                  <4>1. q # p BY <2>1, <3>4, IdleIs
                  <4>2. req'[q] = req[q] BY <2>3, <4>1
                  <4>3. req[p].op = "login" => req[p].new # req[q].new
                        BY <1>1, <2>5, <4>1 DEF RInv, IInv, KeysDrawn
                  <4> QED BY <3>1, <3>2, <3>4, <4>2, <4>3
            <3> QED BY <3>3, <3>4
      <2>10. \A q \in Procs : ~req'[q].open BY <2>1, <2>2, <2>3, IdleIs
      <2>11. \A q \in Procs : req'[q].op = "login" => req'[q].id = req'[q].new
             BY <1>3, <2>1, <2>2, <2>3, IdleIs DEF SInv, FileIDs
      <2>12. FileIDs' BY <2>9, <2>10, <2>11 DEF FileIDs
      <2> QED BY <1>1, <2>7, <2>12 DEF SInv
<1> QED BY <1>2, <1>3

\* What every step preserves.
LEMMA NextSInv == SInv /\ [Next]_vars => SInv'
<1> SUFFICES ASSUME SInv, [Next]_vars PROVE SInv' OBVIOUS
<1>1. CASE UNCHANGED vars
      <2>1. RInv' BY <1>1, NextRInv DEF SInv
      <2> QED BY <1>1, <2>1 DEF vars, SInv, UniqueIDs, FileIDs, KeepsID
<1>2. ASSUME NEW p \in Procs, NEW op \in Ops, Arrive(p, op) PROVE SInv' BY <1>2, ArriveSInv
<1>3. ASSUME NEW p \in Procs, Begin(p) PROVE SInv' BY <1>3, BeginSInv
<1>4. ASSUME NEW p \in Procs, Commit(p) PROVE SInv' BY <1>4, CommitSInv
<1>5. ASSUME NEW p \in Procs, Retry(p) PROVE SInv' BY <1>5, RetrySInv
<1>6. ASSUME NEW p \in Procs, Fail(p) PROVE SInv' BY <1>6, FailSInv
<1> QED BY <1>1, <1>2, <1>3, <1>4, <1>5, <1>6 DEF Next, Step

\* So it always holds.
LEMMA SInvHolds == Spec => []SInv
<1> QED BY InitSInv, NextSInv, PTL DEF Spec

(***************************************************************************)
(* The theorems.                                                           *)
(***************************************************************************)
\* Records have their fields and requests write records, on every backend.
THEOREM TypeCorrect == Spec => []TypeOK
<1>1. RInv => TypeOK
      <2> SUFFICES ASSUME RInv PROVE TypeOK OBVIOUS
      <2>1. /\ \A u \in Users : db[U(u)] \in User \cup {Absent}
            /\ \A h \in Hashes : db[S(h)] \in Session \cup {Absent}
            /\ \A c \in Clients : db[C(c)] \in Client \cup {Absent} /\ db[R(c)] \in {Issued, Absent}
            BY Kinds DEF RInv, Formed, Typed, UserAt, SessionAt, ClientAt
      <2>2. \A i \in Initials :
               db[I(i)] = Absent \/ (db[I(i)] \in Initial /\ db[I(i)].uses <= db[I(i)].max)
            BY DEF RInv, IInv, Counts
      <2>3. \A p \in Procs :
               req[p].op \in Ops \cup {"idle"} /\ DOMAIN req[p].tx.writes \subseteq Item
            BY IdleIs DEF RInv, IInv, Shaped, Formed, Tidy
      <2>4. backend \in Backends /\ born \subseteq Clients \X Initials BY DEF RInv, Formed
      <2> QED BY <2>1, <2>2, <2>3, <2>4 DEF TypeOK
<1> QED BY <1>1, RInvHolds, PTL

\* While there are accounts an active administrator remains (lastAdmin), on
\* the backends that are serializable: whatever administrators do to each
\* other, each at most sees the others as they are.
THEOREM AdminsRemain == Spec => []AdminRemains
<1>1. RInv => AdminRemains
      <2> SUFFICES ASSUME RInv, Serial PROVE AdminAlways BY DEF AdminRemains
      <2>1. HasUsers(db) => HasAdmin(db) BY DEF RInv, Ruled, Safe, AdminKept
      <2> QED BY <2>1 DEF HasUsers, HasAdmin, ActiveAdmin, ActiveUser, AdminAlways, Admins
<1> QED BY <1>1, RInvHolds, PTL

\* The first-run form makes one account, however many submit it (Bootstrap).
THEOREM FirstRunIsOnce == Spec => []FirstRunOnce
<1>1. RInv => FirstRunOnce
      <2> SUFFICES ASSUME RInv, Serial
                   PROVE  Cardinality({u \in Users : db[U(u)] # Absent /\ db[U(u)].first}) <= 1
          BY DEF FirstRunOnce
      <2> DEFINE F == {u \in Users : db[U(u)] # Absent /\ db[U(u)].first}
      <2>1. \A u, o \in F : u = o BY DEF RInv, Ruled, Safe, FirstOnce, IsFirst
      <2> HIDE DEF F
      <2>2. CASE F = {}
            <3>1. Cardinality(F) = 0 BY <2>2, FS_EmptySet
            <3> QED BY <3>1 DEF F
      <2>3. CASE F # {}
            <3>1. PICK u : u \in F BY <2>3
            <3>2. F = {u} BY <2>1, <3>1
            <3>3. Cardinality(F) = 1 BY <3>2, FS_Singleton
            <3> QED BY <3>3 DEF F
      <2> QED BY <2>2, <2>3
<1> QED BY <1>1, RInvHolds, PTL

\* An open session has the credentials of its account as they are now, and
\* the account is active (Login, UpdateUser, ChangePassword).
THEOREM SignInsAreCurrent == Spec => []SignInsCurrent
<1>1. RInv => SignInsCurrent
      <2> SUFFICES ASSUME RInv, Serial, NEW h \in Hashes, Live(db, h)
                   PROVE  LET s == db[S(h)] IN
                          db[U(s.user)] # Absent /\ db[U(s.user)].active
                          /\ db[U(s.user)].cred = s.cred
          BY DEF SignInsCurrent
      <2>1. Opened(db[S(h)]) BY DEF Live, Opened
      <2>2. Current(db, db[S(h)]) BY <2>1 DEF RInv, Ruled, Safe, SessionsCurrent
      <2> QED BY <2>2 DEF Current, ActiveUser
<1> QED BY <1>1, RInvHolds, PTL

\* A registration access token belongs to a client that is there
\* (DeleteClient, ManageRegistrationToken).
THEOREM CredentialsHaveClients == Spec => []NoOrphanCredential
<1>1. RInv => NoOrphanCredential
      BY DEF RInv, Ruled, Safe, CredentialsOwned, NoOrphanCredential
<1> QED BY <1>1, RInvHolds, PTL

\* A session's ID names one record, on every backend: where there is no
\* unique index, transactions take turns (CreateSession).
THEOREM OneRecord == Spec => []OneRecordPerID
<1>1. SInv => OneRecordPerID
      <2> SUFFICES ASSUME SInv, NEW id \in Hashes
                   PROVE  Cardinality({h \in Hashes : db[S(h)] # Absent /\ db[S(h)].id = id}) <= 1
          BY DEF OneRecordPerID
      <2> DEFINE F == {h \in Hashes : db[S(h)] # Absent /\ db[S(h)].id = id}
      <2>1. \A g, h \in F : g = h BY DEF SInv, UniqueIDs
      <2> HIDE DEF F
      <2>2. CASE F = {}
            <3>1. Cardinality(F) = 0 BY <2>2, FS_EmptySet
            <3> QED BY <3>1 DEF F
      <2>3. CASE F # {}
            <3>1. PICK h : h \in F BY <2>3
            <3>2. F = {h} BY <2>1, <3>1
            <3>3. Cardinality(F) = 1 BY <3>2, FS_Singleton
            <3> QED BY <3>3 DEF F
      <2> QED BY <2>2, <2>3
<1> QED BY <1>1, SInvHolds, PTL
=============================================================================
