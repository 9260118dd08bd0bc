--------------------------- MODULE LogoutDelivery ---------------------------
(***************************************************************************)
(* The logout outbox (src/internal/oidc/logout_delivery.go).  Ending an    *)
(* app session saves, in the same Write, one job per channel its client    *)
(* registered.  Every server process runs a worker, and a browser that     *)
(* confirmed a logout runs the same routine once: lease a job in one       *)
(* Write, POST to the relying party outside any transaction, record the    *)
(* result in another Write if the job still carries that lease.  A process *)
(* may stop, and a browser may give up, between any two of these.          *)
(*                                                                         *)
(* Jobs are keyed by app session and channel, as their IDs are.  A lease   *)
(* token is drawn at random for each attempt; here it is the number of the *)
(* attempt, which no other lease of the job has, and 0 is no lease.        *)
(* Module Provider has the other half of EndAppSession.  As there, one     *)
(* action is one Write and an operator from box to box is what it runs.    *)
(***************************************************************************)
EXTENDS Integers, FiniteSets

CONSTANTS
    Procs,           \* server processes
    Apps,            \* app sessions
    OpOf, ClientOf,  \* the OP session and the client of each
    ExpiresOf,       \* when each OP session expires
    Endpoints,       \* logout URIs a client may register
    Unset,           \* no logout URI registered
    Registrations,   \* the logout URIs a client may have per channel
    LeaseTTL,        \* 30 s
    RetryWindow,     \* 24 h
    MaxDelay,        \* 1 h, the longest wait between attempts
    Retention,       \* 30 days
    MaxTime, MaxEnd, \* bounds: the clock, and the last time a logout happens
    MaxLate,         \* bound: how long an attempt outlives its lease
    MaxActs          \* bound: client changes and administrator's retries

Channels == {"backchannel", "frontchannel"}
Ops      == {OpOf[a] : a \in Apps}
Clients  == {ClientOf[a] : a \in Apps}
Keys     == Apps \X (Channels \cup {"none"})
Metadata == [Channels -> Endpoints \cup {Unset}]

ASSUME DeliveryAssumption ==
    /\ DOMAIN OpOf = Apps /\ DOMAIN ClientOf = Apps
    /\ ExpiresOf \in [Ops -> Nat]
    /\ Unset \notin Endpoints
    /\ Registrations \subseteq Metadata
    /\ {LeaseTTL, RetryWindow, MaxDelay} \subseteq Nat \ {0}
    /\ {Retention, MaxTime, MaxEnd, MaxLate, MaxActs} \subseteq Nat
    /\ LeaseTTL + RetryWindow <= Retention

VARIABLES
    box,     \* the app sessions retained (when each ended, 0: open) and the jobs
    clients, \* the clients there are, with their logout URIs
    flight,  \* the attempt each process is making
    now,
    reached, \* history: jobs whose POST arrived or whose frame was served
    acts     \* counts client changes and administrator's retries

vars == <<box, clients, flight, now, reached, acts>>

Job == [endpoint : Endpoints \cup {Unset}, created : Nat, next : Nat, until : Nat,
        lease : Nat, attempts : Nat,
        status : {"pending", "delivering", "acknowledged", "failed",
                  "browser_unavailable", "unconfirmed", "unsupported"}]

Outcomes == {"ok", "refused", "transient"}
Attempt  == [key : Keys, lease : Nat, until : Nat, code : Outcomes \cup {"unanswered"}]
Idle     == [key |-> <<>>, lease |-> 0, until |-> 0, code |-> "none"]

TypeOK ==
    /\ box = [apps |-> box.apps, jobs |-> box.jobs]
    /\ DOMAIN box.apps \subseteq Apps /\ box.apps \in [DOMAIN box.apps -> Nat]
    /\ DOMAIN box.jobs \subseteq Keys /\ box.jobs \in [DOMAIN box.jobs -> Job]
    /\ DOMAIN clients \subseteq Clients /\ clients \in [DOMAIN clients -> Metadata]
    /\ flight \in [Procs -> Attempt \cup {Idle}]
    /\ now \in Nat \ {0}
    /\ reached \subseteq Keys
    /\ acts \in Nat

\* every association is open, under every registration its client may have
Init ==
    /\ box = [apps |-> [a \in Apps |-> 0], jobs |-> <<>>]
    /\ clients \in [Clients -> Registrations]
    /\ flight = [p \in Procs |-> Idle]
    /\ now = 1
    /\ reached = {}
    /\ acts = 0

(***************************************************************************)
(* Ending associations, and pruning.                                       *)
(***************************************************************************)
ChannelsOf(a) == {ch \in Channels : clients[ClientOf[a]][ch] # Unset}

\* one job per registered channel, or one that records there is none
JobsOf(a) == {a} \X (IF ChannelsOf(a) = {} THEN {"none"} ELSE ChannelsOf(a))

NewJob(a, channel) ==
    [endpoint |-> IF channel = "none" THEN Unset ELSE clients[ClientOf[a]][channel],
     created |-> now, next |-> now, until |-> 0, lease |-> 0, attempts |-> 0,
     status |-> CASE channel = "backchannel"  -> "pending"
                  [] channel = "frontchannel" -> "browser_unavailable"
                  [] channel = "none"         -> "unsupported"]

\* EndAppSession on every association of A
EndAppSessions(b, A) ==
    LET E == {a \in A \cap DOMAIN b.apps : b.apps[a] = 0}
        K == UNION {JobsOf(a) : a \in E}
    IN [apps |-> [a \in DOMAIN b.apps |-> IF a \in E THEN now ELSE b.apps[a]],
        jobs |-> [k \in DOMAIN b.jobs \cup K |->
                     IF k \in K THEN NewJob(k[1], k[2]) ELSE b.jobs[k]]]

Expired == {a \in Apps : ExpiresOf[OpOf[a]] <= now}

Old_LastTouched(j) == j.next + Retention < now
Old(j) == j.created + Retention < now

PruneLogoutState_Unswept(b) ==
    [apps |-> [a \in {x \in DOMAIN b.apps : ~(b.apps[x] # 0 /\ b.apps[x] + Retention < now)}
                  |-> b.apps[a]],
     jobs |-> [k \in {x \in DOMAIN b.jobs : ~Old(b.jobs[x])} |-> b.jobs[k]]]
PruneLogoutState(b) ==
    LET d == EndAppSessions(b, Expired)
        A == {a \in DOMAIN d.apps : d.apps[a] = 0 \/ ~(d.apps[a] + Retention < now)}
        K == {k \in DOMAIN d.jobs : ~Old(d.jobs[k])}
    IN [apps |-> [a \in A |-> d.apps[a]], jobs |-> [k \in K |-> d.jobs[k]]]

(***************************************************************************)
(* What ends associations: a logout, a withdrawn consent, a client's       *)
(* change or removal, or the next request that prunes.                     *)
(***************************************************************************)
EndSessions(A) ==
    /\ now <= MaxEnd
    /\ \E a \in A \cap DOMAIN box.apps : box.apps[a] = 0
    /\ box' = EndAppSessions(box, A)
    /\ UNCHANGED <<clients, flight, now, reached, acts>>

OfClient(c) == {a \in Apps : ClientOf[a] = c}

\* the associations end under the old registration
SaveClient(c, m) ==
    /\ acts < MaxActs /\ acts' = acts + 1
    /\ c \in DOMAIN clients
    /\ box' = EndAppSessions(box, OfClient(c))
    /\ clients' = [clients EXCEPT ![c] = m]
    /\ UNCHANGED <<flight, now, reached>>

DeleteClient(c) ==
    /\ acts < MaxActs /\ acts' = acts + 1
    /\ c \in DOMAIN clients
    /\ box' = EndAppSessions(box, OfClient(c))
    /\ clients' = [d \in DOMAIN clients \ {c} |-> clients[d]]
    /\ UNCHANGED <<flight, now, reached>>

Sweep ==
    /\ box' = PruneLogoutState(box)
    /\ UNCHANGED <<clients, flight, now, reached, acts>>

(***************************************************************************)
(* Delivery.                                                               *)
(***************************************************************************)
Deliverable_PendingOnly(j) == j.status = "pending"
Deliverable(j) == j.status \in {"pending", "delivering"}

Free_Anytime(j) == j.next <= now
Free(j) == j.next <= now /\ j.until <= now

Due(b, F) == {k \in F \cap DOMAIN b.jobs :
                 k[2] = "backchannel" /\ Deliverable(b.jobs[k]) /\ Free(b.jobs[k])}

\* the client registered another URI since; a deleted client's jobs go out
Moved(k, j) == LET c == ClientOf[k[1]] IN
    c \in DOMAIN clients /\ clients[c][k[2]] # j.endpoint

Hopeless(k, j) == now - j.created >= RetryWindow \/ Moved(k, j)

\* the lease token stays on a job that is given up
Fail(b, K) == [b EXCEPT !.jobs = [k \in DOMAIN b.jobs |->
    IF k \in K THEN [b.jobs[k] EXCEPT !.status = "failed"] ELSE b.jobs[k]]]

Leased(j) == [j EXCEPT !.status = "delivering", !.until = now + LeaseTTL,
                       !.lease = j.attempts + 1, !.attempts = j.attempts + 1]

\* The lease transaction of process p among the jobs of F, in the order of
\* their next attempts: hopeless ones are given up until one can be leased.
\* The Read before it only spares a Write that would change nothing.
Lease(p, F) ==
    LET b == PruneLogoutState(box)
        H == {k \in Due(b, F) : Hopeless(k, b.jobs[k])}
        L == Due(b, F) \ H
    IN /\ flight[p] = Idle
       /\ \/ /\ L = {}
             /\ box' = Fail(b, H)
             /\ flight' = flight
          \/ \E k \in L, S \in SUBSET H :
                /\ \A l \in L : b.jobs[k].next <= b.jobs[l].next
                /\ \A h \in H : /\ h \in S => b.jobs[h].next <= b.jobs[k].next
                                /\ h \notin S => b.jobs[k].next <= b.jobs[h].next
                /\ LET j == Leased(b.jobs[k]) IN
                   /\ box' = [Fail(b, S) EXCEPT !.jobs[k] = j]
                   /\ flight' = [flight EXCEPT ![p] =
                         [key |-> k, lease |-> j.lease, until |-> j.until,
                          code |-> "unanswered"]]
       /\ UNCHANGED <<clients, now, reached, acts>>

\* The POST: the relying party answers 200, refuses (a 4xx, or an unsafe
\* address), or anything else; it may have received what it never answered.
SendLogout(p, code, arrives) ==
    /\ flight[p] # Idle /\ flight[p].code = "unanswered"
    /\ code = "ok" => arrives
    /\ flight' = [flight EXCEPT ![p].code = code]
    /\ reached' = IF arrives THEN reached \cup {flight[p].key} ELSE reached
    /\ UNCHANGED <<box, clients, now, acts>>

Lesser(x, y) == IF x < y THEN x ELSE y

\* exponential backoff with jitter, or what Retry-After asks for, up to an hour
Delays(attempts) == {d \in 1..MaxDelay : Lesser(2 ^ Lesser(attempts, 10), MaxDelay) <= d}

Recorded_RawCode(j, code, delay) == [j EXCEPT !.until = 0, !.lease = 0, !.status = code]
Recorded(j, code, delay) ==
    LET k == [j EXCEPT !.until = 0, !.lease = 0] IN
    CASE code = "ok"        -> [k EXCEPT !.status = "acknowledged"]
      [] code = "refused"   -> [k EXCEPT !.status = "failed"]
      [] code = "transient" -> [k EXCEPT !.status = "pending", !.next = now + delay]

Holds_AnyLease(b, f) == f.key \in DOMAIN b.jobs
Holds(b, f) == f.key \in DOMAIN b.jobs /\ b.jobs[f.key].lease = f.lease

\* the result counts only while the job carries the lease it was sent under
Record(p) ==
    LET f == flight[p] IN
    /\ f # Idle /\ f.code # "unanswered"
    /\ IF Holds(box, f)
       THEN \E delay \in Delays(box.jobs[f.key].attempts) :
               box' = [box EXCEPT !.jobs[f.key] = Recorded(box.jobs[f.key], f.code, delay)]
       ELSE box' = box
    /\ flight' = [flight EXCEPT ![p] = Idle]
    /\ UNCHANGED <<clients, now, reached, acts>>

\* the process stops, its Write fails, or the browser's request is cancelled
Abandon(p) ==
    /\ flight[p] # Idle
    /\ flight' = [flight EXCEPT ![p] = Idle]
    /\ UNCHANGED <<box, clients, now, reached, acts>>

\* the administrator's retry; the lease fields are left as they are
Retry(k) ==
    /\ acts < MaxActs /\ acts' = acts + 1
    /\ k \in DOMAIN box.jobs /\ k[2] = "backchannel"
    /\ box.jobs[k].status = "failed"
    /\ now - box.jobs[k].created <= RetryWindow
    /\ box' = [box EXCEPT !.jobs[k] = [@ EXCEPT !.status = "pending", !.next = now]]
    /\ UNCHANGED <<clients, flight, now, reached>>

\* The completed logout page, for an OP session or one association of it:
\* a frame for every front-channel job not served yet.
ShowPage(A) ==
    LET W == {k \in DOMAIN box.jobs : /\ k[1] \in A /\ k[2] = "frontchannel"
                                      /\ box.jobs[k].status = "browser_unavailable"}
        M == {k \in W : Moved(k, box.jobs[k])}
    IN /\ W # {}
       /\ box' = [Fail(box, M) EXCEPT !.jobs = [k \in DOMAIN box.jobs |->
             IF k \in W \ M THEN [box.jobs[k] EXCEPT !.status = "unconfirmed"]
             ELSE Fail(box, M).jobs[k]]]
       /\ reached' = reached \cup (W \ M)
       /\ UNCHANGED <<clients, flight, now, acts>>

\* no attempt outlives its lease by more than MaxLate
Tick ==
    /\ now < MaxTime
    /\ \A p \in Procs : flight[p] # Idle => now < flight[p].until + MaxLate
    /\ now' = now + 1
    /\ UNCHANGED <<box, clients, flight, reached, acts>>

(***************************************************************************)
(* The specification.  Fairness: some process's ticker keeps calling the   *)
(* routine on the whole outbox, a request ends within its 5 s timeout, and *)
(* what follows it is recorded or lost; time passes.                       *)
(***************************************************************************)
OfOp(op) == {a \in Apps : OpOf[a] = op}

\* What a browser's page or its one delivery attempt is about: an OP session,
\* or the association of one client under it.
Scopes == {OfOp(op) : op \in Ops} \cup {{a} : a \in Apps}

Next ==
    \/ \E A \in SUBSET Apps : EndSessions(A)
    \/ \E c \in Clients : DeleteClient(c) \/ \E m \in Registrations : SaveClient(c, m)
    \/ Sweep
    \/ \E p \in Procs :
          \/ Lease(p, Keys)
          \/ \E A \in Scopes : Lease(p, A \X Channels)
          \/ \E code \in Outcomes, arrives \in BOOLEAN : SendLogout(p, code, arrives)
          \/ Record(p)
          \/ Abandon(p)
    \/ \E k \in Keys : Retry(k)
    \/ \E A \in Scopes : ShowPage(A)
    \/ Tick

Fairness ==
    /\ WF_vars(\E p \in Procs : Lease(p, Keys))
    /\ \A p \in Procs :
          /\ WF_vars(\E code \in Outcomes, arrives \in BOOLEAN : SendLogout(p, code, arrives))
          /\ WF_vars(Record(p) \/ Abandon(p))
    /\ WF_vars(Tick)

Spec == Init /\ [][Next]_vars /\ Fairness

(***************************************************************************)
(* Properties.                                                             *)
(***************************************************************************)
\* The plan's "multiple server processes without concurrent job ownership"
\* (docs/LOGOUT_IMPLEMENTATION_PLAN.md:100): a job that some process is still
\* sending under an unexpired lease carries that lease and no other, whatever
\* the other processes, the administrator and the pages did meanwhile.
LeaseHeld ==
    \A p \in Procs : LET f == flight[p] IN
        f # Idle /\ now < f.until =>
            /\ Holds(box, f) /\ box.jobs[f.key].status = "delivering"
            /\ \A q \in Procs \ {p} : flight[q] # Idle /\ flight[q].key = f.key
                                      => flight[q].lease < f.lease

\* Every ended association that is retained has its notices, and there are no
\* others: the outbox never holds more than two per retained association,
\* which is what CheckSessionCapacity relies on.
OutboxMatches ==
    /\ \A a \in DOMAIN box.apps : box.apps[a] # 0 <=> \E k \in DOMAIN box.jobs : k[1] = a
    /\ \A k \in DOMAIN box.jobs : k[1] \in DOMAIN box.apps

\* the stage module Notification would say notice k is at in box b
Notices == Apps \X Channels
StageOf(b, k) ==
    IF k \in DOMAIN b.jobs
    THEN CASE b.jobs[k].status \in {"pending", "delivering", "browser_unavailable"} -> "owed"
           [] b.jobs[k].status \in {"acknowledged", "unconfirmed"} -> "told"
           [] OTHER -> "failed"
    ELSE IF k[1] \in DOMAIN b.apps THEN "none" ELSE "dropped"

N == INSTANCE Notification WITH
        Notices <- Notices, note <- [k \in Notices |-> StageOf(box, k)], reached <- reached

\* The outbox does what module Notification promises: a notice is told only if
\* it arrived, and a late result of an attempt whose lease was lost never undoes
\* that.
Promise == N!Spec

\* Every notice owed over the back channel is settled in the end, whatever
\* processes stop and leases are lost: acknowledged or given up, unless its
\* retention ends first (those that the clock's bound leaves the time for; the
\* run keeps everything to its end).
Settled ==
    \A k \in Apps \X {"backchannel"} :
        /\ k \in DOMAIN box.jobs
        /\ box.jobs[k].created <= MaxEnd
        /\ box.jobs[k].status \in {"pending", "delivering"}
        ~> ~(/\ k \in DOMAIN box.jobs
             /\ box.jobs[k].status \in {"pending", "delivering"})

\* "expires provider sessions without browser traffic" (README.md:649): the
\* worker alone ends the associations of an expired session.
ExpirySwept ==
    \A a \in Apps : ExpiresOf[OpOf[a]] <= now ~> (a \notin DOMAIN box.apps \/ box.apps[a] # 0)
=============================================================================
