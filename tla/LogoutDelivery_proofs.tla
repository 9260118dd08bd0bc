----------------------- MODULE LogoutDelivery_proofs -----------------------
(***************************************************************************)
(* For any number of processes, associations and clients, and for every    *)
(* lease time, retry window and retention that leaves room for them: an    *)
(* unexpired lease is held by one process, every association that ended    *)
(* has its notices, and the outbox implements module Notification.         *)
(*                                                                         *)
(* None of these is inductive.  The invariant adds what connects a job to  *)
(* its association (BoxInv) and an attempt to its job (Follows): a lease   *)
(* ends before its job is old, a job out of the outbox cannot come back,   *)
(* and a settled job carries no lease that a late result could match.      *)
(***************************************************************************)
EXTENDS LogoutDelivery, TLAPS

(***************************************************************************)
(* The inductive invariant.                                                *)
(***************************************************************************)
BoxOK(b) ==
    /\ b = [apps |-> b.apps, jobs |-> b.jobs]
    /\ DOMAIN b.apps \subseteq Apps /\ b.apps \in [DOMAIN b.apps -> Nat]
    /\ DOMAIN b.jobs \subseteq Keys /\ b.jobs \in [DOMAIN b.jobs -> Job]

\* a lease ends with the retry window, and a settled job carries none
JobSound(j) ==
    /\ j.until < j.created + RetryWindow + LeaseTTL
    /\ j.lease <= j.attempts
    /\ j.status \in {"acknowledged", "unconfirmed", "browser_unavailable"} => j.lease = 0

\* a job dates from the end of its association
Linked(b) ==
    \A k \in DOMAIN b.jobs :
        /\ k[1] \in DOMAIN b.apps
        /\ b.jobs[k].created = b.apps[k[1]] /\ b.jobs[k].created # 0
        /\ JobSound(b.jobs[k])

Noticed(b) ==
    \A a \in DOMAIN b.apps : b.apps[a] # 0 => \E k \in DOMAIN b.jobs : k[1] = a

BoxInv(b) == BoxOK(b) /\ Noticed(b) /\ Linked(b)

\* the client of an open association exists
Served(b) == \A a \in DOMAIN b.apps : b.apps[a] = 0 => ClientOf[a] \in DOMAIN clients

\* what an attempt f and the box have to do with each other
Follows(f, b) ==
    f # Idle =>
        /\ f.key[2] = "backchannel" /\ f.lease >= 1
        /\ f.key \in DOMAIN b.jobs => f.lease <= b.jobs[f.key].attempts
        /\ f.key \notin DOMAIN b.jobs => f.key[1] \notin DOMAIN b.apps
        /\ now < f.until =>
              /\ f.key \in DOMAIN b.jobs
              /\ b.jobs[f.key].lease = f.lease /\ b.jobs[f.key].attempts = f.lease
              /\ b.jobs[f.key].until = f.until /\ b.jobs[f.key].status = "delivering"

Answered(f) == f # Idle /\ f.code = "ok" => f.key \in reached

Distinct ==
    \A p, q \in Procs : p # q /\ flight[p] # Idle /\ flight[q] # Idle
                        /\ flight[p].key = flight[q].key => flight[p].lease # flight[q].lease

Rest ==
    /\ DOMAIN clients \subseteq Clients /\ clients \in [DOMAIN clients -> Metadata]
    /\ flight \in [Procs -> Attempt \cup {Idle}]
    /\ now \in Nat \ {0}
    /\ reached \subseteq Keys
    /\ acts \in Nat

Inv ==
    /\ Rest
    /\ BoxInv(box) /\ Served(box)
    /\ \A p \in Procs : Follows(flight[p], box) /\ Answered(flight[p])
    /\ Distinct

(***************************************************************************)
(* New jobs.                                                               *)
(***************************************************************************)
\* a job just enqueued: owed, and with no reason to be given up
Fresh(k, j) ==
    k[2] # "none" => j.status \in {"pending", "browser_unavailable"} /\ ~Hopeless(k, j)

LEMMA Times == /\ LeaseTTL \in Nat \ {0} /\ RetryWindow \in Nat \ {0} /\ MaxDelay \in Nat \ {0}
               /\ Retention \in Nat /\ LeaseTTL + RetryWindow <= Retention
               /\ Unset \notin Endpoints /\ Registrations \subseteq Metadata
BY DeliveryAssumption DEF DeliveryAssumption

\* The jobs of an association whose client exists are well typed and fresh.
LEMMA NewJobFresh ==
    ASSUME Rest, NEW a \in Apps, ClientOf[a] \in DOMAIN clients, NEW k \in JobsOf(a)
    PROVE  /\ k \in Keys /\ k[1] = a
           /\ NewJob(k[1], k[2]) \in Job /\ NewJob(k[1], k[2]).created = now
           /\ JobSound(NewJob(k[1], k[2])) /\ Fresh(k, NewJob(k[1], k[2]))
<1>1. PICK ch \in Channels \cup {"none"} : k = <<a, ch>>
  BY DEF JobsOf, ChannelsOf
<1>2. k \in Keys /\ k[1] = a /\ k[2] = ch
  BY <1>1 DEF Keys
<1>3. clients[ClientOf[a]] \in Metadata
  BY DEF Rest
<1>4. ch # "none" => clients[ClientOf[a]][ch] \in Endpoints \cup {Unset}
  BY <1>3 DEF Metadata
<1>5. NewJob(a, ch) \in Job /\ NewJob(a, ch).created = now
      /\ NewJob(a, ch).until = 0 /\ NewJob(a, ch).lease = 0 /\ NewJob(a, ch).attempts = 0
  BY <1>4 DEF NewJob, Job, Rest, Channels
<1>6. JobSound(NewJob(a, ch))
  BY <1>5, Times DEF JobSound, Rest
<1>7. Fresh(k, NewJob(a, ch))
  <2>1. SUFFICES ASSUME ch # "none"
                 PROVE  NewJob(a, ch).status \in {"pending", "browser_unavailable"}
                        /\ ~Hopeless(k, NewJob(a, ch))
    BY <1>2 DEF Fresh
  <2>2. NewJob(a, ch).status \in {"pending", "browser_unavailable"}
        /\ NewJob(a, ch).endpoint = clients[ClientOf[a]][ch]
    BY <2>1 DEF NewJob, Channels
  <2> QED BY <1>2, <1>5, <2>2, Times DEF Hopeless, Moved, Rest
<1> QED BY <1>2, <1>5, <1>6, <1>7

LEMMA SomeJob == ASSUME NEW a PROVE \E k \in JobsOf(a) : k[1] = a
<1>1. CASE ChannelsOf(a) = {}
  <2>1. <<a, "none">> \in JobsOf(a)
    BY <1>1 DEF JobsOf
  <2> QED BY <2>1
<1>2. CASE ChannelsOf(a) # {}
  <2>1. PICK ch \in ChannelsOf(a) : TRUE
    BY <1>2
  <2>2. <<a, ch>> \in JobsOf(a)
    BY <1>2, <2>1 DEF JobsOf
  <2> QED BY <2>2
<1> QED BY <1>1, <1>2

(***************************************************************************)
(* Ending associations and pruning: jobs are added and dropped, and those  *)
(* that stay are left as they are.                                         *)
(***************************************************************************)
Evolves(b, d) ==
    /\ BoxInv(d) /\ Served(d)
    /\ DOMAIN d.apps \subseteq DOMAIN b.apps
    /\ \A k \in DOMAIN d.jobs :
          IF k \in DOMAIN b.jobs THEN d.jobs[k] = b.jobs[k] ELSE Fresh(k, d.jobs[k])
    /\ \A k \in DOMAIN b.jobs \ DOMAIN d.jobs :
          b.jobs[k].created + Retention < now /\ k[1] \notin DOMAIN d.apps

\* Ending associations only adds jobs: an open association has none yet.
LEMMA EndEvolves ==
    ASSUME Rest, NEW b, BoxInv(b), Served(b), NEW A
    PROVE  /\ Evolves(b, EndAppSessions(b, A))
           /\ DOMAIN b.jobs \subseteq DOMAIN EndAppSessions(b, A).jobs
           /\ \A a \in A \cap DOMAIN b.apps : EndAppSessions(b, A).apps[a] # 0
<1> DEFINE E == {a \in A \cap DOMAIN b.apps : b.apps[a] = 0}
           K == UNION {JobsOf(a) : a \in E}
           P == [a \in DOMAIN b.apps |-> IF a \in E THEN now ELSE b.apps[a]]
           J == [k \in DOMAIN b.jobs \cup K |->
                    IF k \in K THEN NewJob(k[1], k[2]) ELSE b.jobs[k]]
           d == [apps |-> P, jobs |-> J]
<1>1. EndAppSessions(b, A) = d
  BY DEF EndAppSessions
<1>2. BoxOK(b) /\ Noticed(b) /\ Linked(b)
  BY DEF BoxInv
<1>3. \A k \in K : /\ k[1] \in E /\ k \in Keys
                   /\ J[k] \in Job /\ J[k].created = now /\ JobSound(J[k]) /\ Fresh(k, J[k])
  <2>1. SUFFICES ASSUME NEW a \in E, NEW k \in JobsOf(a)
                 PROVE  /\ k[1] \in E /\ k \in Keys
                        /\ J[k] \in Job /\ J[k].created = now /\ JobSound(J[k])
                        /\ Fresh(k, J[k])
    OBVIOUS
  <2>2. a \in Apps /\ ClientOf[a] \in DOMAIN clients
    BY <1>2 DEF BoxOK, Served
  <2>3. J[k] = NewJob(k[1], k[2])
    OBVIOUS
  <2> HIDE DEF J
  <2> QED BY <2>2, <2>3, NewJobFresh
<1>4. \A k \in DOMAIN b.jobs : k \notin K /\ J[k] = b.jobs[k]
  <2>1. SUFFICES ASSUME NEW k \in DOMAIN b.jobs PROVE k \notin K
    OBVIOUS
  <2>2. b.apps[k[1]] # 0
    BY <1>2 DEF Linked
  <2> HIDE DEF K, J
  <2> QED BY <1>3, <2>2
<1>5. \A a \in E : \E k \in K : k[1] = a
  BY SomeJob
<1>6. DOMAIN J = DOMAIN b.jobs \cup K /\ J = [k \in DOMAIN J |-> J[k]]
  OBVIOUS
<1> HIDE DEF K, J
<1>7. /\ DOMAIN P = DOMAIN b.apps /\ P \in [DOMAIN b.apps -> Nat]
      /\ \A a \in E : P[a] = now
      /\ \A a \in DOMAIN b.apps : a \notin E => P[a] = b.apps[a]
  BY <1>2 DEF BoxOK, Rest
<1> HIDE DEF P
<1>8. BoxOK(d)
  <2>1. \A k \in DOMAIN J : k \in Keys /\ J[k] \in Job
    BY <1>2, <1>3, <1>4, <1>6 DEF BoxOK
  <2> QED BY <1>2, <1>6, <1>7, <2>1 DEF BoxOK
<1>9. Noticed(d)
  BY <1>2, <1>5, <1>6, <1>7 DEF Noticed
<1>10. Linked(d)
  <2>1. SUFFICES ASSUME NEW k \in DOMAIN J
                 PROVE  /\ k[1] \in DOMAIN P /\ J[k].created = P[k[1]]
                        /\ J[k].created # 0 /\ JobSound(J[k])
    BY DEF Linked
  <2>2. CASE k \in K
    BY <1>3, <1>7, <2>2 DEF Rest
  <2>3. CASE k \in DOMAIN b.jobs
    BY <1>2, <1>4, <1>7, <2>3 DEF Linked
  <2> QED BY <1>6, <2>1, <2>2, <2>3
<1>11. Served(d) /\ \A a \in A \cap DOMAIN b.apps : P[a] # 0
  BY <1>7 DEF Served, Rest
<1>12. \A k \in DOMAIN J : IF k \in DOMAIN b.jobs THEN J[k] = b.jobs[k] ELSE Fresh(k, J[k])
  BY <1>3, <1>4, <1>6
<1>13. Evolves(b, d)
  BY <1>6, <1>7, <1>8, <1>9, <1>10, <1>11, <1>12 DEF Evolves, BoxInv
<1> QED BY <1>1, <1>6, <1>11, <1>13

\* Pruning drops an ended association together with its jobs.
LEMMA PruneEvolves ==
    ASSUME Rest, NEW b, BoxInv(b), Served(b)
    PROVE  /\ Evolves(b, PruneLogoutState(b))
           /\ \A a \in Expired \cap DOMAIN PruneLogoutState(b).apps :
                 PruneLogoutState(b).apps[a] # 0
<1> DEFINE d == EndAppSessions(b, Expired)
           A == {a \in DOMAIN d.apps : d.apps[a] = 0 \/ ~(d.apps[a] + Retention < now)}
           K == {k \in DOMAIN d.jobs : ~Old(d.jobs[k])}
           P == [a \in A |-> d.apps[a]]
           J == [k \in K |-> d.jobs[k]]
           e == [apps |-> P, jobs |-> J]
<1>1. PruneLogoutState(b) = e
  BY DEF PruneLogoutState
<1>2. /\ Evolves(b, d) /\ DOMAIN b.jobs \subseteq DOMAIN d.jobs
      /\ \A a \in Expired \cap DOMAIN b.apps : d.apps[a] # 0
  BY EndEvolves
<1>3. /\ BoxOK(d) /\ Noticed(d) /\ Linked(d) /\ Served(d)
      /\ DOMAIN d.apps \subseteq DOMAIN b.apps
      /\ \A k \in DOMAIN d.jobs :
            IF k \in DOMAIN b.jobs THEN d.jobs[k] = b.jobs[k] ELSE Fresh(k, d.jobs[k])
  BY <1>2 DEF Evolves, BoxInv
<1> HIDE DEF d
<1>4. /\ DOMAIN P = A /\ A \subseteq DOMAIN d.apps /\ \A a \in A : P[a] = d.apps[a]
      /\ DOMAIN J = K /\ K \subseteq DOMAIN d.jobs /\ \A k \in K : J[k] = d.jobs[k]
      /\ P = [a \in DOMAIN P |-> P[a]] /\ J = [k \in DOMAIN J |-> J[k]]
  OBVIOUS
<1>5. \A k \in DOMAIN d.jobs : k[1] \in A <=> k \in K
  BY <1>3 DEF Linked, Old
<1>6. \A k \in DOMAIN d.jobs : k \notin K => d.jobs[k].created + Retention < now
  BY DEF Old
<1> HIDE DEF P, J, A, K
<1>7. BoxOK(e)
  <2>1. \A a \in A : a \in Apps /\ P[a] \in Nat
    BY <1>3, <1>4 DEF BoxOK
  <2>2. \A k \in K : k \in Keys /\ J[k] \in Job
    BY <1>3, <1>4 DEF BoxOK
  <2>3. P \in [A -> Nat] /\ J \in [K -> Job]
    BY <1>4, <2>1, <2>2
  <2> QED BY <1>4, <2>1, <2>2, <2>3 DEF BoxOK
<1>8. Noticed(e) /\ Linked(e) /\ Served(e)
  BY <1>3, <1>4, <1>5 DEF Noticed, Linked, Served
<1>9. \A k \in DOMAIN b.jobs \ K : k \in DOMAIN d.jobs /\ d.jobs[k] = b.jobs[k]
  BY <1>2, <1>3
<1>10. Evolves(b, e)
  BY <1>3, <1>4, <1>5, <1>6, <1>7, <1>8, <1>9 DEF Evolves, BoxInv
<1>11. \A a \in Expired \cap A : P[a] # 0
  BY <1>2, <1>3, <1>4
<1> QED BY <1>1, <1>4, <1>10, <1>11

\* An attempt keeps its job while its lease runs: the lease ends before the
\* job's retention.  A job that is gone does not come back.
LEMMA EvolvesFollows ==
    ASSUME Rest, NEW b, BoxInv(b), NEW d, Evolves(b, d), NEW p \in Procs,
           Follows(flight[p], b)
    PROVE  Follows(flight[p], d)
<1> DEFINE f == flight[p]
<1>1. SUFFICES ASSUME f # Idle PROVE Follows(f, d)
  BY DEF Follows
<1>2. f \in Attempt
  BY <1>1 DEF Rest
<1>3. \A k \in DOMAIN d.jobs : k[1] \in DOMAIN b.apps
  BY DEF Evolves, BoxInv, Linked
<1>4. f.key \in DOMAIN d.jobs => f.key \in DOMAIN b.jobs /\ d.jobs[f.key] = b.jobs[f.key]
  BY <1>1, <1>3 DEF Follows, Evolves
<1>5. f.key \notin DOMAIN d.jobs => f.key[1] \notin DOMAIN d.apps
  BY <1>1 DEF Follows, Evolves
<1>6. ASSUME now < f.until, f.key \notin DOMAIN d.jobs PROVE FALSE
  <2> DEFINE j == b.jobs[f.key]
  <2>1. f.key \in DOMAIN b.jobs /\ j.until = f.until
    BY <1>1, <1>6 DEF Follows
  <2>2. j \in Job /\ j.until < j.created + RetryWindow + LeaseTTL
    BY <2>1 DEF BoxInv, BoxOK, Linked, JobSound
  <2>3. j.created + Retention < now
    BY <1>6, <2>1 DEF Evolves
  <2>4. j.created \in Nat /\ j.until \in Nat /\ now \in Nat
    BY <2>2 DEF Job, Rest
  <2> HIDE DEF j, f
  <2> QED BY <1>6, <2>1, <2>2, <2>3, <2>4, Times
<1> HIDE DEF f
<1> QED BY <1>1, <1>4, <1>5, <1>6 DEF Follows, f

(***************************************************************************)
(* What the abstract specification sees.                                   *)
(***************************************************************************)
Allowed(b, d, r) ==
    \A n \in Notices :
        /\ StageOf(d, n) # StageOf(b, n) => <<StageOf(b, n), StageOf(d, n)>> \in N!Moves
        /\ StageOf(b, n) # "told" /\ StageOf(d, n) = "told" => n \in r

LEMMA StagesOf ==
    ASSUME NEW b, NEW n \in Notices
    PROVE  /\ StageOf(b, n) \in N!Stages
           /\ n \in DOMAIN b.jobs => StageOf(b, n) \in {"owed", "told", "failed"}
           /\ n \notin DOMAIN b.jobs /\ n[1] \in DOMAIN b.apps => StageOf(b, n) = "none"
           /\ n \notin DOMAIN b.jobs /\ n[1] \notin DOMAIN b.apps => StageOf(b, n) = "dropped"
           /\ n \in DOMAIN b.jobs =>
                 /\ StageOf(b, n) = "owed" <=>
                       b.jobs[n].status \in {"pending", "delivering", "browser_unavailable"}
                 /\ StageOf(b, n) = "told" <=>
                       b.jobs[n].status \in {"acknowledged", "unconfirmed"}
BY DEF StageOf, N!Stages

LEMMA AllowedStep ==
    ASSUME Allowed(box, box', reached'), reached \subseteq reached',
           \A n \in reached' \ reached : n \in Notices => StageOf(box, n) # "none"
    PROVE  N!Next
<1>1. \A n \in Notices : StageOf(box', n) \in N!Stages
  BY StagesOf
<1> QED BY <1>1 DEF Allowed, N!Next

\* Ending and pruning only add notices that are owed and drop old ones.
LEMMA EvolvesAllowed ==
    ASSUME NEW b, NEW d, NEW r, BoxInv(b), Evolves(b, d)
    PROVE  Allowed(b, d, r)
<1>1. SUFFICES ASSUME NEW n \in Notices
               PROVE  /\ StageOf(d, n) # StageOf(b, n) =>
                            <<StageOf(b, n), StageOf(d, n)>> \in N!Moves
                      /\ StageOf(b, n) # "told" /\ StageOf(d, n) = "told" => n \in r
  BY DEF Allowed
<1>2. \A k \in DOMAIN d.jobs : k[1] \in DOMAIN b.apps
  BY DEF Evolves, BoxInv, Linked
<1>3. CASE n \in DOMAIN b.jobs /\ n \in DOMAIN d.jobs
  <2>1. d.jobs[n] = b.jobs[n]
    BY <1>3 DEF Evolves
  <2> QED BY <1>3, <2>1 DEF StageOf
<1>4. CASE n \in DOMAIN b.jobs /\ n \notin DOMAIN d.jobs
  <2>1. StageOf(d, n) = "dropped"
    BY <1>4, StagesOf DEF Evolves
  <2>2. StageOf(b, n) \in {"owed", "told", "failed"}
    BY <1>4, StagesOf
  <2> QED BY <2>1, <2>2 DEF N!Moves
<1>5. CASE n \notin DOMAIN b.jobs /\ n \in DOMAIN d.jobs
  <2>1. StageOf(b, n) = "none"
    BY <1>2, <1>5, StagesOf
  <2>2. n[2] # "none" /\ Fresh(n, d.jobs[n])
    BY <1>5 DEF Evolves, Notices, Channels
  <2>3. StageOf(d, n) = "owed"
    BY <1>5, <2>2, StagesOf DEF Fresh
  <2> QED BY <2>1, <2>3 DEF N!Moves
<1>6. CASE n \notin DOMAIN b.jobs /\ n \notin DOMAIN d.jobs
  <2>1. CASE n[1] \in DOMAIN d.apps
    BY <1>6, <2>1, StagesOf DEF Evolves
  <2>2. CASE n[1] \notin DOMAIN d.apps
    <3>1. StageOf(d, n) = "dropped" /\ StageOf(b, n) \in {"none", "dropped"}
      BY <1>6, <2>2, StagesOf
    <3> QED BY <3>1 DEF N!Moves
  <2> QED BY <2>1, <2>2
<1> QED BY <1>3, <1>4, <1>5, <1>6

(***************************************************************************)
(* Changing jobs in place.                                                 *)
(***************************************************************************)
\* New values J for the jobs of a box keep it sound if they keep when each was
\* created.
LEMMA ChangeJobs ==
    ASSUME NEW b, BoxInv(b), NEW J, J \in [DOMAIN b.jobs -> Job],
           \A k \in DOMAIN b.jobs : J[k].created = b.jobs[k].created /\ JobSound(J[k])
    PROVE  /\ BoxInv([b EXCEPT !.jobs = J])
           /\ [b EXCEPT !.jobs = J].apps = b.apps /\ [b EXCEPT !.jobs = J].jobs = J
           /\ Served(b) => Served([b EXCEPT !.jobs = J])
<1>1. BoxOK(b) /\ Noticed(b) /\ Linked(b)
  BY DEF BoxInv
<1> DEFINE d == [b EXCEPT !.jobs = J]
<1>2. d = [apps |-> b.apps, jobs |-> J]
  BY <1>1 DEF BoxOK
<1>3. d.apps = b.apps /\ d.jobs = J /\ DOMAIN J = DOMAIN b.jobs
  BY <1>2
<1> HIDE DEF d
<1>4. BoxOK(d)
  BY <1>1, <1>2, <1>3 DEF BoxOK
<1>5. Noticed(d) /\ Linked(d) /\ (Served(b) => Served(d))
  BY <1>1, <1>3 DEF Noticed, Linked, Served
<1> QED BY <1>3, <1>4, <1>5 DEF BoxInv, d

\* An attempt p follows its job through a change that does not take away an
\* unexpired lease.
LEMMA ChangeFollows ==
    ASSUME NEW b, NEW d, NEW p, Follows(flight[p], b),
           d.apps = b.apps, DOMAIN d.jobs = DOMAIN b.jobs,
           flight[p] # Idle /\ flight[p].key \in DOMAIN b.jobs =>
               LET j == b.jobs[flight[p].key]
                   i == d.jobs[flight[p].key]
               IN \/ i = j
                  \/ /\ flight[p].lease <= j.attempts => flight[p].lease <= i.attempts
                     /\ ~(/\ now < flight[p].until /\ j.lease = flight[p].lease
                          /\ j.until = flight[p].until /\ j.status = "delivering")
    PROVE  Follows(flight[p], d)
BY DEF Follows

(***************************************************************************)
(* One lemma per action.                                                   *)
(***************************************************************************)
LEMMA InitInv == ASSUME Init PROVE Inv /\ N!Init
<1>1. BoxOK(box) /\ box.jobs = <<>> /\ DOMAIN box.jobs = {}
      /\ DOMAIN box.apps = Apps /\ \A a \in Apps : box.apps[a] = 0
  BY DEF Init, BoxOK
<1>2. Linked(box) /\ Noticed(box)
  BY <1>1 DEF Linked, Noticed
<1>3. DOMAIN clients = Clients /\ clients \in [Clients -> Metadata]
  BY Times DEF Init
<1>4. Served(box)
  BY <1>1, <1>3 DEF Served, Clients
<1>5. Rest /\ \A p \in Procs : flight[p] = Idle
  BY <1>3 DEF Rest, Init
<1>6. Inv
  BY <1>1, <1>2, <1>4, <1>5 DEF Inv, BoxInv, Follows, Answered, Distinct
<1>7. \A n \in Notices : StageOf(box, n) = "none"
  BY <1>1, StagesOf DEF Notices
<1> QED BY <1>6, <1>7 DEF N!Init, Init

\* A step that only ends associations or prunes.
LEMMA EvolvesStep ==
    ASSUME Inv, Evolves(box, box'), Rest', Served(box)',
           UNCHANGED <<flight, now, reached>>
    PROVE  Inv' /\ N!Next
<1>1. BoxInv(box) /\ Rest
  BY DEF Inv
<1>2. ASSUME NEW p \in Procs PROVE (Follows(flight[p], box) /\ Answered(flight[p]))'
  <2>1. Follows(flight[p], box')
    BY <1>1, EvolvesFollows DEF Inv
  <2> QED BY <2>1 DEF Follows, Answered, Inv
<1>3. Inv'
  BY <1>2 DEF Inv, Evolves, Distinct
<1>4. Allowed(box, box', reached')
  BY <1>1, EvolvesAllowed
<1> QED BY <1>3, <1>4, AllowedStep

LEMMA EndSessionsStep ==
    ASSUME Inv, NEW A \in SUBSET Apps, EndSessions(A)
    PROVE  Inv' /\ N!Next
<1>1. Evolves(box, box')
  BY EndEvolves DEF EndSessions, Inv
<1>2. Rest' /\ Served(box)' /\ UNCHANGED <<flight, now, reached>>
  BY <1>1 DEF EndSessions, Evolves, Served, Inv, Rest
<1> QED BY <1>1, <1>2, EvolvesStep

LEMMA SweepStep ==
    ASSUME Inv, Sweep PROVE Inv' /\ N!Next
<1>1. Evolves(box, box')
  BY PruneEvolves DEF Sweep, Inv
<1>2. Rest' /\ Served(box)' /\ UNCHANGED <<flight, now, reached>>
  BY <1>1 DEF Sweep, Evolves, Served, Inv, Rest
<1> QED BY <1>1, <1>2, EvolvesStep

\* A change of client c leaves none of its associations open.
LEMMA ClientEnds ==
    ASSUME Inv, NEW c \in DOMAIN clients, box' = EndAppSessions(box, OfClient(c))
    PROVE  Evolves(box, box')
           /\ \A a \in DOMAIN box'.apps : box'.apps[a] = 0 => ClientOf[a] # c
<1>1. /\ Evolves(box, box')
      /\ \A a \in OfClient(c) \cap DOMAIN box.apps : box'.apps[a] # 0
  BY EndEvolves DEF Inv
<1>2. DOMAIN box'.apps \subseteq DOMAIN box.apps /\ DOMAIN box.apps \subseteq Apps
  BY <1>1 DEF Evolves, Inv, BoxInv, BoxOK
<1> QED BY <1>1, <1>2 DEF OfClient

LEMMA SaveClientStep ==
    ASSUME Inv, NEW c \in Clients, NEW m \in Registrations, SaveClient(c, m)
    PROVE  Inv' /\ N!Next
<1>1. c \in DOMAIN clients /\ box' = EndAppSessions(box, OfClient(c))
      /\ clients' = [clients EXCEPT ![c] = m] /\ UNCHANGED <<flight, now, reached>>
      /\ acts' = acts + 1
  BY DEF SaveClient
<1>2. Evolves(box, box')
  BY <1>1, ClientEnds
<1>3. Rest'
  BY <1>1, Times DEF Inv, Rest
<1>4. Served(box)'
  BY <1>1, <1>2 DEF Evolves, Served, Inv, Rest
<1> QED BY <1>1, <1>2, <1>3, <1>4, EvolvesStep

LEMMA DeleteClientStep ==
    ASSUME Inv, NEW c \in Clients, DeleteClient(c)
    PROVE  Inv' /\ N!Next
<1>1. c \in DOMAIN clients /\ box' = EndAppSessions(box, OfClient(c))
      /\ clients' = [d \in DOMAIN clients \ {c} |-> clients[d]]
      /\ UNCHANGED <<flight, now, reached>> /\ acts' = acts + 1
  BY DEF DeleteClient
<1>2. Evolves(box, box')
      /\ \A a \in DOMAIN box'.apps : box'.apps[a] = 0 => ClientOf[a] # c
  BY <1>1, ClientEnds
<1>3. Rest'
  BY <1>1 DEF Inv, Rest
<1>4. Served(box)'
  BY <1>1, <1>2 DEF Evolves, Served
<1> QED BY <1>1, <1>2, <1>3, <1>4, EvolvesStep

GivenUp(j) == [j EXCEPT !.status = "failed"]

LEMMA GivenUpJob ==
    ASSUME NEW j \in Job
    PROVE  /\ GivenUp(j) \in Job /\ GivenUp(j).status = "failed"
           /\ GivenUp(j).created = j.created /\ GivenUp(j).until = j.until
           /\ GivenUp(j).lease = j.lease /\ GivenUp(j).attempts = j.attempts
BY DEF Job, GivenUp

LEMMA LeasedJob ==
    ASSUME Rest, NEW j \in Job
    PROVE  /\ Leased(j) \in Job /\ Leased(j).status = "delivering"
           /\ Leased(j).created = j.created /\ Leased(j).until = now + LeaseTTL
           /\ Leased(j).lease = j.attempts + 1 /\ Leased(j).attempts = j.attempts + 1
<1> DEFINE n  == j.attempts + 1
           j1 == [j EXCEPT !.status = "delivering"]
           j2 == [j1 EXCEPT !.until = now + LeaseTTL]
           j3 == [j2 EXCEPT !.lease = n]
           j4 == [j3 EXCEPT !.attempts = n]
<1>1. Leased(j) = j4
  BY Zenon DEF Leased
<1>2. n \in Nat /\ now + LeaseTTL \in Nat
  BY Times DEF Job, Rest
<1> HIDE DEF n
<1>3. j1 \in Job /\ j1.status = "delivering" /\ j1.created = j.created
  BY DEF Job
<1> HIDE DEF j1
<1>4. j2 \in Job /\ j2.status = "delivering" /\ j2.created = j.created
      /\ j2.until = now + LeaseTTL
  BY <1>2, <1>3 DEF Job
<1> HIDE DEF j2
<1>5. j3 \in Job /\ j3.status = "delivering" /\ j3.created = j.created
      /\ j3.until = now + LeaseTTL /\ j3.lease = n
  BY <1>2, <1>4 DEF Job
<1> HIDE DEF j3
<1>6. j4 \in Job /\ j4.status = "delivering" /\ j4.created = j.created
      /\ j4.until = now + LeaseTTL /\ j4.lease = n /\ j4.attempts = n
  BY <1>2, <1>5 DEF Job
<1> QED BY <1>1, <1>6 DEF n

LEMMA FailedJobs ==
    ASSUME NEW b, BoxInv(b), NEW K
    PROVE  /\ Fail(b, K) = [b EXCEPT !.jobs = Fail(b, K).jobs]
           /\ Fail(b, K).apps = b.apps /\ DOMAIN Fail(b, K).jobs = DOMAIN b.jobs
           /\ Fail(b, K).jobs = [k \in DOMAIN b.jobs |-> Fail(b, K).jobs[k]]
           /\ \A k \in DOMAIN b.jobs :
                 Fail(b, K).jobs[k] = IF k \in K THEN GivenUp(b.jobs[k])
                                      ELSE b.jobs[k]
<1> DEFINE J == [k \in DOMAIN b.jobs |->
                    IF k \in K THEN GivenUp(b.jobs[k]) ELSE b.jobs[k]]
<1>1. b = [apps |-> b.apps, jobs |-> b.jobs]
  BY DEF BoxInv, BoxOK
<1>2. Fail(b, K) = [b EXCEPT !.jobs = J]
  BY Zenon DEF Fail, GivenUp
<1>3. DOMAIN J = DOMAIN b.jobs /\ J = [k \in DOMAIN b.jobs |-> J[k]]
      /\ \A k \in DOMAIN b.jobs :
            J[k] = IF k \in K THEN GivenUp(b.jobs[k]) ELSE b.jobs[k]
  OBVIOUS
<1> HIDE DEF J
<1>4. Fail(b, K) = [apps |-> b.apps, jobs |-> J]
  BY <1>1, <1>2
<1>5. Fail(b, K).jobs = J /\ Fail(b, K).apps = b.apps
  BY <1>4
<1> QED BY <1>2, <1>3, <1>5

\* What the lease transaction makes of job k: nothing, or it is due and given up
\* or leased.
Treated(b, F, k, j) ==
    \/ j = b.jobs[k]
    \/ /\ k \in Due(b, F)
       /\ \/ Hopeless(k, b.jobs[k]) /\ j = GivenUp(b.jobs[k])
          \/ ~Hopeless(k, b.jobs[k]) /\ j = Leased(b.jobs[k])

LEMMA TreatedJob ==
    ASSUME Rest, NEW b, BoxInv(b), NEW F, NEW k \in DOMAIN b.jobs, NEW i, Treated(b, F, k, i)
    PROVE  /\ i \in Job /\ i.created = b.jobs[k].created /\ JobSound(i)
           /\ i # b.jobs[k] =>
                 /\ b.jobs[k].status \in {"pending", "delivering"}
                 /\ b.jobs[k].until <= now /\ b.jobs[k].attempts <= i.attempts
                 /\ \/ i.status = "failed" /\ Hopeless(k, b.jobs[k])
                    \/ i.status = "delivering"
<1> DEFINE j == b.jobs[k]
<1>1. j \in Job /\ JobSound(j)
  BY DEF BoxInv, BoxOK, Linked
<1>2. k \in Due(b, F) => j.status \in {"pending", "delivering"} /\ j.until <= now
  BY DEF Due, Deliverable, Free
<1>3. \/ i = j
      \/ k \in Due(b, F) /\ Hopeless(k, j) /\ i = GivenUp(j)
      \/ k \in Due(b, F) /\ ~Hopeless(k, j) /\ i = Leased(j)
  BY DEF Treated
<1> HIDE DEF j
<1>4. j.attempts \in Nat /\ j.created \in Nat /\ j.until \in Nat /\ j.lease \in Nat /\ now \in Nat
  BY <1>1 DEF Job, Rest
<1>5. CASE i = j
  BY <1>1, <1>5 DEF j
<1>6. CASE k \in Due(b, F) /\ Hopeless(k, j) /\ i = GivenUp(j)
  <2>1. i \in Job /\ i.created = j.created /\ i.until = j.until /\ i.lease = j.lease
        /\ i.attempts = j.attempts /\ i.status = "failed"
    BY <1>1, <1>6, GivenUpJob
  <2>2. JobSound(i)
    BY <1>1, <2>1 DEF JobSound
  <2>3. b.jobs[k].attempts <= i.attempts
    BY <1>4, <2>1 DEF j
  <2> QED BY <1>2, <1>6, <2>1, <2>2, <2>3 DEF j
<1>7. CASE k \in Due(b, F) /\ ~Hopeless(k, j) /\ i = Leased(j)
  <2>1. i \in Job /\ i.created = j.created /\ i.until = now + LeaseTTL
        /\ i.lease = j.attempts + 1 /\ i.attempts = j.attempts + 1
        /\ i.status = "delivering"
    BY <1>1, <1>7, LeasedJob
  <2>2. ~(now - j.created >= RetryWindow)
    BY <1>7 DEF Hopeless
  <2>3. JobSound(i)
    BY <1>4, <2>1, <2>2, Times DEF JobSound
  <2>4. b.jobs[k].attempts <= i.attempts
    BY <1>4, <2>1 DEF j
  <2> QED BY <1>2, <1>7, <2>1, <2>3, <2>4 DEF j
<1> QED BY <1>3, <1>5, <1>6, <1>7

\* What the lease transaction leaves in the outbox, after pruning it.
LEMMA LeaseBox ==
    ASSUME Inv, NEW b, Evolves(box, b), NEW F, NEW J, J = [k \in DOMAIN b.jobs |-> J[k]],
           \A k \in DOMAIN b.jobs : Treated(b, F, k, J[k])
    PROVE  LET X == [b EXCEPT !.jobs = J] IN
           /\ BoxInv(X) /\ Served(X) /\ X.jobs = J /\ X.apps = b.apps
           /\ Allowed(box, X, reached)
           /\ \A p \in Procs : Follows(flight[p], X)
<1> DEFINE X == [b EXCEPT !.jobs = J]
<1>1. BoxInv(b) /\ Served(b) /\ BoxOK(b) /\ Linked(b) /\ BoxInv(box) /\ Rest
  BY DEF Evolves, BoxInv, Inv
<1>2. \A k \in DOMAIN b.jobs : b.jobs[k] \in Job
  BY <1>1 DEF BoxOK
<1>3. \A k \in DOMAIN b.jobs :
          /\ J[k] \in Job /\ J[k].created = b.jobs[k].created /\ JobSound(J[k])
          /\ J[k] # b.jobs[k] =>
                /\ b.jobs[k].status \in {"pending", "delivering"}
                /\ b.jobs[k].until <= now /\ b.jobs[k].attempts <= J[k].attempts
                /\ \/ J[k].status = "failed" /\ Hopeless(k, b.jobs[k])
                   \/ J[k].status = "delivering"
  BY <1>1, TreatedJob
<1>4. BoxInv(X) /\ Served(X) /\ X.jobs = J /\ X.apps = b.apps
  BY <1>1, <1>3, ChangeJobs
<1>5. DOMAIN J = DOMAIN b.jobs
  OBVIOUS
<1> HIDE DEF X
<1>6. ASSUME NEW p \in Procs PROVE Follows(flight[p], X)
  <2>1. Follows(flight[p], b)
    BY <1>1, EvolvesFollows DEF Inv
  <2>2. flight[p] # Idle => flight[p].lease \in Nat /\ flight[p].until \in Nat
    BY <1>1 DEF Rest, Attempt
  <2>3. \A k \in DOMAIN b.jobs : J[k].attempts \in Nat /\ b.jobs[k].attempts \in Nat
                                 /\ b.jobs[k].until \in Nat
    BY <1>2, <1>3 DEF Job
  <2>4. now \in Nat
    BY <1>1 DEF Rest
  <2>5. flight[p] # Idle /\ flight[p].key \in DOMAIN b.jobs =>
          LET j == b.jobs[flight[p].key]
              i == X.jobs[flight[p].key]
          IN \/ i = j
             \/ /\ flight[p].lease <= j.attempts => flight[p].lease <= i.attempts
                /\ ~(/\ now < flight[p].until /\ j.lease = flight[p].lease
                     /\ j.until = flight[p].until /\ j.status = "delivering")
    BY <1>3, <1>4, <2>2, <2>3, <2>4
  <2> QED BY <1>4, <1>5, <2>1, <2>5, ChangeFollows
<1>7. ASSUME NEW n \in Notices
      PROVE  /\ StageOf(X, n) # StageOf(box, n) =>
                   <<StageOf(box, n), StageOf(X, n)>> \in N!Moves
             /\ StageOf(box, n) # "told" /\ StageOf(X, n) = "told" => n \in reached
  <2>1. Allowed(box, b, reached)
    BY <1>1, EvolvesAllowed
  <2>2. CASE StageOf(X, n) = StageOf(b, n)
    BY <2>1, <2>2 DEF Allowed
  <2>3. CASE StageOf(X, n) # StageOf(b, n)
    <3>1. n \in DOMAIN b.jobs /\ J[n] # b.jobs[n]
      BY <1>4, <1>5, <2>3 DEF StageOf
    <3>2. StageOf(b, n) = "owed"
      BY <1>3, <3>1, StagesOf
    <3>3. J[n].status = "failed" /\ Hopeless(n, b.jobs[n])
      BY ZenonT(40), <1>3, <1>4, <1>5, <2>3, <3>1, <3>2, StagesOf
    <3>4. StageOf(X, n) = "failed"
      BY <1>4, <1>5, <3>1, <3>3 DEF StageOf
    <3>5. n \in DOMAIN box.jobs /\ box.jobs[n] = b.jobs[n]
      BY <3>1, <3>3 DEF Evolves, Fresh, Notices, Channels
    <3>6. StageOf(box, n) = "owed"
      BY <3>1, <3>2, <3>5 DEF StageOf
    <3> QED BY <3>4, <3>6 DEF N!Moves
  <2> QED BY <2>2, <2>3
<1> QED BY <1>4, <1>6, <1>7 DEF Allowed, X

LEMMA LeaseStep ==
    ASSUME Inv, NEW p \in Procs, NEW F, Lease(p, F)
    PROVE  Inv' /\ N!Next
<1> DEFINE b == PruneLogoutState(box)
           H == {k \in Due(b, F) : Hopeless(k, b.jobs[k])}
           L == Due(b, F) \ H
<1>1. Rest /\ BoxInv(box) /\ Served(box) /\ Distinct
  BY DEF Inv
<1>2. Evolves(box, b)
  BY <1>1, PruneEvolves
<1>3. BoxInv(b) /\ b.jobs \in [DOMAIN b.jobs -> Job] /\ \A k \in DOMAIN b.jobs : b.jobs[k] \in Job
  BY <1>2 DEF Evolves, BoxInv, BoxOK
<1>4. \A S \in SUBSET H : \A k \in S : k \in Due(b, F) /\ Hopeless(k, b.jobs[k])
  OBVIOUS
<1>5. \A k \in L : k \in Due(b, F) /\ ~Hopeless(k, b.jobs[k]) /\ k \in DOMAIN b.jobs
                   /\ k[2] = "backchannel"
  BY DEF Due
<1>6. UNCHANGED <<clients, now, reached, acts>>
  BY DEF Lease
<1>7. \/ box' = Fail(b, H) /\ flight' = flight
      \/ \E k \in L, S \in SUBSET H :
            LET j == Leased(b.jobs[k]) IN
            /\ box' = [Fail(b, S) EXCEPT !.jobs[k] = j]
            /\ flight' = [flight EXCEPT ![p] =
                  [key |-> k, lease |-> j.lease, until |-> j.until, code |-> "unanswered"]]
  BY DEF Lease
<1> HIDE DEF b, H, L
<1>8. ASSUME NEW S \in SUBSET H
      PROVE  /\ Fail(b, S) = [b EXCEPT !.jobs = Fail(b, S).jobs]
             /\ Fail(b, S).jobs = [k \in DOMAIN b.jobs |-> Fail(b, S).jobs[k]]
             /\ \A k \in DOMAIN b.jobs : Treated(b, F, k, Fail(b, S).jobs[k])
  <2> DEFINE G == Fail(b, S).jobs
  <2>1. /\ Fail(b, S) = [b EXCEPT !.jobs = G] /\ G = [k \in DOMAIN b.jobs |-> G[k]]
        /\ \A k \in DOMAIN b.jobs :
              G[k] = IF k \in S THEN GivenUp(b.jobs[k]) ELSE b.jobs[k]
    BY <1>3, FailedJobs
  <2> HIDE DEF G
  <2>2. \A k \in DOMAIN b.jobs : Treated(b, F, k, G[k])
    BY <1>4, <2>1 DEF Treated
  <2> QED BY <2>1, <2>2 DEF G
<1>9. CASE box' = Fail(b, H) /\ flight' = flight
  <2> DEFINE G == Fail(b, H).jobs
  <2>1. /\ box' = [b EXCEPT !.jobs = G] /\ G = [k \in DOMAIN b.jobs |-> G[k]]
        /\ \A k \in DOMAIN b.jobs : Treated(b, F, k, G[k])
    BY <1>8, <1>9
  <2> HIDE DEF G
  <2>2. /\ BoxInv(box') /\ Served(box') /\ Allowed(box, box', reached)
        /\ \A q \in Procs : Follows(flight[q], box')
    BY <1>2, <2>1, LeaseBox
  <2>3. Inv'
    BY <1>1, <1>6, <1>9, <2>2 DEF Inv, Rest, Served, Follows, Answered, Distinct
  <2> QED BY <1>6, <2>2, <2>3, AllowedStep
<1>10. CASE \E k \in L, S \in SUBSET H :
            LET j == Leased(b.jobs[k]) IN
            /\ box' = [Fail(b, S) EXCEPT !.jobs[k] = j]
            /\ flight' = [flight EXCEPT ![p] =
                  [key |-> k, lease |-> j.lease, until |-> j.until, code |-> "unanswered"]]
  <2>1. PICK k \in L, S \in SUBSET H :
            /\ box' = [Fail(b, S) EXCEPT !.jobs[k] = Leased(b.jobs[k])]
            /\ flight' = [flight EXCEPT ![p] =
                  [key |-> k, lease |-> Leased(b.jobs[k]).lease,
                   until |-> Leased(b.jobs[k]).until, code |-> "unanswered"]]
    BY <1>10
  <2> DEFINE G == Fail(b, S).jobs
             j == Leased(b.jobs[k])
             J == [G EXCEPT ![k] = j]
             f == [key |-> k, lease |-> j.lease, until |-> j.until, code |-> "unanswered"]
  <2>2. b.jobs[k] \in Job /\ k \in DOMAIN b.jobs /\ k \in Keys /\ k[2] = "backchannel"
    BY <1>3, <1>5 DEF BoxInv, BoxOK
  <2>3. /\ j \in Job /\ j.lease = b.jobs[k].attempts + 1 /\ j.attempts = b.jobs[k].attempts + 1
        /\ j.until = now + LeaseTTL /\ j.status = "delivering"
    BY <1>1, <2>2, LeasedJob
  <2>4. Fail(b, S) = [b EXCEPT !.jobs = G] /\ G = [x \in DOMAIN b.jobs |-> G[x]]
        /\ \A x \in DOMAIN b.jobs : Treated(b, F, x, G[x])
    BY <1>8
  <2>5. box' = [Fail(b, S) EXCEPT !.jobs = J]
    BY <2>1
  <2>6. b = [apps |-> b.apps, jobs |-> b.jobs]
    BY <1>3 DEF BoxInv, BoxOK
  <2> HIDE DEF G
  <2>7. box' = [b EXCEPT !.jobs = J]
    BY <2>4, <2>5, <2>6
  <2>8. J = [x \in DOMAIN b.jobs |-> J[x]] /\ DOMAIN J = DOMAIN b.jobs /\ J[k] = j /\ \A x \in DOMAIN b.jobs : x # k => J[x] = G[x]
    BY <2>2, <2>3, <2>4
  <2>9. \A x \in DOMAIN b.jobs : Treated(b, F, x, J[x])
    <3>1. Treated(b, F, k, j)
      BY <1>5 DEF Treated
    <3> HIDE DEF j, J
    <3> QED BY <2>4, <2>8, <3>1
  <2> HIDE DEF J
  <2>10. /\ BoxInv(box') /\ Served(box') /\ Allowed(box, box', reached) /\ box'.jobs = J
         /\ \A q \in Procs : Follows(flight[q], box')
    BY <1>2, <2>7, <2>8, <2>9, LeaseBox
  <2>11. f \in Attempt
    BY <2>2, <2>3 DEF Attempt, Job
  <2>12. f # Idle /\ f.code # "ok"
    BY DEF Idle
  <2>13. /\ flight' \in [Procs -> Attempt \cup {Idle}] /\ flight'[p] = f
         /\ \A q \in Procs : q # p => flight'[q] = flight[q]
    BY <1>1, <2>1, <2>11 DEF Rest
  <2>14. f.key = k /\ f.lease = j.lease /\ f.until = j.until
    OBVIOUS
  <2>15. \A q \in Procs : flight[q] # Idle /\ flight[q].key = k => flight[q].lease # f.lease
    <3>1. SUFFICES ASSUME NEW q \in Procs, flight[q] # Idle, flight[q].key = k
                   PROVE  flight[q].lease # f.lease
      OBVIOUS
    <3>2. Follows(flight[q], b)
      BY <1>1, <1>2, EvolvesFollows DEF Inv
    <3>3. flight[q].lease <= b.jobs[k].attempts
      BY <2>2, <3>1, <3>2 DEF Follows
    <3>4. flight[q].lease \in Nat /\ b.jobs[k].attempts \in Nat
      BY <1>1, <2>2, <3>1 DEF Rest, Attempt, Job
    <3> QED BY <2>3, <2>14, <3>3, <3>4
  <2>16. Follows(f, box')
    <3>1. b.jobs[k].attempts \in Nat
      BY <2>2 DEF Job
    <3>2. k \in DOMAIN J
      BY <2>2, <2>8
    <3> HIDE DEF f, j
    <3> QED BY <2>2, <2>3, <2>8, <2>10, <2>14, <3>1, <3>2 DEF Follows
  <2> HIDE DEF f
  <2>17. \A q \in Procs : (Follows(flight[q], box) /\ Answered(flight[q]))'
    BY <1>6, <2>10, <2>12, <2>13, <2>16 DEF Follows, Answered, Inv
  <2>18. Distinct'
    BY <1>1, <2>13, <2>14, <2>15 DEF Distinct
  <2>19. Rest' /\ Served(box)'
    BY <1>1, <1>6, <2>10, <2>13 DEF Rest, Served
  <2>20. Inv'
    BY <2>10, <2>17, <2>18, <2>19 DEF Inv
  <2> QED BY <1>6, <2>10, <2>20, AllowedStep
<1> QED BY <1>7, <1>9, <1>10

LEMMA SendLogoutStep ==
    ASSUME Inv, NEW p \in Procs, NEW code \in Outcomes, NEW arrives \in BOOLEAN,
           SendLogout(p, code, arrives)
    PROVE  Inv' /\ N!Next
<1> DEFINE f == flight[p]
           g == [f EXCEPT !.code = code]
<1>1. /\ f # Idle /\ f \in Attempt /\ f.key \in Keys
      /\ flight' = [flight EXCEPT ![p] = g] /\ (code = "ok" => arrives)
      /\ reached' = IF arrives THEN reached \cup {f.key} ELSE reached
      /\ UNCHANGED <<box, clients, now, acts>>
  BY Zenon DEF SendLogout, Inv, Rest, Attempt
<1>2. Follows(f, box) /\ BoxInv(box) /\ Rest /\ Served(box) /\ Distinct
  BY DEF Inv
<1>3. /\ g \in Attempt /\ g.key = f.key /\ g.lease = f.lease /\ g.until = f.until
      /\ g.code = code
  BY <1>1 DEF Attempt
<1>4. g # Idle
  BY <1>3 DEF Idle, Outcomes
<1>5. Follows(g, box)
  BY <1>1, <1>2, <1>3, <1>4 DEF Follows
<1>6. /\ flight' \in [Procs -> Attempt \cup {Idle}] /\ flight'[p] = g
      /\ \A q \in Procs : q # p => flight'[q] = flight[q]
  BY <1>1, <1>2, <1>3 DEF Rest
<1>7. reached \subseteq reached' /\ reached' \subseteq Keys /\ (code = "ok" => f.key \in reached')
  BY <1>1, <1>2 DEF Rest
<1> HIDE DEF g
<1>8. \A q \in Procs : (Follows(flight[q], box) /\ Answered(flight[q]))'
  BY <1>1, <1>3, <1>5, <1>6, <1>7 DEF Inv, Follows, Answered
<1>9. Distinct'
  BY <1>1, <1>2, <1>3, <1>6 DEF Distinct
<1>10. Rest' /\ BoxInv(box)' /\ Served(box)'
  BY <1>1, <1>2, <1>6, <1>7 DEF Rest, Served
<1>11. \A n \in reached' \ reached : n \in Notices => StageOf(box, n) # "none"
  <2>1. StageOf(box, f.key) # "none" \/ f.key \notin Notices
    BY <1>1, <1>2, StagesOf DEF Follows
  <2> QED BY <1>1, <2>1
<1>12. Allowed(box, box', reached')
  BY <1>1 DEF Allowed
<1> QED BY <1>7, <1>8, <1>9, <1>10, <1>11, <1>12, AllowedStep DEF Inv

LEMMA AbandonStep ==
    ASSUME Inv, NEW p \in Procs, Abandon(p)
    PROVE  Inv' /\ N!Next
<1>1. /\ flight' \in [Procs -> Attempt \cup {Idle}] /\ flight'[p] = Idle
      /\ \A q \in Procs : q # p => flight'[q] = flight[q]
      /\ UNCHANGED <<box, clients, now, reached, acts>>
  BY DEF Abandon, Inv, Rest
<1>2. Inv'
  BY <1>1 DEF Inv, Rest, Served, Follows, Answered, Distinct
<1>3. Allowed(box, box', reached')
  BY <1>1 DEF Allowed
<1> QED BY <1>1, <1>2, <1>3, AllowedStep

\* What recording a result makes of the job.
LEMMA RecordedJob ==
    ASSUME NEW t \in Nat, t = now, NEW j \in Job, JobSound(j), NEW code \in Outcomes,
           NEW delay \in Nat
    PROVE  LET i == Recorded(j, code, delay) IN
           /\ i \in Job /\ i.created = j.created /\ i.attempts = j.attempts /\ JobSound(i)
           /\ i.status = CASE code = "ok" -> "acknowledged" [] code = "refused" -> "failed"
                            [] code = "transient" -> "pending"
<1> DEFINE k1 == [j EXCEPT !.until = 0]
           k2 == [k1 EXCEPT !.lease = 0]
           a  == [k2 EXCEPT !.status = "acknowledged"]
           r  == [k2 EXCEPT !.status = "failed"]
           w1 == [k2 EXCEPT !.status = "pending"]
           w2 == [w1 EXCEPT !.next = t + delay]
           i  == Recorded(j, code, delay)
<1>1. \/ code = "ok" /\ i = a
      \/ code = "refused" /\ i = r
      \/ code = "transient" /\ i = w2
  BY DEF Recorded, Outcomes
<1>2. k1 \in Job /\ k1.created = j.created /\ k1.attempts = j.attempts /\ k1.until = 0
  BY DEF Job
<1> HIDE DEF k1
<1>3. /\ k2 \in Job /\ k2.created = j.created /\ k2.attempts = j.attempts /\ k2.until = 0
      /\ k2.lease = 0
  BY <1>2 DEF Job
<1> HIDE DEF k2
<1>4. /\ a \in Job /\ a.created = j.created /\ a.attempts = j.attempts /\ a.until = 0
      /\ a.lease = 0 /\ a.status = "acknowledged"
  BY <1>3 DEF Job
<1>5. /\ r \in Job /\ r.created = j.created /\ r.attempts = j.attempts /\ r.until = 0
      /\ r.lease = 0 /\ r.status = "failed"
  BY <1>3 DEF Job
<1>6. /\ w1 \in Job /\ w1.created = j.created /\ w1.attempts = j.attempts /\ w1.until = 0
      /\ w1.lease = 0 /\ w1.status = "pending"
  BY <1>3 DEF Job
<1> HIDE DEF w1
<1>7. /\ w2 \in Job /\ w2.created = j.created /\ w2.attempts = j.attempts /\ w2.until = 0
      /\ w2.lease = 0 /\ w2.status = "pending"
  BY <1>6 DEF Job
<1> HIDE DEF a, r, w2, i
<1>8. i \in Job /\ i.created = j.created /\ i.attempts = j.attempts /\ i.until = 0 /\ i.lease = 0
  BY <1>1, <1>4, <1>5, <1>7
<1>9. JobSound(i)
  <2>1. j.created \in Nat /\ j.attempts \in Nat
    BY DEF Job
  <2> QED BY <1>8, <2>1, Times DEF JobSound
<1>10. i.status = CASE code = "ok" -> "acknowledged" [] code = "refused" -> "failed"
                    [] code = "transient" -> "pending"
  BY <1>1, <1>4, <1>5, <1>7
<1> QED BY <1>8, <1>9, <1>10 DEF i

\* A change of one job that keeps it sound.
LEMMA OneJob ==
    ASSUME Inv, NEW k \in DOMAIN box.jobs, NEW i \in Job, i.created = box.jobs[k].created,
           JobSound(i), box' = [box EXCEPT !.jobs[k] = i]
    PROVE  /\ BoxInv(box') /\ Served(box')
           /\ box'.apps = box.apps /\ DOMAIN box'.jobs = DOMAIN box.jobs
           /\ box'.jobs[k] = i /\ \A x \in DOMAIN box.jobs : x # k => box'.jobs[x] = box.jobs[x]
<1> DEFINE J == [box.jobs EXCEPT ![k] = i]
<1>1. box = [apps |-> box.apps, jobs |-> box.jobs] /\ BoxInv(box) /\ BoxOK(box) /\ Linked(box)
      /\ Served(box)
  BY DEF Inv, BoxInv, BoxOK
<1>2. box' = [box EXCEPT !.jobs = J]
  BY <1>1
<1>3. /\ DOMAIN J = DOMAIN box.jobs /\ J \in [DOMAIN box.jobs -> Job]
      /\ J[k] = i /\ \A x \in DOMAIN box.jobs : x # k => J[x] = box.jobs[x]
  BY <1>1 DEF BoxOK
<1> HIDE DEF J
<1>4. \A x \in DOMAIN box.jobs : J[x].created = box.jobs[x].created /\ JobSound(J[x])
  BY <1>1, <1>3 DEF Linked
<1>5. BoxInv(box') /\ Served(box') /\ box'.apps = box.apps /\ box'.jobs = J
  BY <1>1, <1>2, <1>3, <1>4, ChangeJobs
<1> QED BY <1>3, <1>5

\* Such a change keeps what the abstract specification asks if it does for k.
LEMMA OneAllowed ==
    ASSUME NEW b, NEW d, NEW r, NEW k \in DOMAIN b.jobs,
           d.apps = b.apps, DOMAIN d.jobs = DOMAIN b.jobs,
           \A x \in DOMAIN b.jobs : x # k => d.jobs[x] = b.jobs[x],
           k \in Notices =>
               /\ StageOf(d, k) # StageOf(b, k) =>
                     <<StageOf(b, k), StageOf(d, k)>> \in N!Moves
               /\ StageOf(b, k) # "told" /\ StageOf(d, k) = "told" => k \in r
    PROVE  Allowed(b, d, r)
<1>1. \A n \in Notices : n # k => StageOf(d, n) = StageOf(b, n)
  BY DEF StageOf
<1> QED BY <1>1 DEF Allowed

\* A job whose lease is that of an attempt is not settled.
LEMMA RecordStep ==
    ASSUME Inv, NEW p \in Procs, Record(p)
    PROVE  Inv' /\ N!Next
<1> DEFINE f == flight[p]
<1>1. f # Idle /\ f.code # "unanswered" /\ UNCHANGED <<clients, now, reached, acts>>
      /\ flight' = [flight EXCEPT ![p] = Idle]
  BY DEF Record
<1>2. Follows(f, box) /\ Answered(f) /\ BoxInv(box) /\ Rest /\ Served(box) /\ Distinct
  BY DEF Inv
<1>3. f \in Attempt /\ f.lease \in Nat /\ f.code \in Outcomes
  BY <1>1, <1>2 DEF Rest, Attempt
<1>4. /\ flight' \in [Procs -> Attempt \cup {Idle}] /\ flight'[p] = Idle
      /\ \A q \in Procs : q # p => flight'[q] = flight[q]
  BY <1>1, <1>2 DEF Rest
<1>5. Rest'
  BY <1>1, <1>2, <1>4 DEF Rest
<1>6. Distinct' /\ \A q \in Procs : Answered(flight[q])'
  BY <1>1, <1>2, <1>4 DEF Distinct, Answered, Inv
<1>7. CASE ~Holds(box, f)
  <2>1. box' = box
    BY <1>7 DEF Record
  <2>2. Inv'
    BY <1>1, <1>2, <1>4, <1>5, <1>6, <2>1 DEF Inv, Served, Follows
  <2>3. Allowed(box, box', reached')
    BY <2>1 DEF Allowed
  <2> QED BY <1>1, <2>2, <2>3, AllowedStep
<1>8. CASE Holds(box, f)
  <2>1. f.key \in DOMAIN box.jobs /\ box.jobs[f.key].lease = f.lease
    BY <1>8 DEF Holds
  <2>2. PICK delay \in Delays(box.jobs[f.key].attempts) :
            box' = [box EXCEPT !.jobs[f.key] = Recorded(box.jobs[f.key], f.code, delay)]
    BY <1>8 DEF Record
  <2> DEFINE k == f.key
             j == box.jobs[k]
             i == Recorded(j, f.code, delay)
  <2>3. delay \in Nat
    BY <2>2, Times DEF Delays
  <2>4. j \in Job /\ JobSound(j)
    BY <1>2, <2>1 DEF BoxInv, BoxOK, Linked
  <2>5. /\ i \in Job /\ i.created = j.created /\ i.attempts = j.attempts /\ JobSound(i)
        /\ i.status = CASE f.code = "ok" -> "acknowledged" [] f.code = "refused" -> "failed"
                         [] f.code = "transient" -> "pending"
    BY <1>2, <1>3, <2>3, <2>4, RecordedJob DEF Rest
  <2>6. box' = [box EXCEPT !.jobs[k] = i] /\ k \in DOMAIN box.jobs /\ j.lease = f.lease
    BY <2>1, <2>2
  <2>7. f.lease # 0
    BY <1>1, <1>2, <1>3 DEF Follows
  <2>8. k = f.key /\ j = box.jobs[k]
    OBVIOUS
  <2> HIDE DEF i, j, k
  <2>9. /\ BoxInv(box') /\ Served(box') /\ box'.apps = box.apps
        /\ DOMAIN box'.jobs = DOMAIN box.jobs /\ box'.jobs[k] = i
        /\ \A x \in DOMAIN box.jobs : x # k => box'.jobs[x] = box.jobs[x]
    BY <2>5, <2>6, <2>8, OneJob
  <2>10. ASSUME NEW q \in Procs, q # p PROVE Follows(flight[q], box')
    <3>1. flight[q] # Idle /\ flight[q].key = k => flight[q].lease # j.lease
      BY <1>1, <1>2, <2>6, <2>8, <2>10 DEF Distinct
    <3>2. j.attempts = box.jobs[k].attempts /\ i.attempts = box'.jobs[k].attempts
      BY <2>8, <2>9
    <3>3. flight[q] # Idle /\ flight[q].key \in DOMAIN box.jobs =>
            LET u == box.jobs[flight[q].key]
                v == box'.jobs[flight[q].key]
            IN \/ v = u
               \/ /\ flight[q].lease <= u.attempts => flight[q].lease <= v.attempts
                  /\ ~(/\ now < flight[q].until /\ u.lease = flight[q].lease
                       /\ u.until = flight[q].until /\ u.status = "delivering")
      BY <2>5, <2>8, <2>9, <3>1, <3>2
    <3>4. Follows(flight[q], box)
      BY DEF Inv
    <3> QED BY <2>9, <3>3, <3>4, ChangeFollows
  <2>11. \A q \in Procs : Follows(flight[q], box)'
    <3>1. SUFFICES ASSUME NEW q \in Procs PROVE Follows(flight[q], box)'
      OBVIOUS
    <3>2. CASE q = p
      BY <1>4, <3>2 DEF Follows
    <3>3. CASE q # p
      BY <1>1, <1>4, <2>10, <3>3 DEF Follows
    <3> QED BY <3>2, <3>3
  <2>12. Inv'
    BY <1>1, <1>5, <1>6, <2>9, <2>11 DEF Inv, Served
  <2>13. Allowed(box, box', reached')
    <3>1. SUFFICES ASSUME k \in Notices
                   PROVE  /\ StageOf(box', k) # StageOf(box, k) =>
                                <<StageOf(box, k), StageOf(box', k)>> \in N!Moves
                          /\ StageOf(box, k) # "told" /\ StageOf(box', k) = "told"
                                => k \in reached'
      BY <2>6, <2>9, OneAllowed
    <3>2. j.status \notin {"acknowledged", "unconfirmed"}
      BY <2>4, <2>6, <2>7 DEF JobSound
    <3>3. StageOf(box, k) \in {"owed", "failed"}
      BY <2>6, <2>8, <3>1, <3>2, StagesOf
    <3>4. CASE f.code = "ok"
      <4>1. k \in reached'
        BY <1>1, <1>2, <2>8, <3>4 DEF Answered
      <4>2. i.status = "acknowledged"
        BY <2>5, <3>4
      <4>3. StageOf(box', k) = "told"
        BY ZenonT(40), <2>6, <2>9, <3>1, <4>2, StagesOf
      <4> QED BY <3>3, <4>1, <4>3 DEF N!Moves
    <3>5. CASE f.code = "refused"
      <4>1. i.status = "failed"
        BY <2>5, <3>5
      <4>2. StageOf(box', k) = "failed"
        BY <2>6, <2>9, <4>1 DEF StageOf
      <4> QED BY <3>3, <4>2 DEF N!Moves
    <3>6. CASE f.code = "transient"
      <4>1. i.status = "pending"
        BY <2>5, <3>6
      <4>2. StageOf(box', k) = "owed"
        BY ZenonT(40), <2>6, <2>9, <3>1, <4>1, StagesOf
      <4> QED BY <3>3, <4>2 DEF N!Moves
    <3> QED BY <1>3, <3>4, <3>5, <3>6 DEF Outcomes
  <2> QED BY <1>1, <2>12, <2>13, AllowedStep
<1> QED BY <1>7, <1>8

LEMMA RetryStep ==
    ASSUME Inv, NEW k \in Keys, Retry(k)
    PROVE  Inv' /\ N!Next
<1> DEFINE j  == box.jobs[k]
           i1 == [j EXCEPT !.status = "pending"]
           i  == [i1 EXCEPT !.next = now]
<1>1. /\ k \in DOMAIN box.jobs /\ j.status = "failed" /\ acts' = acts + 1
      /\ UNCHANGED <<clients, flight, now, reached>>
  BY DEF Retry
<1>2. box' = [box EXCEPT !.jobs[k] = i]
  BY DEF Retry
<1>3. BoxInv(box) /\ Rest /\ Served(box) /\ Distinct
  BY DEF Inv
<1>4. j \in Job /\ JobSound(j)
  BY <1>1, <1>3 DEF BoxInv, BoxOK, Linked
<1>5. j = box.jobs[k]
  OBVIOUS
<1> HIDE DEF j
<1>6. /\ i1 \in Job /\ i1.created = j.created /\ i1.until = j.until /\ i1.lease = j.lease
      /\ i1.attempts = j.attempts /\ i1.status = "pending"
  BY <1>4 DEF Job
<1> HIDE DEF i1
<1>7. /\ i \in Job /\ i.created = j.created /\ i.until = j.until /\ i.lease = j.lease
      /\ i.attempts = j.attempts /\ i.status = "pending"
  BY <1>3, <1>6 DEF Job, Rest
<1>8. JobSound(i)
  BY <1>4, <1>7 DEF JobSound
<1> HIDE DEF i
<1>9. /\ BoxInv(box') /\ Served(box') /\ box'.apps = box.apps
      /\ DOMAIN box'.jobs = DOMAIN box.jobs /\ box'.jobs[k] = i
      /\ \A x \in DOMAIN box.jobs : x # k => box'.jobs[x] = box.jobs[x]
  BY <1>1, <1>2, <1>5, <1>7, <1>8, OneJob
<1>10. ASSUME NEW q \in Procs PROVE Follows(flight[q], box)'
  <2>1. flight[q] # Idle /\ flight[q].key \in DOMAIN box.jobs =>
          LET u == box.jobs[flight[q].key]
              v == box'.jobs[flight[q].key]
          IN \/ v = u
             \/ /\ flight[q].lease <= u.attempts => flight[q].lease <= v.attempts
                /\ ~(/\ now < flight[q].until /\ u.lease = flight[q].lease
                     /\ u.until = flight[q].until /\ u.status = "delivering")
    BY <1>1, <1>5, <1>7, <1>9
  <2>2. Follows(flight[q], box)
    BY DEF Inv
  <2>3. Follows(flight[q], box')
    BY <1>9, <2>1, <2>2, ChangeFollows
  <2> QED BY <1>1, <2>3 DEF Follows
<1>11. Rest' /\ Distinct' /\ \A q \in Procs : Answered(flight[q])'
  BY <1>1, <1>3 DEF Rest, Distinct, Answered, Inv
<1>12. Inv'
  BY <1>1, <1>9, <1>10, <1>11 DEF Inv, Served
<1>13. Allowed(box, box', reached')
  <2>1. SUFFICES ASSUME k \in Notices
                 PROVE  /\ StageOf(box', k) # StageOf(box, k) =>
                              <<StageOf(box, k), StageOf(box', k)>> \in N!Moves
                        /\ StageOf(box, k) # "told" /\ StageOf(box', k) = "told"
                              => k \in reached'
    BY <1>1, <1>9, OneAllowed
  <2>2. StageOf(box, k) = "failed" /\ StageOf(box', k) = "owed"
    BY <1>1, <1>5, <1>7, <1>9, <2>1 DEF StageOf
  <2> QED BY <2>2 DEF N!Moves
<1> QED BY <1>1, <1>12, <1>13, AllowedStep

Shown(j) == [j EXCEPT !.status = "unconfirmed"]

\* A frame served settles a front-channel job, which no attempt is sending.
LEMMA ShowPageStep ==
    ASSUME Inv, NEW A, ShowPage(A)
    PROVE  Inv' /\ N!Next
<1> DEFINE W == {k \in DOMAIN box.jobs : /\ k[1] \in A /\ k[2] = "frontchannel"
                                        /\ box.jobs[k].status = "browser_unavailable"}
           M == {k \in W : Moved(k, box.jobs[k])}
           G == Fail(box, M)
           J == [k \in DOMAIN box.jobs |-> IF k \in W \ M THEN Shown(box.jobs[k]) ELSE G.jobs[k]]
<1>1. box' = [G EXCEPT !.jobs = J]
  BY Zenon DEF ShowPage, Shown
<1>2. reached' = reached \cup (W \ M) /\ UNCHANGED <<clients, flight, now, acts>>
  BY DEF ShowPage
<1>3. BoxInv(box) /\ BoxOK(box) /\ Linked(box) /\ Rest /\ Served(box) /\ Distinct
  BY DEF Inv, BoxInv
<1>4. /\ DOMAIN J = DOMAIN box.jobs /\ J = [k \in DOMAIN J |-> J[k]]
      /\ \A k \in DOMAIN box.jobs :
            J[k] = IF k \in W \ M THEN Shown(box.jobs[k]) ELSE G.jobs[k]
  OBVIOUS
<1>5. /\ W \subseteq DOMAIN box.jobs /\ M \subseteq W
      /\ \A k \in W : k[2] = "frontchannel" /\ box.jobs[k].status = "browser_unavailable"
  OBVIOUS
<1> HIDE DEF W, M
<1>6. /\ G = [box EXCEPT !.jobs = G.jobs]
      /\ \A k \in DOMAIN box.jobs :
            G.jobs[k] = IF k \in M THEN GivenUp(box.jobs[k]) ELSE box.jobs[k]
  BY <1>3, FailedJobs
<1> HIDE DEF G, J
<1>7. box' = [box EXCEPT !.jobs = J]
  <2>1. box = [apps |-> box.apps, jobs |-> box.jobs]
    BY <1>3 DEF BoxOK
  <2> QED BY <1>1, <1>6, <2>1
<1>8. \A k \in DOMAIN box.jobs :
          J[k] = IF k \in M THEN GivenUp(box.jobs[k])
                 ELSE IF k \in W THEN Shown(box.jobs[k]) ELSE box.jobs[k]
  BY <1>4, <1>5, <1>6
<1>9. ASSUME NEW k \in DOMAIN box.jobs
      PROVE  /\ J[k] \in Job /\ J[k].created = box.jobs[k].created /\ JobSound(J[k])
             /\ k \in M => J[k].status = "failed"
             /\ k \in W \ M => J[k].status = "unconfirmed"
  <2> DEFINE j == box.jobs[k]
  <2>1. j \in Job /\ JobSound(j) /\ (k \in W => j.status = "browser_unavailable")
    BY <1>3, <1>5 DEF BoxOK, Linked
  <2>2. J[k] = IF k \in M THEN GivenUp(j) ELSE IF k \in W THEN Shown(j) ELSE j
    BY <1>8
  <2>3. j = box.jobs[k]
    OBVIOUS
  <2> HIDE DEF j
  <2>4. CASE k \in M
    <3>1. J[k] \in Job /\ J[k].created = j.created /\ J[k].until = j.until /\ J[k].lease = j.lease
          /\ J[k].attempts = j.attempts /\ J[k].status = "failed"
      BY <2>1, <2>2, <2>4, GivenUpJob
    <3> QED BY <2>1, <2>3, <2>4, <3>1 DEF JobSound
  <2>5. CASE k \in W \ M
    <3>1. Shown(j) \in Job /\ Shown(j).created = j.created /\ Shown(j).until = j.until
          /\ Shown(j).lease = j.lease /\ Shown(j).attempts = j.attempts
          /\ Shown(j).status = "unconfirmed"
      BY <2>1 DEF Shown, Job
    <3>2. J[k] = Shown(j) /\ j.lease = 0
      BY <2>1, <2>2, <2>5 DEF JobSound
    <3>3. JobSound(J[k])
      BY <2>1, <3>1, <3>2 DEF JobSound
    <3> QED BY <2>3, <2>5, <3>1, <3>2, <3>3
  <2>6. CASE k \notin W
    BY <1>5, <2>1, <2>2, <2>3, <2>6
  <2> QED BY <2>4, <2>5, <2>6
<1>10. J = [k \in DOMAIN box.jobs |-> J[k]] /\ J \in [DOMAIN box.jobs -> Job]
  <2>1. \A k \in DOMAIN box.jobs : J[k] \in Job
    BY <1>9
  <2> QED BY <1>4, <2>1
<1>11. /\ BoxInv(box') /\ Served(box') /\ box'.apps = box.apps /\ box'.jobs = J
  BY <1>3, <1>7, <1>9, <1>10, ChangeJobs
<1>12. ASSUME NEW q \in Procs PROVE Follows(flight[q], box)'
  <2>1. Follows(flight[q], box)
    BY DEF Inv
  <2>2. flight[q] # Idle => flight[q].key \notin W
    BY <1>5, <2>1 DEF Follows
  <2>3. flight[q] # Idle /\ flight[q].key \in DOMAIN box.jobs =>
            box'.jobs[flight[q].key] = box.jobs[flight[q].key]
    BY <1>5, <1>8, <1>11, <2>2
  <2>4. Follows(flight[q], box')
    BY <1>4, <1>11, <2>1, <2>3, ChangeFollows
  <2> QED BY <1>2, <2>4 DEF Follows
<1>13. reached' \subseteq Keys
  BY <1>2, <1>3, <1>5 DEF Rest, BoxOK
<1>14. Rest' /\ Distinct' /\ \A q \in Procs : Answered(flight[q])'
  BY <1>2, <1>3, <1>13 DEF Rest, Distinct, Answered, Inv
<1>15. Inv'
  BY <1>2, <1>11, <1>12, <1>14 DEF Inv, Served
<1>16. ASSUME NEW n \in Notices
       PROVE  /\ StageOf(box', n) # StageOf(box, n) =>
                    <<StageOf(box, n), StageOf(box', n)>> \in N!Moves
              /\ StageOf(box, n) # "told" /\ StageOf(box', n) = "told" => n \in reached'
  <2>1. CASE n \in DOMAIN box.jobs /\ n \in W
    <3>1. StageOf(box, n) = "owed"
      BY <1>5, <2>1, StagesOf
    <3>2. CASE n \in M
      <4>1. StageOf(box', n) = "failed"
        BY <1>4, <1>9, <1>11, <2>1, <3>2 DEF StageOf
      <4> QED BY <3>1, <4>1 DEF N!Moves
    <3>3. CASE n \notin M
      <4>1. StageOf(box', n) = "told"
        BY <1>4, <1>9, <1>11, <2>1, <3>3, StagesOf
      <4> QED BY <1>2, <2>1, <3>1, <3>3, <4>1 DEF N!Moves
    <3> QED BY <3>2, <3>3
  <2>2. CASE n \in DOMAIN box.jobs /\ n \notin W
    <3>1. box'.jobs[n] = box.jobs[n]
      BY <1>5, <1>8, <1>11, <2>2
    <3> QED BY <1>4, <1>11, <2>2, <3>1 DEF StageOf
  <2>3. CASE n \notin DOMAIN box.jobs
    BY <1>4, <1>11, <2>3 DEF StageOf
  <2> QED BY <2>1, <2>2, <2>3
<1>17. \A n \in reached' \ reached : n \in Notices => StageOf(box, n) # "none"
  BY <1>2, <1>5, StagesOf
<1> QED BY <1>2, <1>15, <1>16, <1>17, AllowedStep DEF Allowed

LEMMA TickStep ==
    ASSUME Inv, Tick PROVE Inv' /\ N!Next
<1>1. now' = now + 1 /\ UNCHANGED <<box, clients, flight, reached, acts>>
  BY DEF Tick
<1>2. Rest /\ Rest'
  BY <1>1 DEF Inv, Rest
<1>3. ASSUME NEW q \in Procs PROVE Follows(flight[q], box)'
  <2>1. flight[q] # Idle => flight[q].until \in Nat
    BY <1>2 DEF Rest, Attempt
  <2>2. now \in Nat
    BY <1>2 DEF Rest
  <2>3. Follows(flight[q], box)
    BY DEF Inv
  <2> QED BY <1>1, <2>1, <2>2, <2>3 DEF Follows
<1>4. Inv'
  BY <1>1, <1>2, <1>3 DEF Inv, Served, Distinct, Answered
<1>5. Allowed(box, box', reached')
  BY <1>1 DEF Allowed
<1> QED BY <1>1, <1>4, <1>5, AllowedStep

(***************************************************************************)
(* The theorems.                                                           *)
(***************************************************************************)
LEMMA NextInv ==
    ASSUME Inv, [Next]_vars PROVE Inv' /\ [N!Next]_(N!vars)
<1>1. CASE UNCHANGED vars
  <2>1. Inv'
    BY <1>1 DEF vars, Inv, Rest, Served, Follows, Answered, Distinct
  <2>2. UNCHANGED N!vars
    BY <1>1 DEF vars, N!vars
  <2> QED BY <2>1, <2>2
<1>2. CASE Next
  <2>1. CASE \E A \in SUBSET Apps : EndSessions(A)
    BY <2>1, EndSessionsStep
  <2>2. CASE \E c \in Clients :
                DeleteClient(c) \/ \E m \in Registrations : SaveClient(c, m)
    <3>1. PICK c \in Clients : DeleteClient(c) \/ \E m \in Registrations : SaveClient(c, m)
      BY <2>2
    <3> QED BY <3>1, DeleteClientStep, SaveClientStep
  <2>3. CASE Sweep
    BY <2>3, SweepStep
  <2>4. CASE \E p \in Procs :
                \/ Lease(p, Keys)
                \/ \E A \in Scopes : Lease(p, A \X Channels)
                \/ \E code \in Outcomes, arrives \in BOOLEAN : SendLogout(p, code, arrives)
                \/ Record(p)
                \/ Abandon(p)
    <3>1. PICK p \in Procs :
                \/ Lease(p, Keys)
                \/ \E A \in Scopes : Lease(p, A \X Channels)
                \/ \E code \in Outcomes, arrives \in BOOLEAN : SendLogout(p, code, arrives)
                \/ Record(p)
                \/ Abandon(p)
      BY <2>4
    <3>2. CASE Lease(p, Keys)
      BY <3>2, LeaseStep
    <3>3. CASE \E A \in Scopes : Lease(p, A \X Channels)
      <4>1. PICK F : Lease(p, F)
        BY <3>3
      <4> QED BY <4>1, LeaseStep
    <3>4. CASE \E code \in Outcomes, arrives \in BOOLEAN : SendLogout(p, code, arrives)
      BY <3>4, SendLogoutStep
    <3>5. CASE Record(p)
      BY <3>5, RecordStep
    <3>6. CASE Abandon(p)
      BY <3>6, AbandonStep
    <3> QED BY <3>1, <3>2, <3>3, <3>4, <3>5, <3>6
  <2>5. CASE \E k \in Keys : Retry(k)
    BY <2>5, RetryStep
  <2>6. CASE \E A \in Scopes : ShowPage(A)
    <3>1. PICK A : ShowPage(A)
      BY <2>6
    <3> QED BY <3>1, ShowPageStep
  <2>7. CASE Tick
    BY <2>7, TickStep
  <2> QED BY <1>2, <2>1, <2>2, <2>3, <2>4, <2>5, <2>6, <2>7 DEF Next
<1> QED BY <1>1, <1>2

\* So every reachable state of the outbox satisfies the inductive invariant.
THEOREM Invariance == Spec => []Inv
<1>1. Init => Inv
  BY InitInv
<1>2. Inv /\ [Next]_vars => Inv'
  BY NextInv
<1> QED BY <1>1, <1>2, PTL DEF Spec

\* Every reachable outbox is well typed.
THEOREM TypeCorrect == Spec => []TypeOK
<1>1. Inv => TypeOK
  BY DEF Inv, Rest, BoxInv, BoxOK, TypeOK
<1> QED BY <1>1, Invariance, PTL

\* However many processes run the worker, a job is sent by one of them at a
\* time for as long as its lease runs (processLogoutDelivery).
THEOREM LeaseIsHeld == Spec => []LeaseHeld
<1>1. ASSUME Inv, NEW p \in Procs, flight[p] # Idle, now < flight[p].until
      PROVE  /\ Holds(box, flight[p]) /\ box.jobs[flight[p].key].status = "delivering"
             /\ \A q \in Procs \ {p} : flight[q] # Idle /\ flight[q].key = flight[p].key
                                       => flight[q].lease < flight[p].lease
  <2>1. /\ flight[p].key \in DOMAIN box.jobs
        /\ box.jobs[flight[p].key].lease = flight[p].lease
        /\ box.jobs[flight[p].key].attempts = flight[p].lease
        /\ box.jobs[flight[p].key].status = "delivering"
    BY <1>1 DEF Inv, Follows
  <2>2. ASSUME NEW q \in Procs \ {p}, flight[q] # Idle, flight[q].key = flight[p].key
        PROVE  flight[q].lease < flight[p].lease
    <3>1. flight[q].lease <= flight[p].lease
      BY <1>1, <2>1, <2>2 DEF Inv, Follows
    <3>2. flight[q].lease # flight[p].lease
      BY <1>1, <2>2 DEF Inv, Distinct
    <3>3. flight[q].lease \in Nat /\ flight[p].lease \in Nat
      BY <1>1, <2>2 DEF Inv, Rest, Attempt
    <3> QED BY <3>1, <3>2, <3>3
  <2> QED BY <2>1, <2>2 DEF Holds
<1>2. Inv => LeaseHeld
  BY <1>1 DEF LeaseHeld
<1> QED BY <1>2, Invariance, PTL

\* A retained association that ended has its notices in the outbox, and no
\* notice is left of one that is not retained (PruneLogoutState).
THEOREM OutboxIsMatched == Spec => []OutboxMatches
<1>1. Inv => OutboxMatches
  BY DEF Inv, BoxInv, Noticed, Linked, OutboxMatches
<1> QED BY <1>1, Invariance, PTL

\* The outbox implements module Notification: with any number of processes that
\* lose leases, stop or answer late, a notice is told only once it arrived, and
\* for good.
THEOREM Implements == Spec => Promise
<1>1. Init => N!Init
  BY InitInv
<1>2. Inv /\ [Next]_vars => [N!Next]_(N!vars)
  BY NextInv
<1> QED BY <1>1, <1>2, Invariance, PTL DEF Spec, Promise, N!Spec
=============================================================================
