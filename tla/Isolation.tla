------------------------------ MODULE Isolation ------------------------------
(***************************************************************************)
(* What a Store.Write is on each backend when others run at the same time. *)
(*                                                                         *)
(* file      withState holds an OS lock from before the file is read until *)
(*           after it is renamed: one transaction at a time.               *)
(* postgres  SERIALIZABLE: a transaction works on a snapshot; one that     *)
(*           writes what another wrote meanwhile, or would close a cycle   *)
(*           of read-write dependencies, is refused (40001) and run again. *)
(* mongodb   snapshot read concern: a transaction works on a snapshot; one *)
(*           that writes a document another wrote meanwhile is refused     *)
(*           (WriteConflict) and run again.  What it only read is not      *)
(*           compared with anything.                                       *)
(*                                                                         *)
(* The servers' own rules are external: PostgreSQL's is the one of its     *)
(* serializable snapshot isolation, where no transaction commits that has  *)
(* a conflict in and a conflict out, nor one that read past a committed    *)
(* transaction which had a conflict out.                                   *)
(*                                                                         *)
(* A database maps items to values, Absent where there is no record; an    *)
(* open transaction is what it read, what it will write, and what became   *)
(* of the others since its snapshot.                                       *)
(***************************************************************************)
EXTENDS Maps, Integers, FiniteSets

CONSTANT Absent

Backends == {"file", "postgres", "mongodb"}
Serializable == {"file", "postgres"}

None == [k \in {} |-> Absent]

Merge(d, w) == [k \in DOMAIN d |-> IF k \in DOMAIN w THEN w[k] ELSE d[k]]

\* deleting a record that is not there reads it and writes nothing
Written(s, w) == [k \in {x \in DOMAIN w : w[x] # Absent \/ s[x] # Absent} |-> w[k]]

Open(reads, writes, marks) ==
    [reads |-> reads, writes |-> writes, marks |-> marks,
     in |-> FALSE, out |-> FALSE, late |-> FALSE, lost |-> FALSE]

\* t read what c overwrote
Missed(t, c) == t.reads \cap c.marks # {}

\* t, still open, after c committed
After(t, c) ==
    [t EXCEPT !.out = t.out \/ Missed(t, c),
              !.in = t.in \/ Missed(c, t),
              !.late = t.late \/ (Missed(t, c) /\ c.out),
              !.lost = t.lost \/ DOMAIN t.writes \cap DOMAIN c.writes # {}]

MayCommit(backend, t) ==
    /\ ~t.lost
    /\ backend = "postgres" => ~t.late /\ ~(t.in /\ t.out)

\* PostgreSQL tracks reads by page and index range, so that any dependency
\* may be taken for a dangerous one
MayRefuse(backend, t) == t.lost \/ (backend = "postgres" /\ (t.late \/ t.in \/ t.out))
==============================================================================
