-------------------------- MODULE KeyStore_proofs --------------------------
(***************************************************************************)
(* For any number of processes and keys and any lifetimes: every key that  *)
(* a manifest names has its directory, whatever a power loss leaves; a key *)
(* is never unnamed otherwise, so the tokens it signed can be verified; a  *)
(* power loss unnames at most one; init replaces no active key.            *)
(*                                                                         *)
(* The invariant says what the process under the lock knows: it has the    *)
(* manifest that is on disk, its key's directory is there once it has      *)
(* renamed it, and when it is about to write the manifest either all the   *)
(* disk is synced or the manifest is still empty.                          *)
(***************************************************************************)
EXTENDS KeyStore, FiniteSetTheorems, TLAPS

Locked == {"stage", "sync", "write"}

\* a directory a power loss may leave
ImageOK(d) ==
    /\ d \in Disk
    /\ d.keys \subseteq DOMAIN certs
    /\ d.manifest.keys \subseteq d.keys
    /\ d.manifest.active \in d.manifest.keys \/ d.manifest = Empty

\* what a process knows of the disk
ProcOK(x) ==
    /\ x.at \in Locked =>
          /\ x.manifest = disk.manifest /\ x.key \in DOMAIN certs
          /\ x.op = "rotate" \/ (x.op = "init" /\ disk.manifest = Empty)
    /\ x.at \in {"sync", "write"} => x.key \in disk.keys
    /\ x.at = "write" => images = {disk} \/ disk.manifest = Empty
    /\ x.at = "serve" => /\ x.manifest.active \in x.manifest.keys
                         /\ x.manifest.keys \subseteq disk.manifest.keys

\* at most one process is under the lock
Exclusive == \A p, q \in Procs : proc[p].at \in Locked /\ proc[q].at \in Locked => p = q

\* an image lacks one key of the manifest at most
Lag == \A d \in images : \E k \in Kids :
          disk.manifest.keys \subseteq d.manifest.keys \cup {k}

Types ==
    /\ disk \in images
    /\ DOMAIN certs \subseteq Kids /\ certs \in [DOMAIN certs -> Nat]
    /\ proc \in [Procs -> Proc]
    /\ tokens \subseteq Token
    /\ now \in Nat /\ lost \subseteq Kids

Inv ==
    /\ Types
    /\ \A d \in images : ImageOK(d)
    /\ \A p \in Procs : ProcOK(proc[p])
    /\ Exclusive
    /\ Lag \/ disk.manifest = Empty
    /\ \A t \in tokens : t.kid \in disk.manifest.keys \cup lost

(***************************************************************************)
(* The initial state, and one lemma for each kind of step.                 *)
(***************************************************************************)
LEMMA InitInv == Init => Inv
<1> SUFFICES ASSUME Init PROVE Inv OBVIOUS
<1>1. Off \in Proc /\ Off.at = "off" BY DEF Off, Proc, Phases, Manifest, Empty
<1>2. Types
  BY <1>1, KeyAssumption DEF Init, Types
<1>3. \A d \in images : ImageOK(d)
  BY DEF Init, ImageOK, Disk, Manifest, Empty
<1>4. \A p \in Procs : ProcOK(proc[p])
  BY <1>1 DEF Init, ProcOK, Locked
<1>5. Exclusive
  BY <1>1 DEF Init, Exclusive, Locked
<1> QED BY <1>2, <1>3, <1>4, <1>5 DEF Init, Inv

\* Nobody is under the lock that a process takes.
LEMMA FreeLock == Free <=> \A q \in Procs : proc[q].at \notin Locked
BY DEF Free, Locked

LEMMA LoadedManifest ==
  ASSUME Inv PROVE disk.manifest \in Manifest /\ ImageOK(disk)
BY DEF Inv, Types, ImageOK, Disk

\* A process takes the lock with the manifest on disk and a key it generated
\* or found.
LEMMA TakesInv ==
  ASSUME Inv, NEW p \in Procs, NEW op \in {"init", "rotate"}, NEW k \in Kids,
         NEW phase \in {"stage", "write"},
         Takes(p, op, phase, k),
         DOMAIN certs' \subseteq Kids, certs' \in [DOMAIN certs' -> Nat],
         DOMAIN certs \subseteq DOMAIN certs', k \in DOMAIN certs',
         op = "init" => disk.manifest = Empty,
         phase = "write" => k \in disk.keys /\ disk.manifest = Empty,
         UNCHANGED <<disk, images, tokens, now, lost>>
  PROVE  Inv'
<1> DEFINE x == [at |-> phase, op |-> op, manifest |-> disk.manifest, key |-> k]
<1>1. x \in Proc BY LoadedManifest DEF Proc, Phases
<1>2. proc' = [proc EXCEPT ![p] = x] /\ proc \in [Procs -> Proc]
  BY DEF Takes, Inv, Types
<1>3. Types' BY <1>1, <1>2 DEF Inv, Types
<1>4. \A d \in images' : ImageOK(d)' BY DEF Inv, ImageOK
<1>5. ASSUME NEW q \in Procs PROVE ProcOK(proc[q])'
  <2>1. CASE q = p
    <3>1. proc'[q] = x BY <2>1, <1>2
    <3> QED BY <3>1, <1>2 DEF ProcOK, Locked
  <2>2. CASE q # p
    <3>1. proc'[q] = proc[q] BY <2>2, <1>2
    <3> QED BY <3>1 DEF Inv, ProcOK
  <2> QED BY <2>1, <2>2
<1>6. Exclusive'
  <2>1. \A q \in Procs : proc[q].at \notin Locked BY FreeLock DEF Takes
  <2> QED BY <2>1, <1>2 DEF Exclusive
<1>7. (Lag \/ disk.manifest = Empty)' BY DEF Inv, Lag
<1> QED BY <1>3, <1>4, <1>5, <1>6, <1>7 DEF Inv

LEMMA GenerateInv ==
  ASSUME Inv, NEW p \in Procs, NEW op \in {"init", "rotate"}, Generate(p, op),
         op = "init" => disk.manifest = Empty,
         UNCHANGED <<disk, images, tokens, now, lost>>
  PROVE  Inv'
<1>1. PICK k \in Fresh :
         /\ Takes(p, op, "stage", k)
         /\ certs' = [j \in DOMAIN certs \cup {k} |->
                         IF j = k THEN now + CertValidity ELSE certs[j]]
  BY DEF Generate
<1>2. now + CertValidity \in Nat BY KeyAssumption DEF Inv, Types
<1>3. /\ DOMAIN certs' \subseteq Kids /\ certs' \in [DOMAIN certs' -> Nat]
      /\ DOMAIN certs \subseteq DOMAIN certs' /\ k \in DOMAIN certs' /\ k \in Kids
  BY <1>1, <1>2 DEF Inv, Types, Fresh
<1> QED BY <1>1, <1>3, TakesInv

LEMMA NoActive == ASSUME Inv, disk.manifest.active = None PROVE disk.manifest = Empty
BY LoadedManifest, KeyAssumption DEF ImageOK, Manifest

LEMMA ProvisionInv == ASSUME Inv, NEW p \in Procs, Provision(p) PROVE Inv'
<1>1. disk.manifest = Empty BY NoActive DEF Provision
<1>2. CASE Generate(p, "init") BY <1>1, <1>2, GenerateInv DEF Provision
<1>3. CASE \E k \in Orphans : Takes(p, "init", "write", k) /\ UNCHANGED certs
  <2>1. PICK k \in Orphans : Takes(p, "init", "write", k) /\ UNCHANGED certs BY <1>3
  <2>2. k \in disk.keys /\ k \in DOMAIN certs /\ k \in Kids
    BY LoadedManifest DEF Orphans, ImageOK, Inv, Types
  <2> QED BY <1>1, <2>1, <2>2, TakesInv DEF Provision, Inv, Types
<1> QED BY <1>2, <1>3 DEF Provision

LEMMA RotateInv == ASSUME Inv, NEW p \in Procs, Rotate(p) PROVE Inv'
BY GenerateInv DEF Rotate

LEMMA ServeInv == ASSUME Inv, NEW p \in Procs, Serve(p) PROVE Inv'
<1> DEFINE x == [at |-> "serve", op |-> "serve", manifest |-> disk.manifest, key |-> None]
<1>1. x \in Proc BY LoadedManifest DEF Proc, Phases
<1>2. proc' = [proc EXCEPT ![p] = x] /\ proc \in [Procs -> Proc]
  BY DEF Serve, Takes, Inv, Types
<1>3. disk.manifest.active \in disk.manifest.keys
  BY LoadedManifest, KeyAssumption DEF Serve, Loadable, ImageOK, Empty, Disk
<1>4. ASSUME NEW q \in Procs PROVE ProcOK(proc[q])'
  BY <1>2, <1>3 DEF Serve, Inv, ProcOK, Locked
<1>5. Exclusive' BY <1>2 DEF Inv, Exclusive, Locked
<1>6. Types' BY <1>1, <1>2 DEF Serve, Inv, Types
<1> QED BY <1>4, <1>5, <1>6 DEF Serve, Inv, ImageOK, Lag

\* The key's directory joins the disk and the images.
LEMMA CommitKeyInv == ASSUME Inv, NEW p \in Procs, CommitKey(p) PROVE Inv'
<1> DEFINE x == proc[p]
<1>1. x \in Proc /\ x.at = "stage" /\ x.key \in DOMAIN certs /\ x.manifest = disk.manifest
  BY DEF CommitKey, Inv, Types, ProcOK, Locked
<1>2. /\ disk \in Disk
      /\ disk' = [keys |-> disk.keys \cup {x.key}, manifest |-> disk.manifest]
  BY LoadedManifest DEF CommitKey, ImageOK, Disk
<1>3. ImageOK(disk') BY <1>1, <1>2, LoadedManifest DEF ImageOK, Disk, Inv, Types
<1>4. images' = images \cup {disk'} /\ UNCHANGED <<certs, tokens, now, lost>>
  BY DEF CommitKey
<1>5. \A d \in images' : ImageOK(d)' BY <1>3, <1>4 DEF Inv, ImageOK
<1>6. proc' = [proc EXCEPT ![p] = [x EXCEPT !.at = "sync"]] /\ proc \in [Procs -> Proc]
  BY DEF CommitKey, Inv, Types
<1>7. Types' BY <1>1, <1>4, <1>6 DEF Inv, Types, Proc, Phases
<1>8. ASSUME NEW q \in Procs PROVE ProcOK(proc[q])'
  <2>1. CASE q = p
    BY <2>1, <1>1, <1>2, <1>4, <1>6 DEF Inv, ProcOK, Locked, Proc
  <2>2. CASE q # p
    <3>1. proc[q].at \notin Locked BY <2>2, <1>1 DEF Inv, Exclusive, Locked
    <3> QED BY <3>1, <2>2, <1>2, <1>6 DEF Inv, ProcOK, Locked
  <2> QED BY <2>1, <2>2
<1>9. Exclusive' BY <1>1, <1>6 DEF Inv, Exclusive, Locked, Proc
<1>10. (Lag \/ disk.manifest = Empty)'
  <2>1. disk'.manifest = disk.manifest BY <1>2
  <2>2. ASSUME Lag, NEW d \in images' PROVE
           \E k \in Kids : disk.manifest.keys \subseteq d.manifest.keys \cup {k}
    BY <2>1, <2>2, <1>1, <1>4 DEF Lag, Inv, Types
  <2> QED BY <2>1, <2>2 DEF Inv, Lag
<1> QED BY <1>2, <1>4, <1>5, <1>7, <1>8, <1>9, <1>10 DEF Inv

LEMMA SyncDirInv == ASSUME Inv, NEW p \in Procs, SyncDir(p) PROVE Inv'
<1> DEFINE x == proc[p]
<1>1. /\ x \in Proc /\ x.at = "sync" /\ x.key \in DOMAIN certs
      /\ x.manifest = disk.manifest /\ x.key \in disk.keys
  BY DEF SyncDir, Inv, Types, ProcOK, Locked
<1>2. images' = {disk} /\ UNCHANGED <<disk, certs, tokens, now, lost>>
  BY DEF SyncDir, Saved
<1>3. \A d \in images' : ImageOK(d)' BY <1>2, LoadedManifest DEF ImageOK
<1>4. proc' = [proc EXCEPT ![p] = [x EXCEPT !.at = "write"]] /\ proc \in [Procs -> Proc]
  BY DEF SyncDir, Inv, Types
<1>5. Types' BY <1>1, <1>2, <1>4 DEF Inv, Types, Proc, Phases
<1>6. ASSUME NEW q \in Procs PROVE ProcOK(proc[q])'
  <2>1. CASE q = p
    BY <2>1, <1>1, <1>2, <1>4 DEF Inv, ProcOK, Locked, Proc
  <2>2. CASE q # p
    <3>1. proc[q].at \notin Locked BY <2>2, <1>1 DEF Inv, Exclusive, Locked
    <3> QED BY <3>1, <2>2, <1>2, <1>4 DEF Inv, ProcOK, Locked
  <2> QED BY <2>1, <2>2
<1>7. Exclusive' BY <1>1, <1>4 DEF Inv, Exclusive, Locked, Proc
<1>8. (Lag \/ disk.manifest = Empty)' BY <1>1, <1>2 DEF Lag, Inv, Types
<1> QED BY <1>2, <1>3, <1>5, <1>6, <1>7, <1>8 DEF Inv

\* The manifest is replaced: what it named it still names, and one key more.
LEMMA WriteManifestInv == ASSUME Inv, NEW p \in Procs, WriteManifest(p) PROVE Inv'
<1> DEFINE x == proc[p]
           m == [active |-> x.key, keys |-> disk.manifest.keys \cup {x.key}]
<1>1. /\ x \in Proc /\ x.at = "write" /\ x.key \in DOMAIN certs /\ x.key \in Kids
      /\ x.manifest = disk.manifest /\ x.key \in disk.keys
      /\ images = {disk} \/ disk.manifest = Empty
  BY DEF WriteManifest, Inv, Types, ProcOK, Locked
<1>2. /\ disk \in Disk
      /\ disk' = [keys |-> disk.keys, manifest |-> m] /\ m \in Manifest
  BY <1>1, LoadedManifest DEF WriteManifest, Activated, ImageOK, Disk, Manifest
<1>3. ImageOK(disk') BY <1>1, <1>2, LoadedManifest DEF ImageOK, Disk
<1>4. images' = images \cup {disk'} /\ UNCHANGED <<certs, tokens, now, lost>>
  BY DEF WriteManifest
<1>5. \A d \in images' : ImageOK(d)' BY <1>3, <1>4 DEF Inv, ImageOK
<1>6. /\ AfterWrite(p) \in Proc /\ AfterWrite(p).at \in {"off", "reload"}
  BY <1>1 DEF AfterWrite, Off, Proc, Phases, Manifest, Empty
<1>7. proc' = [proc EXCEPT ![p] = AfterWrite(p)] /\ proc \in [Procs -> Proc]
  BY DEF WriteManifest, Inv, Types
<1>8. Types' BY <1>4, <1>6, <1>7 DEF Inv, Types
<1>9. ASSUME NEW q \in Procs PROVE ProcOK(proc[q])'
  <2>1. CASE q = p BY <2>1, <1>6, <1>7 DEF ProcOK, Locked
  <2>2. CASE q # p
    <3>1. proc[q].at \notin Locked BY <2>2, <1>1 DEF Inv, Exclusive, Locked
    <3> QED BY <3>1, <2>2, <1>2, <1>7 DEF Inv, ProcOK, Locked
  <2> QED BY <2>1, <2>2
<1>10. Exclusive' BY <1>6, <1>7 DEF Inv, Exclusive, Locked
<1>11. Lag'
  <2>1. disk'.manifest.keys = disk.manifest.keys \cup {x.key} BY <1>2
  <2>2. ASSUME NEW d \in images' PROVE disk'.manifest.keys \subseteq d.manifest.keys \cup {x.key}
    BY <2>1, <1>1, <1>4 DEF Empty
  <2> QED BY <2>2, <1>1 DEF Lag
<1>12. \A t \in tokens' : t.kid \in disk'.manifest.keys \cup lost'
  BY <1>2, <1>4 DEF Inv
<1> QED BY <1>5, <1>8, <1>9, <1>10, <1>11, <1>12 DEF Inv

\* A process that ends leaves the others and the disk as they are.
LEMMA EndInv ==
  ASSUME Inv, NEW p \in Procs, proc' = [proc EXCEPT ![p] = Off],
         UNCHANGED <<disk, images, certs, tokens, now, lost>>
  PROVE  Inv'
<1>1. Off \in Proc /\ Off.at = "off" BY DEF Off, Proc, Phases, Manifest, Empty
<1>2. proc \in [Procs -> Proc] BY DEF Inv, Types
<1>3. ASSUME NEW q \in Procs PROVE ProcOK(proc[q])'
  BY <1>1, <1>2 DEF Inv, ProcOK, Locked
<1>4. Exclusive' BY <1>1, <1>2 DEF Inv, Exclusive, Locked
<1>5. Types' BY <1>1, <1>2 DEF Inv, Types
<1> QED BY <1>3, <1>4, <1>5 DEF Inv, ImageOK, Lag

LEMMA SignInv == ASSUME Inv, NEW p \in Procs, Sign(p) PROVE Inv'
<1> DEFINE k == proc[p].manifest.active
<1>1. k \in disk.manifest.keys /\ disk.manifest.keys \subseteq Kids
  BY LoadedManifest DEF Sign, Inv, ProcOK, Manifest
<1>2. PICK exp \in now + 1 .. now + TokenTTL : tokens' = tokens \cup {[kid |-> k, exp |-> exp]}
  BY DEF Sign
<1>3. exp \in Nat BY KeyAssumption DEF Inv, Types
<1>4. Types' BY <1>1, <1>2, <1>3 DEF Sign, Inv, Types, Token
<1>5. \A t \in tokens' : t.kid \in disk.manifest.keys \cup lost BY <1>1, <1>2 DEF Inv
<1>6. \A q \in Procs : ProcOK(proc[q])' BY DEF Sign, Inv, ProcOK
<1>7. Exclusive' BY DEF Sign, Inv, Exclusive
<1> QED BY <1>4, <1>5, <1>6, <1>7 DEF Sign, Inv, ImageOK, Lag

LEMMA PowerLossInv == ASSUME Inv, PowerLoss PROVE Inv'
<1>1. PICK d \in images :
         /\ disk' = d /\ images' = {d}
         /\ lost' = lost \cup (disk.manifest.keys \ d.manifest.keys)
  BY DEF PowerLoss
<1>2. proc' = [q \in Procs |-> Off] /\ UNCHANGED <<certs, tokens, now>> BY DEF PowerLoss
<1>3. Off \in Proc /\ Off.at = "off" BY DEF Off, Proc, Phases, Manifest, Empty
<1>4. disk.manifest.keys \subseteq Kids /\ d.manifest.keys \subseteq Kids
  BY LoadedManifest DEF Inv, ImageOK, Disk, Manifest
<1>5. Types' BY <1>1, <1>2, <1>3, <1>4 DEF Inv, Types
<1>6. \A q \in Procs : ProcOK(proc[q])' BY <1>2, <1>3 DEF ProcOK, Locked
<1>7. Exclusive' BY <1>2, <1>3 DEF Exclusive, Locked
<1>8. ImageOK(d)' BY <1>2 DEF Inv, ImageOK
<1>9. (Lag \/ disk.manifest = Empty)'
  <2>1. CASE d.manifest = Empty BY <2>1, <1>1
  <2>2. CASE d.manifest.active \in d.manifest.keys BY <2>2, <1>1, <1>4 DEF Lag
  <2> QED BY <2>1, <2>2 DEF Inv, ImageOK
<1>10. \A t \in tokens' : t.kid \in disk'.manifest.keys \cup lost'
  BY <1>1, <1>2 DEF Inv
<1> QED BY <1>1, <1>5, <1>6, <1>7, <1>8, <1>9, <1>10 DEF Inv

LEMMA TickInv == ASSUME Inv, Tick PROVE Inv'
<1>1. Types' BY DEF Tick, Inv, Types
<1>2. \A q \in Procs : ProcOK(proc[q])' BY DEF Tick, Inv, ProcOK
<1>3. Exclusive' BY DEF Tick, Inv, Exclusive
<1>4. tokens' \subseteq tokens BY DEF Tick
<1> QED BY <1>1, <1>2, <1>3, <1>4 DEF Tick, Inv, ImageOK, Lag

LEMMA StutterInv == ASSUME Inv, UNCHANGED vars PROVE Inv'
BY DEF Inv, vars, Types, ImageOK, ProcOK, Exclusive, Lag

LEMMA NextInv == Inv /\ [Next]_vars => Inv'
<1> SUFFICES ASSUME Inv, [Next]_vars PROVE Inv' OBVIOUS
<1>1. CASE UNCHANGED vars BY <1>1, StutterInv
<1>2. CASE PowerLoss BY <1>2, PowerLossInv
<1>3. CASE Tick BY <1>3, TickInv
<1>4. ASSUME NEW p \in Procs PROVE
         /\ Provision(p) => Inv'
         /\ Rotate(p) => Inv'
         /\ Serve(p) => Inv'
         /\ CommitKey(p) => Inv'
         /\ SyncDir(p) => Inv'
         /\ WriteManifest(p) => Inv'
         /\ Reload(p) \/ Stop(p) => Inv'
         /\ Sign(p) => Inv'
  BY ProvisionInv, RotateInv, ServeInv, CommitKeyInv, SyncDirInv, WriteManifestInv,
     EndInv, SignInv DEF Reload, Stop
<1> QED BY <1>1, <1>2, <1>3, <1>4 DEF Next

\* The invariant holds in every reachable state.
THEOREM Invariance == Spec => []Inv
BY InitInv, NextInv, PTL DEF Spec

(***************************************************************************)
(* What follows from the invariant.                                        *)
(***************************************************************************)

\* Every reachable state is well typed, and a server holds a key to sign with.
THEOREM TypeCorrect == Spec => []TypeOK
<1>1. ASSUME Inv PROVE TypeOK
  <2>1. images \subseteq Disk BY <1>1 DEF Inv, ImageOK
  <2>2. disk.manifest.keys \subseteq DOMAIN certs BY <1>1, LoadedManifest DEF ImageOK
  <2> QED BY <1>1, <2>1, <2>2 DEF Inv, Types, ProcOK, TypeOK
<1> QED BY <1>1, Invariance, PTL

\* A manifest names no key without its directory, whichever of the unsynced
\* renames a power loss undoes.
THEOREM KeysAreBacked == Spec => []ManifestBacked
<1>1. Inv => ManifestBacked BY DEF Inv, ImageOK, ManifestBacked, Empty
<1> QED BY <1>1, Invariance, PTL

\* Rotations, crashes and commands that race for the lock leave every key that
\* signed an unexpired token, and every key a server publishes, in the manifest.
THEOREM TokensStayVerifiable == Spec => []Verifiable
<1>1. Inv => Verifiable BY DEF Inv, ProcOK, Verifiable, PublicJWKS
<1> QED BY <1>1, Invariance, PTL

\* A power loss unnames one key at most.
THEOREM ManifestLagsByOne == Spec => []LagsByOne
<1>1. ASSUME Inv PROVE LagsByOne
  <2> SUFFICES ASSUME NEW d \in images
               PROVE  Cardinality(disk.manifest.keys \ d.manifest.keys) <= 1
    BY DEF LagsByOne
  <2>1. CASE disk.manifest = Empty
    <3>1. disk.manifest.keys \ d.manifest.keys = {} BY <2>1 DEF Empty
    <3> QED BY <3>1, FS_EmptySet
  <2>2. CASE Lag
    <3>1. PICK k \in Kids : disk.manifest.keys \subseteq d.manifest.keys \cup {k}
      BY <2>2 DEF Lag
    <3>2. disk.manifest.keys \ d.manifest.keys \in {{}, {k}} BY <3>1
    <3> QED BY <3>2, FS_EmptySet, FS_Singleton
  <2> QED BY <1>1, <2>1, <2>2 DEF Inv
<1> QED BY <1>1, Invariance, PTL

\* init replaces no active key, even when it found an orphan or raced with a
\* rotation (Provision).
THEOREM InitKeeps == Spec => InitKeepsActive
<1> DEFINE Step == disk.manifest.active # None
             => \/ disk'.manifest.active \in {d.manifest.active : d \in images}
                \/ \E p \in Procs : proc[p].op = "rotate" /\ disk'.manifest = Activated(p)
<1>1. ASSUME Inv, [Next]_vars, disk' # disk, disk.manifest.active # None PROVE Step
  <2>1. CASE PowerLoss BY <2>1 DEF PowerLoss
  <2>2. ASSUME NEW p \in Procs, CommitKey(p) PROVE Step
    <3>1. disk'.manifest = disk.manifest
      BY <2>2, <1>1, LoadedManifest DEF CommitKey, ImageOK, Disk
    <3> QED BY <3>1, <1>1 DEF Inv, Types
  <2>3. ASSUME NEW p \in Procs, WriteManifest(p) PROVE Step
    <3>1. proc[p].op = "rotate" BY <2>3, <1>1 DEF WriteManifest, Inv, ProcOK, Locked, Empty
    <3>2. disk'.manifest = Activated(p)
      BY <2>3, <1>1, LoadedManifest DEF WriteManifest, ImageOK, Disk
    <3> QED BY <3>1, <3>2
  <2> QED BY <1>1, <2>1, <2>2, <2>3
        DEF Next, vars, Provision, Rotate, Serve, SyncDir, Reload, Sign, Stop, Tick
<1>2. ASSUME Inv, [Next]_vars PROVE [Step]_vars
  <2>1. CASE disk' = disk BY <2>1, <1>2 DEF Inv, Types
  <2>2. CASE disk' # disk BY <2>2, <1>1, <1>2
  <2> QED BY <2>1, <2>2
<1>3. Inv /\ [Next]_vars => [Step]_vars BY <1>2
<1> QED BY <1>3, Invariance, PTL DEF Spec, InitKeepsActive
=============================================================================
