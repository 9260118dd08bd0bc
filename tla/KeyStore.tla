----------------------------- MODULE KeyStore ------------------------------
(***************************************************************************)
(* The provider's signing keys (src/internal/oidc/keystore.go) and the     *)
(* commands that change them: init provisions a key, keys rotate replaces  *)
(* the active one, serve loads them all and signs.  They are processes of  *)
(* their own that share a directory: one subdirectory per key and a        *)
(* manifest, under a file lock.                                            *)
(*                                                                         *)
(* A process may stop, or fail, between any two file operations; that      *)
(* releases its lock.  The machine may stop too.  A rename is seen at once *)
(* but is sure to outlive a power loss only once the directory was synced; *)
(* renames reach the disk in order, as on a journaling file system.  disk  *)
(* is what processes see, images what a power loss may leave of it.        *)
(*                                                                         *)
(* A staging directory is hidden and nothing reads it, so it is not        *)
(* modelled, and neither is the old manifest's Retired flag: it is set for *)
(* every key but the active one and nothing reads it.  keys status changes *)
(* nothing.                                                                *)
(***************************************************************************)
EXTENDS Integers, FiniteSets

CONSTANTS
    Procs,         \* processes: commands and servers
    Kids,          \* keys that may be generated
    None,          \* no active key
    CertValidity,  \* 365 days
    TokenTTL,      \* the longest life of a signed token
    MaxTime        \* bound: the clock

ASSUME KeyAssumption ==
    /\ None \notin Kids
    /\ CertValidity \in Nat \ {0} /\ TokenTTL \in Nat \ {0}
    /\ MaxTime \in Nat

VARIABLES
    disk,    \* the key directories and the manifest
    images,  \* what it was at the last sync and after each rename since
    certs,   \* when the certificate of each key generated expires
    proc,    \* what each process does, and the manifest it holds in memory
    tokens,  \* the signed tokens that have not expired
    now,
    lost     \* history: keys a power loss took out of the manifest

vars == <<disk, images, certs, proc, tokens, now, lost>>

Manifest == [active : Kids \cup {None}, keys : SUBSET Kids]
Disk     == [keys : SUBSET Kids, manifest : Manifest]
Token    == [kid : Kids, exp : Nat]
Phases   == {"off", "stage", "sync", "write", "reload", "serve"}
Proc     == [at : Phases, op : {"init", "rotate", "serve"},
             manifest : Manifest, key : Kids \cup {None}]

Empty == [active |-> None, keys |-> {}]
Off   == [at |-> "off", op |-> "init", manifest |-> Empty, key |-> None]

Init ==
    /\ disk = [keys |-> {}, manifest |-> Empty]
    /\ images = {disk}
    /\ certs = [k \in {} |-> 0]
    /\ proc = [p \in Procs |-> Off]
    /\ tokens = {} /\ now = 0 /\ lost = {}

-----------------------------------------------------------------------------
(* Under the lock.  A command takes it, reads the manifest and holds it    *)
(* until the manifest is replaced.                                         *)

Free_Unlocked == TRUE
Free == \A q \in Procs : proc[q].at \notin {"stage", "sync", "write"}

Fresh == Kids \ DOMAIN certs

\* p takes the lock and has the key k to commit
Takes(p, op, phase, k) ==
    /\ proc[p].at = "off" /\ Free
    /\ proc' = [proc EXCEPT ![p] = [at |-> phase, op |-> op,
                                    manifest |-> disk.manifest, key |-> k]]

Generate_NamedFirst(p, op) ==
    \E k \in Fresh :
        /\ Takes(p, op, "write", k)
        /\ certs' = [j \in DOMAIN certs \cup {k} |->
                        IF j = k THEN now + CertValidity ELSE certs[j]]
Generate(p, op) ==
    \E k \in Fresh :
        /\ Takes(p, op, "stage", k)
        /\ certs' = [j \in DOMAIN certs \cup {k} |->
                        IF j = k THEN now + CertValidity ELSE certs[j]]

\* the key directories an interrupted run left, any of which may come first
Orphans == disk.keys

Provision_Anew(p) ==
    /\ \/ Orphans = {} /\ Generate(p, "init")
       \/ \E k \in Orphans : Takes(p, "init", "write", k) /\ UNCHANGED certs
    /\ UNCHANGED <<disk, images, tokens, now, lost>>
\* An active key is kept: then the command changes nothing.
Provision(p) ==
    /\ disk.manifest.active = None
    /\ \/ Orphans = {} /\ Generate(p, "init")
       \/ \E k \in Orphans : Takes(p, "init", "write", k) /\ UNCHANGED certs
    /\ UNCHANGED <<disk, images, tokens, now, lost>>

Rotate(p) ==
    /\ Generate(p, "rotate")
    /\ UNCHANGED <<disk, images, tokens, now, lost>>

\* stageAndCommitKey: the staged files are synced, then the directory renamed
CommitKey(p) ==
    /\ proc[p].at = "stage"
    /\ disk' = [disk EXCEPT !.keys = @ \cup {proc[p].key}]
    /\ images' = images \cup {disk'}
    /\ proc' = [proc EXCEPT ![p].at = "sync"]
    /\ UNCHANGED <<certs, tokens, now, lost>>

Saved_Nothing == images
\* a sync saves every entry there is, an earlier manifest's included
Saved == {disk}

SyncDir(p) ==
    /\ proc[p].at = "sync"
    /\ images' = Saved
    /\ proc' = [proc EXCEPT ![p].at = "write"]
    /\ UNCHANGED <<disk, certs, tokens, now, lost>>

\* the manifest as read, with p's key active and every other one retired
Activated(p) == [active |-> proc[p].key,
                 keys |-> proc[p].manifest.keys \cup {proc[p].key}]

\* keys rotate loads the keys once more, under a new lock
AfterWrite(p) ==
    IF proc[p].op = "rotate" THEN [proc[p] EXCEPT !.at = "reload"] ELSE Off

WriteManifest(p) ==
    /\ proc[p].at = "write"
    /\ disk' = [disk EXCEPT !.manifest = Activated(p)]
    /\ images' = images \cup {disk'}
    /\ proc' = [proc EXCEPT ![p] = AfterWrite(p)]
    /\ UNCHANGED <<certs, tokens, now, lost>>

-----------------------------------------------------------------------------
(* Loading and signing.  A process holds the keys it loaded until it ends. *)

Loadable_Unchecked == disk.manifest.keys \subseteq disk.keys
Loadable == /\ disk.manifest.active \in disk.keys
            /\ now < certs[disk.manifest.active]
            /\ disk.manifest.keys \subseteq disk.keys

\* The rotating command ends here, whether or not the keys load.
Reload(p) ==
    /\ proc[p].at = "reload" /\ Free
    /\ proc' = [proc EXCEPT ![p] = Off]
    /\ UNCHANGED <<disk, images, certs, tokens, now, lost>>

Serve(p) ==
    /\ Loadable
    /\ Takes(p, "serve", "serve", None)
    /\ UNCHANGED <<disk, images, certs, tokens, now, lost>>

\* the JSON Web Key Set a server answers with
PublicJWKS(p) == proc[p].manifest.keys

Sign(p) ==
    LET k == proc[p].manifest.active IN
    /\ proc[p].at = "serve"
    /\ now < certs[k]
    /\ \E exp \in now + 1 .. now + TokenTTL :
          /\ exp <= certs[k]
          /\ tokens' = tokens \cup {[kid |-> k, exp |-> exp]}
    /\ UNCHANGED <<disk, images, certs, proc, now, lost>>

-----------------------------------------------------------------------------
(* The environment.                                                        *)

\* a process ends, by itself, by a failed step or by a crash
Stop(p) ==
    /\ proc[p].at # "off"
    /\ proc' = [proc EXCEPT ![p] = Off]
    /\ UNCHANGED <<disk, images, certs, tokens, now, lost>>

PowerLoss ==
    /\ \E d \in images :
          /\ disk' = d /\ images' = {d}
          /\ lost' = lost \cup (disk.manifest.keys \ d.manifest.keys)
    /\ proc' = [p \in Procs |-> Off]
    /\ UNCHANGED <<certs, tokens, now>>

Tick ==
    /\ now < MaxTime
    /\ now' = now + 1
    /\ tokens' = {t \in tokens : t.exp > now'}
    /\ UNCHANGED <<disk, images, certs, proc, lost>>

Next ==
    \/ \E p \in Procs : \/ Provision(p) \/ Rotate(p) \/ Serve(p)
                        \/ CommitKey(p) \/ SyncDir(p) \/ WriteManifest(p)
                        \/ Reload(p) \/ Sign(p) \/ Stop(p)
    \/ PowerLoss \/ Tick

Spec == Init /\ [][Next]_vars

-----------------------------------------------------------------------------
(* Properties.                                                             *)

\* Every variable has its type; a server holds a key to sign with.
TypeOK ==
    /\ disk \in images /\ images \subseteq Disk
    /\ DOMAIN certs \subseteq Kids /\ certs \in [DOMAIN certs -> Nat]
    /\ proc \in [Procs -> Proc]
    /\ \A p \in Procs : proc[p].at = "serve" => proc[p].manifest.active \in DOMAIN certs
    /\ tokens \subseteq Token
    /\ now \in Nat /\ lost \subseteq Kids

\* Whatever a power loss leaves, every key the manifest names has its
\* directory, so that serve finds what Load insists on (keystore.go:194).
ManifestBacked ==
    \A d \in images : /\ d.manifest.keys \subseteq d.keys
                      /\ d.manifest.active \in d.manifest.keys \cup {None}

\* Through rotations, crashes and concurrent commands, a server started now
\* publishes the key of every unexpired token, and all that any running server
\* publishes; only a power loss can unname a key.
Verifiable ==
    /\ \A t \in tokens : t.kid \in disk.manifest.keys \cup lost
    /\ \A p \in Procs : proc[p].at = "serve" => PublicJWKS(p) \subseteq disk.manifest.keys

\* A power loss takes at most the newest key out of the manifest: each
\* rotation makes the one before it durable (stageAndCommitKey's last sync).
LagsByOne ==
    \A d \in images : Cardinality(disk.manifest.keys \ d.manifest.keys) <= 1

\* Running init again never replaces the active key; a rotation does, and a
\* power loss may restore the one before it (Provision).
InitKeepsActive ==
    [][ disk.manifest.active # None
          => \/ disk'.manifest.active \in {d.manifest.active : d \in images}
             \/ \E p \in Procs : proc[p].op = "rotate" /\ disk'.manifest = Activated(p) ]_vars

\* What Rotate's comment says, "unexpired artifacts remain verifiable": where
\* a server can start, it publishes the key of every unexpired token.
StaysVerifiable ==
    disk.manifest.active # None => \A t \in tokens : t.kid \in disk.manifest.keys
=============================================================================
