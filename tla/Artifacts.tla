----------------------------- MODULE Artifacts -----------------------------
(***************************************************************************)
(* A cache of pinned artifacts: processes that provision snapshots in it,  *)
(* one at a time under its lock, from blobs that snapshots share.  A file  *)
(* is known by its hash; of its bytes only whether they still have it is   *)
(* kept.  A process may be killed between any two steps; what it leaves    *)
(* behind stays on disk.                                                   *)
(*                                                                         *)
(* artifacts.py names the temporary of a download after the file and       *)
(* creates it exclusively; pinned.py takes a new name each time.           *)
(***************************************************************************)
EXTENDS Naturals

CONSTANTS
  Provisioner,  \* processes
  File,         \* hashes
  Snapshot,     \* destinations
  Inventory,    \* of each snapshot: its files
  NamedParts,   \* the snapshots that artifacts.py provisions
  MaxMishaps,   \* bound: processes killed and files rotten
  Nobody

Left == "left"  \* what a process that was killed made

ASSUME ArtifactsAssumption ==
  /\ Inventory \in [Snapshot -> SUBSET File] /\ NamedParts \subseteq Snapshot
  /\ Nobody \notin Provisioner \cup File /\ Left \notin Provisioner \cup {Nobody}
  /\ MaxMishaps \in Nat

VARIABLES
  blobs,      \* files in the directory of blobs
  rotten,     \* files whose bytes changed on disk, in blob and snapshots alike
  parts,      \* of each file: who made its named temporary, Left, or Nobody
  published,  \* of each snapshot: the files of its directory, or Absent
  holder,     \* who holds the lock
  job,        \* of each process: what it does, for which snapshot and file
  undeserved, \* history: a run failed although nothing was wrong but its peer
  mishaps

cacheVars == <<blobs, rotten, parts, published, holder, job, undeserved, mishaps>>

Absent == {Nobody}
NoJob == [at |-> "idle", snapshot |-> Nobody, file |-> Nobody, good |-> {}, staged |-> {}]

Moves(p, at) == job' = [job EXCEPT ![p].at = at]

\* The end of a run, by a return or by an exception: the lock is released.
RunEnds(p) ==
  /\ job' = [job EXCEPT ![p] = NoJob]
  /\ holder' = IF holder = p THEN Nobody ELSE holder

Wanted(p) == Inventory[job[p].snapshot]
Named(p) == job[p].snapshot \in NamedParts
\* verify(): the inventory is exact and every file has its hash.
Verified(s) == published[s] = Inventory[s] /\ Inventory[s] \cap rotten = {}

CacheInit ==
  /\ blobs = {} /\ rotten = {} /\ parts = [f \in File |-> Nobody]
  /\ published = [s \in Snapshot |-> Absent] /\ holder = Nobody
  /\ job = [p \in Provisioner |-> NoJob] /\ undeserved = FALSE /\ mishaps = 0

Provision(p, s) ==
  /\ job[p].at = "idle"
  /\ job' = [job EXCEPT ![p].at = "lock", ![p].snapshot = s]
  /\ UNCHANGED <<blobs, rotten, parts, published, holder, undeserved, mishaps>>

\* MUTANT: the lock is not taken.
LockFree_Always == TRUE

LockFree == holder = Nobody

\* With the lock: a snapshot that is there is only verified.
Locked(p) ==
  /\ job[p].at = "lock" /\ LockFree
  /\ holder' = p
  /\ Moves(p, IF published[job[p].snapshot] = Absent THEN "files" ELSE "verify")
  /\ UNCHANGED <<blobs, rotten, parts, published, undeserved, mishaps>>

\* The temporary of a run that fails is unlinked, whoever made it.
Unlinked(p) == IF Named(p) THEN [parts EXCEPT ![job[p].file] = Nobody] ELSE parts

\* No room on the disk, or a blob that does not have its hash.
Rejected(p) ==
  /\ job[p].at = "files"
  /\ job[p].good = {} \/ (Wanted(p) \cap blobs \cap rotten) \ job[p].good # {}
  /\ RunEnds(p)
  /\ UNCHANGED <<blobs, rotten, parts, published, undeserved, mishaps>>

\* A blob that is there already has its hash.
Check(p, f) ==
  /\ job[p].at = "files" /\ f \in ((Wanted(p) \cap blobs) \ rotten) \ job[p].good
  /\ job' = [job EXCEPT ![p].good = @ \cup {f}]
  /\ UNCHANGED <<blobs, rotten, parts, published, holder, undeserved, mishaps>>

\* The next file that is missing: the connection is opened, then the temporary.
Fetch(p, f) ==
  /\ job[p].at = "files" /\ f \in Wanted(p) \ blobs
  /\ job' = [job EXCEPT ![p].at = "open", ![p].file = f]
  /\ UNCHANGED <<blobs, rotten, parts, published, holder, undeserved, mishaps>>

NoConnection(p) ==
  /\ job[p].at = "open"
  /\ parts' = Unlinked(p) /\ RunEnds(p)
  /\ UNCHANGED <<blobs, rotten, published, undeserved, mishaps>>

OpenPart(p) ==
  /\ job[p].at = "open"
  /\ LET f == job[p].file
     IN  \/ /\ Named(p) /\ parts[f] # Nobody
            /\ undeserved' = (undeserved \/ parts[f] # Left)
            /\ parts' = Unlinked(p) /\ RunEnds(p)
         \/ /\ Named(p) => parts[f] = Nobody
            /\ parts' = IF Named(p) THEN [parts EXCEPT ![f] = p] ELSE parts
            /\ Moves(p, "download")
            /\ UNCHANGED <<holder, undeserved>>
  /\ UNCHANGED <<blobs, rotten, published, mishaps>>

\* A response that breaks off, is too long or has another hash is never renamed.
BadDownload(p) ==
  /\ job[p].at = "download"
  /\ parts' = Unlinked(p) /\ RunEnds(p)
  /\ UNCHANGED <<blobs, rotten, published, undeserved, mishaps>>

\* The temporary becomes the blob, unless somebody took it away.
Downloaded(p) ==
  /\ job[p].at = "download"
  /\ parts' = Unlinked(p)
  /\ LET f == job[p].file
     IN  IF Named(p) /\ parts[f] # p
         THEN undeserved' = TRUE /\ RunEnds(p) /\ UNCHANGED blobs
         ELSE /\ blobs' = blobs \cup {f}
              /\ job' = [job EXCEPT ![p].at = "files", ![p].file = Nobody, ![p].good = @ \cup {f}]
              /\ UNCHANGED <<holder, undeserved>>
  /\ UNCHANGED <<rotten, published, mishaps>>

\* All blobs are there and were checked: a new directory gets a link to each.
Link(p, f) ==
  /\ job[p].at = "files" /\ job[p].good = Wanted(p)
  /\ f \in Wanted(p) \ job[p].staged
  /\ job' = [job EXCEPT ![p].staged = @ \cup {f}]
  /\ UNCHANGED <<blobs, rotten, parts, published, holder, undeserved, mishaps>>

\* It is renamed to the destination, which must not exist.
Publish(p) ==
  /\ job[p].at = "files" /\ job[p].staged = Wanted(p)
  /\ IF published[job[p].snapshot] = Absent
     THEN /\ published' = [published EXCEPT ![job[p].snapshot] = job[p].staged]
          /\ Moves(p, "verify")
          /\ UNCHANGED <<holder, undeserved>>
     ELSE undeserved' = TRUE /\ RunEnds(p) /\ UNCHANGED published
  /\ UNCHANGED <<blobs, rotten, parts, mishaps>>

\* provision() ends as verify() does, with the directory or with an exception.
Verify(p) ==
  /\ job[p].at = "verify"
  /\ undeserved' = (undeserved \/ (rotten = {} /\ ~Verified(job[p].snapshot)))
  /\ RunEnds(p)
  /\ UNCHANGED <<blobs, rotten, parts, published, mishaps>>

\* SIGKILL: the kernel releases the lock, the temporary stays.
ProvisionerKilled(p) ==
  /\ job[p].at # "idle" /\ mishaps < MaxMishaps /\ mishaps' = mishaps + 1
  /\ parts' = [f \in File |-> IF parts[f] = p THEN Left ELSE parts[f]]
  /\ RunEnds(p)
  /\ UNCHANGED <<blobs, rotten, published, undeserved>>

Rots(f) ==
  /\ f \in blobs \ rotten /\ mishaps < MaxMishaps /\ mishaps' = mishaps + 1
  /\ rotten' = rotten \cup {f}
  /\ UNCHANGED <<blobs, parts, published, holder, job, undeserved>>

CacheNext ==
  \/ \E p \in Provisioner :
       \/ \E s \in Snapshot : Provision(p, s)
       \/ \E f \in File : Check(p, f) \/ Fetch(p, f) \/ Link(p, f)
       \/ Locked(p) \/ Rejected(p) \/ NoConnection(p) \/ OpenPart(p)
       \/ BadDownload(p) \/ Downloaded(p) \/ Publish(p) \/ Verify(p)
       \/ ProvisionerKilled(p)
  \/ \E f \in File : Rots(f)

CacheSpec == CacheInit /\ [][CacheNext]_cacheVars

-----------------------------------------------------------------------------
\* Every variable has its type, and who works holds the lock.
CacheTypeOK ==
  /\ rotten \subseteq blobs /\ blobs \subseteq File
  /\ parts \in [File -> Provisioner \cup {Nobody, Left}]
  /\ \A s \in Snapshot : published[s] = Absent \/ published[s] \subseteq File
  /\ \A p \in Provisioner : job[p].at \notin {"idle", "lock"} => holder = p

\* A snapshot is there as a whole or not at all, so that a reader without the lock
\* (load_native_config) never takes a part of one, whatever was killed before.
SnapshotIsWhole == \A s \in Snapshot : published[s] \in {Absent, Inventory[s]}

\* A named temporary belongs to the download that goes on, or to one that was killed:
\* no failure strands one that makes a later run fail.
PartHasOwner ==
  \A f \in File : parts[f] \in Provisioner =>
    job[parts[f]].at = "download" /\ job[parts[f]].file = f

\* Two processes that provision at once, blobs that are shared and runs that were
\* killed at any step leave a cache that is whole; a run fails for the disk, the
\* network, a rotten file or a temporary that a kill left, never for its peer.
CacheIsWhole == CacheTypeOK /\ SnapshotIsWhole /\ PartHasOwner /\ ~undeserved
=============================================================================
