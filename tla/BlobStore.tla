----------------------------- MODULE BlobStore -----------------------------
(***************************************************************************)
(* File bytes and the rows that name them (internal/store/attachment.go,    *)
(* sweep.go, pgblobs.go; internal/blob).  Bytes are content-addressed and    *)
(* live outside the transaction that names them: in a bucket, or in a table  *)
(* written through another connection, in either case committed at once.     *)
(* PutFile holds an advisory lock shared from the upload to the commit, and   *)
(* the sweep of unreferenced blobs holds it exclusive.                      *)
(*                                                                         *)
(* A deployment that adds a bucket keeps reading what Postgres already held  *)
(* (blob.Fallback): new bytes go to the primary, a read falls back to the    *)
(* secondary, a deletion reaches both.                                      *)
(***************************************************************************)
EXTENDS Integers, FiniteSets

CONSTANTS
  Clients,     \* concurrent requests in flight
  Paths,       \* bundle paths a file can live at
  Blobs,       \* contents, which are their hashes
  None,        \* no file, no client, no blob
  Lost,        \* what a read answers when a file's bytes are gone
  LateCalls,   \* storage calls that may land after their request is cancelled
  MaxRequests  \* bound: requests admitted in a behaviour

ASSUME BlobAssumption ==
  /\ None \notin Clients \cup Blobs /\ Lost \notin Blobs \cup {None}
  /\ LateCalls \subseteq {"put", "delete"}
  /\ MaxRequests \in Nat

VARIABLES
  files,      \* committed object rows: the blob_hash at each path
  rows,       \* committed rows of table blob
  primary,    \* bytes in the store uploads go to
  secondary,  \* bytes in the store that was primary before
  shared,     \* holders of the advisory lock, shared
  exclusive,  \* its exclusive holder
  pathLock,   \* who holds the row lock of each path
  pc, job,    \* where each request is, and what it is for
  tx,         \* what each sweep has still to erase
  late,       \* storage calls whose request is gone
  budget,     \* requests still admitted
  orphans,    \* history: blobs left behind by an overwrite or a failed sweep
  strays      \* history: blobs an upload left behind without a row

tables == <<files, rows>>
bytes == <<primary, secondary>>
locks == <<shared, exclusive, pathLock>>
history == <<orphans, strays>>
vars == <<tables, bytes, locks, pc, job, tx, late, budget, history>>

-----------------------------------------------------------------------------
Referenced == {files[p] : p \in Paths} \ {None}

\* blob.Fallback's Get: the primary first, then the secondary.
Held(b) == b \in primary \/ b \in secondary

NoJob == [op |-> "none", paths |-> {}, blob |-> None]
NoTx == [doomed |-> {}, left |-> {}, now |-> None]

Go(c, step) == pc' = [pc EXCEPT ![c] = step]

\* Mutant: the advisory lock is the session's and outlives the request.
ReleaseRowsOnly(c) ==
  /\ pathLock' = [p \in Paths |-> IF pathLock[p] = c THEN None ELSE pathLock[p]]
  /\ UNCHANGED <<shared, exclusive>>
\* The end of a transaction frees every lock it took.
Release(c) ==
  /\ pathLock' = [p \in Paths |-> IF pathLock[p] = c THEN None ELSE pathLock[p]]
  /\ shared' = shared \ {c}
  /\ exclusive' = IF exclusive = c THEN None ELSE exclusive

Finish(c) ==
  /\ Go(c, "idle")
  /\ job' = [job EXCEPT ![c] = NoJob]
  /\ tx' = [tx EXCEPT ![c] = NoTx]
  /\ Release(c)

Admit(c, step, request) ==
  /\ pc[c] = "idle" /\ budget > 0
  /\ budget' = budget - 1
  /\ Go(c, step)
  /\ job' = [job EXCEPT ![c] = request]
  /\ UNCHANGED <<tables, bytes, locks, tx, late, history>>

-----------------------------------------------------------------------------
(* PutFile.                                                                 *)

RequestPut(c) == \E p \in Paths, b \in Blobs :
  Admit(c, "share", [op |-> "put", paths |-> {p}, blob |-> b])

\* Mutant: the writer does not say it is there.
LockNothing(c) ==
  /\ pc[c] = "share"
  /\ Go(c, "upload")
  /\ UNCHANGED <<tables, bytes, locks, job, tx, late, budget, history>>
\* pg_advisory_xact_lock_shared
LockShared(c) ==
  /\ pc[c] = "share" /\ exclusive = None
  /\ shared' = shared \cup {c}
  /\ Go(c, "upload")
  /\ UNCHANGED <<tables, bytes, exclusive, pathLock, job, tx, late, budget, history>>

\* Create-only: bytes that are already there are success.
Upload(c) ==
  /\ pc[c] = "upload"
  /\ primary' = primary \cup {job[c].blob}
  /\ Go(c, "row")
  /\ UNCHANGED <<tables, secondary, locks, job, tx, late, budget, history>>

\* INSERT INTO blob ... ON CONFLICT DO NOTHING: the row stays pending until
\* Commit; an insert of the same hash in another transaction waits for it.
InsertRow(c) ==
  /\ pc[c] = "row"
  /\ job[c].blob \in rows \/
       \A d \in Clients \ {c} : pc[d] \in {"file", "commit"} => job[d].blob # job[c].blob
  /\ Go(c, "file")
  /\ UNCHANGED <<tables, bytes, locks, job, tx, late, budget, history>>

\* INSERT INTO object ... ON CONFLICT (path) DO UPDATE
UpsertFile(c) ==
  /\ pc[c] = "file" /\ \A p \in job[c].paths : pathLock[p] = None
  /\ pathLock' = [p \in Paths |-> IF p \in job[c].paths THEN c ELSE pathLock[p]]
  /\ Go(c, "commit")
  /\ UNCHANGED <<tables, bytes, shared, exclusive, job, tx, late, budget, history>>

CommitPut(c) ==
  /\ pc[c] = "commit"
  /\ files' = [p \in Paths |-> IF p \in job[c].paths THEN job[c].blob ELSE files[p]]
  /\ rows' = rows \cup {job[c].blob}
  /\ orphans' = orphans \cup ({files[p] : p \in job[c].paths} \ {None})
  /\ Finish(c)
  /\ UNCHANGED <<bytes, late, budget, strays>>

-----------------------------------------------------------------------------
(* DeleteFile, and Purge's files.                                           *)

RequestDelete(c) == \E p \in Paths :
  Admit(c, "remove", [op |-> "delete", paths |-> {p}, blob |-> None])

\* The files under a purged concept; here, every path.
RequestPurge(c) ==
  Admit(c, "remove", [op |-> "purge", paths |-> Paths, blob |-> None])

Present(c) == {p \in job[c].paths : files[p] # None}

\* DELETE FROM object: waits for the rows it takes, and a DeleteFile that
\* finds none answers ErrNotFound.
RemoveRows(c) ==
  /\ pc[c] = "remove"
  /\ IF job[c].op = "delete" /\ Present(c) = {}
     THEN Finish(c)
     ELSE /\ \A p \in Present(c) : pathLock[p] = None
          /\ pathLock' = [p \in Paths |-> IF p \in Present(c) THEN c ELSE pathLock[p]]
          /\ job' = [job EXCEPT ![c].paths = Present(c)]
          /\ Go(c, "commitRemove")
          /\ UNCHANGED <<shared, exclusive, tx>>
  /\ UNCHANGED <<tables, bytes, late, budget, history>>

\* Mutant: the service answers without sweeping.
CommitRemoveOnly(c) ==
  /\ pc[c] = "commitRemove"
  /\ files' = [p \in Paths |-> IF p \in job[c].paths THEN None ELSE files[p]]
  /\ Finish(c)
  /\ UNCHANGED <<rows, bytes, late, budget, history>>
\* The commit, after which the service sweeps.
CommitRemove(c) ==
  /\ pc[c] = "commitRemove"
  /\ files' = [p \in Paths |-> IF p \in job[c].paths THEN None ELSE files[p]]
  /\ Release(c)
  /\ Go(c, "sweep")
  /\ UNCHANGED <<rows, bytes, job, tx, late, budget, history>>

-----------------------------------------------------------------------------
(* SweepBlobs.                                                              *)

\* Mutant: the sweep waits for other sweeps only.
LockFromSweeps(c) ==
  /\ pc[c] = "sweep" /\ exclusive = None
  /\ exclusive' = c
  /\ Go(c, "select")
  /\ UNCHANGED <<tables, bytes, shared, pathLock, job, tx, late, budget, history>>
\* pg_advisory_xact_lock
LockExclusive(c) ==
  /\ pc[c] = "sweep" /\ exclusive = None /\ shared = {}
  /\ exclusive' = c
  /\ Go(c, "select")
  /\ UNCHANGED <<tables, bytes, shared, pathLock, job, tx, late, budget, history>>

\* The blob rows nothing references, as committed by now.
Select(c) ==
  /\ pc[c] = "select"
  /\ LET doomed == rows \ Referenced
     IN IF doomed = {} THEN Finish(c)
        ELSE /\ tx' = [tx EXCEPT ![c] = [doomed |-> doomed, left |-> doomed, now |-> None]]
             /\ Go(c, "erase")
             /\ UNCHANGED <<locks, job>>
  /\ UNCHANGED <<tables, bytes, late, budget, history>>

\* Fallback's Delete: the primary's copy, then the secondary's.
ErasePrimary(c) == \E b \in tx[c].left :
  /\ pc[c] = "erase" /\ tx[c].now = None
  /\ primary' = primary \ {b}
  /\ tx' = [tx EXCEPT ![c].now = b]
  /\ UNCHANGED <<tables, secondary, locks, pc, job, late, budget, history>>

EraseSecondary(c) ==
  /\ pc[c] = "erase" /\ tx[c].now # None
  /\ secondary' = secondary \ {tx[c].now}
  /\ tx' = [tx EXCEPT ![c].left = @ \ {tx[c].now}, ![c].now = None]
  /\ UNCHANGED <<tables, primary, locks, pc, job, late, budget, history>>

\* Mutant: the rows go as soon as they are selected.
ForgetRowsFirst(c) ==
  /\ pc[c] = "erase" /\ tx[c].now = None
  /\ rows' = rows \ tx[c].doomed
  /\ Finish(c)
  /\ UNCHANGED <<files, bytes, late, budget, history>>
\* DELETE FROM blob, once every byte is gone, and the commit.
ForgetRows(c) ==
  /\ pc[c] = "erase" /\ tx[c].left = {}
  /\ rows' = rows \ tx[c].doomed
  /\ Finish(c)
  /\ UNCHANGED <<files, bytes, late, budget, history>>

-----------------------------------------------------------------------------
(* Failure.                                                                 *)

Uploaded == {"row", "file", "commit"}
Sweeping == {"sweep", "select", "erase"}

\* What a request that stops here leaves for somebody else to reclaim.
LeaveBehind(c) ==
  /\ strays' = IF pc[c] \in Uploaded THEN strays \cup {job[c].blob} ELSE strays
  /\ orphans' = IF pc[c] \in Sweeping THEN orphans \cup (rows \ Referenced) ELSE orphans

\* A cancelled request, a lost connection, a dead server.  The transaction
\* rolls back; what the blob store did stays done.
Abort(c) ==
  /\ pc[c] # "idle"
  /\ LeaveBehind(c)
  /\ Finish(c)
  /\ UNCHANGED <<tables, bytes, late, budget>>

\* The call to the primary a request is in the middle of.  (A late deletion
\* of the secondary's copy harms nobody: uploads never rely on it.)
CallOf(c) ==
  CASE pc[c] = "upload" -> {[op |-> "put", blob |-> job[c].blob]}
    [] pc[c] = "erase" /\ tx[c].now = None -> [op: {"delete"}, blob: tx[c].left]
    [] OTHER -> {}

\* The request is cancelled with its storage call sent and not answered.
AbortDuringCall(c) == \E call \in CallOf(c) :
  /\ call.op \in LateCalls
  /\ late' = late \cup {call}
  /\ LeaveBehind(c)
  /\ Finish(c)
  /\ UNCHANGED <<tables, bytes, budget>>

\* The store carries out a call nobody waits for any more.
Land == \E call \in late :
  /\ primary' = IF call.op = "put" THEN primary \cup {call.blob} ELSE primary \ {call.blob}
  /\ strays' = IF call.op = "put" THEN strays \cup {call.blob} ELSE strays
  /\ late' = late \ {call}
  /\ UNCHANGED <<tables, secondary, locks, pc, job, tx, budget, orphans>>

-----------------------------------------------------------------------------
\* Any files, each kept in the bucket or, since before there was one, in
\* Postgres.
Init ==
  /\ files \in [Paths -> Blobs \cup {None}]
  /\ rows = Referenced
  /\ primary \in SUBSET rows /\ secondary = rows \ primary
  /\ shared = {} /\ exclusive = None /\ pathLock = [p \in Paths |-> None]
  /\ pc = [c \in Clients |-> "idle"]
  /\ job = [c \in Clients |-> NoJob]
  /\ tx = [c \in Clients |-> NoTx]
  /\ late = {} /\ budget = MaxRequests
  /\ orphans = {} /\ strays = {}

Step(c) ==
  \/ LockShared(c) \/ Upload(c) \/ InsertRow(c) \/ UpsertFile(c) \/ CommitPut(c)
  \/ RemoveRows(c) \/ CommitRemove(c)
  \/ LockExclusive(c) \/ Select(c) \/ ErasePrimary(c) \/ EraseSecondary(c) \/ ForgetRows(c)

Next ==
  \/ \E c \in Clients :
       \/ RequestPut(c) \/ RequestDelete(c) \/ RequestPurge(c)
       \/ Step(c) \/ Abort(c) \/ AbortDuringCall(c)
  \/ Land

Spec == Init /\ [][Next]_vars

\* The database runs every statement whose locks are free, the store answers,
\* and the server goes on with what it has begun.
FairSpec == Spec /\ \A c \in Clients : WF_vars(Step(c))

-----------------------------------------------------------------------------
(* Properties.                                                              *)

Steps == {"idle", "share", "upload", "row", "file", "commit",
          "remove", "commitRemove", "sweep", "select", "erase"}

\* Every variable keeps its type, and every file row names a blob row.
TypeOK ==
  /\ files \in [Paths -> Blobs \cup {None}]
  /\ rows \in SUBSET Blobs /\ Referenced \subseteq rows
  /\ primary \in SUBSET Blobs /\ secondary \in SUBSET Blobs
  /\ shared \in SUBSET Clients /\ exclusive \in Clients \cup {None}
  /\ pathLock \in [Paths -> Clients \cup {None}]
  /\ pc \in [Clients -> Steps]
  /\ job \in [Clients -> [op: {"none", "put", "delete", "purge"},
                          paths: SUBSET Paths, blob: Blobs \cup {None}]]
  /\ tx \in [Clients -> [doomed: SUBSET Blobs, left: SUBSET Blobs, now: Blobs \cup {None}]]
  /\ late \in SUBSET [op: {"put", "delete"}, blob: Blobs]
  /\ budget \in 0 .. MaxRequests
  /\ orphans \in SUBSET Blobs /\ strays \in SUBSET Blobs

\* A file the bundle lists can be read: the sweep never erases bytes a row
\* names, or is about to name (SweepBlobs: "Safe to call at any time, from any
\* caller, concurrently with writes").
NoDanglingFile == \A b \in Referenced : Held(b)

\* Bytes always have somebody to name them: a row the next sweep reads, or
\* the request storing them now; only an upload cut short leaves bytes
\* without a name ("Rows before bytes would instead forget the hash").
BytesAreNamed ==
  \A b \in Blobs : Held(b) =>
    \/ b \in rows \cup strays
    \/ \E c \in Clients : pc[c] \in Uploaded /\ job[c].blob = b

\* A delete or a purge that ran to its end took the bytes with it: at rest,
\* an unreferenced blob was left by an overwrite or by a sweep that failed
\* (design doc 0031, P2: the asset is deleted on request).
RemovalReachesBytes ==
  (\A c \in Clients : pc[c] = "idle") => rows \ Referenced \subseteq orphans

\* Every request is answered: no circle of waits closes over the advisory
\* lock, the blob row and the path's row.
RequestsAnswered == \A c \in Clients : pc[c] # "idle" ~> pc[c] = "idle"

\* What a read of each path answers: the bytes its row names, if they exist.
Answer == [p \in Paths |-> IF files[p] = None \/ Held(files[p]) THEN files[p] ELSE Lost]

Files == INSTANCE FileStore WITH contents <- Answer

\* Seen through its reads, the store is FileStore: puts and removals are
\* atomic and nothing else changes what a path answers.
Implements == Files!Spec

\* A failed upload is reclaimed: "a failure after the upload leaves only an
\* unreferenced object the next write reuses — or the sweep reclaims".
UploadsReclaimed ==
  (\A c \in Clients : pc[c] = "idle") => \A b \in Blobs : Held(b) => b \in rows
=============================================================================
