--------------------------- MODULE BlobStoreProofs ---------------------------
(* That a listed file can always be read, that bytes always have somebody to *)
(* name them, and that the store implements FileStore: for any number of      *)
(* requests, paths and contents.                                             *)
EXTENDS BlobStore, TLAPS

-----------------------------------------------------------------------------
(* What makes the sweep safe: an inductive strengthening.                   *)

\* A writer that may have uploaded.
Writing == {"upload"} \cup Uploaded

\* A put carries one path and a blob from its admission to its commit.
JobsFit == \A c \in Clients : pc[c] \in {"share"} \cup Writing =>
  job[c].blob \in Blobs /\ \E p \in Paths : job[c].paths = {p}

\* The advisory lock: writers are in it shared, a sweep alone.
Locking ==
  /\ exclusive # None => shared = {}
  /\ \A c \in Clients :
       /\ pc[c] \in Writing => c \in shared
       /\ pc[c] \in {"select", "erase"} => exclusive = c

\* What a sweep is about to forget is named by no file, and what it has erased
\* is gone, unless a late upload brought it back.
Sweeps == \A c \in Clients : pc[c] = "erase" =>
  /\ tx[c].doomed \subseteq rows \ Referenced
  /\ tx[c].left \subseteq tx[c].doomed
  /\ tx[c].now \in tx[c].left \cup {None}
  /\ tx[c].now \in primary => tx[c].now \in strays
  /\ \A b \in tx[c].doomed \ tx[c].left : Held(b) => b \in strays

\* What a writer uploaded stays until it commits.
UploadsStay == \A c \in Clients : pc[c] \in Uploaded => Held(job[c].blob)

\* Only uploads land late.
LatePuts == \A call \in late : call.op = "put"

BlobInv ==
  /\ TypeOK /\ JobsFit /\ Locking /\ Sweeps
  /\ UploadsStay /\ LatePuts /\ NoDanglingFile /\ BytesAreNamed
-----------------------------------------------------------------------------
(* Types and locks.                                                         *)

\* Anything one request does.
ClientStep(c) ==
  \/ RequestPut(c) \/ RequestDelete(c) \/ RequestPurge(c)
  \/ Step(c) \/ Abort(c) \/ AbortDuringCall(c)

\* The empty job and the empty transaction are well typed.
LEMMA NoJobType ==
  /\ NoJob \in [op: {"none", "put", "delete", "purge"},
                paths: SUBSET Paths, blob: Blobs \cup {None}]
  /\ NoTx \in [doomed: SUBSET Blobs, left: SUBSET Blobs, now: Blobs \cup {None}]
BY DEF NoJob, NoTx

\* A step keeps the types, and every put its path and its blob.
LEMMA TypeStep ==
  ASSUME BlobInv, NEW c \in Clients, ClientStep(c)
  PROVE  TypeOK' /\ JobsFit'
<1> USE NoJobType, BlobAssumption
<1>1. BlobInv
  OBVIOUS
<1>2. CASE RequestPut(c)
  BY <1>1, <1>2 DEF RequestPut, Admit, Go, BlobInv, TypeOK, Steps, JobsFit, Writing,
       Uploaded, Referenced, tables, bytes, locks, history
<1>3. CASE RequestDelete(c)
  <2>1. PICK p \in Paths :
          Admit(c, "remove", [op |-> "delete", paths |-> {p}, blob |-> None])
    BY <1>3 DEF RequestDelete
  <2>2. [op |-> "delete", paths |-> {p}, blob |-> None] \in
          [op: {"none", "put", "delete", "purge"}, paths: SUBSET Paths, blob: Blobs \cup {None}]
    OBVIOUS
  <2>q. QED
    BY <1>1, <2>1, <2>2
    DEF Admit, Go, BlobInv, TypeOK, Steps, JobsFit, Writing, Uploaded, Referenced,
        tables, bytes, locks, history
<1>4. CASE RequestPurge(c)
  BY <1>1, <1>4 DEF RequestPurge, Admit, Go, BlobInv, TypeOK, Steps, JobsFit,
       Writing, Uploaded, Referenced, tables, bytes, locks, history
<1>5. CASE LockShared(c)
  BY <1>1, <1>5 DEF LockShared, Go, BlobInv, TypeOK, Steps, JobsFit, Writing,
       Uploaded, Referenced, tables, bytes, history
<1>6. CASE Upload(c)
  BY <1>1, <1>6 DEF Upload, Go, BlobInv, TypeOK, Steps, JobsFit, Writing, Uploaded,
       Referenced, tables, locks, history
<1>7. CASE InsertRow(c)
  BY <1>1, <1>7 DEF InsertRow, Go, BlobInv, TypeOK, Steps, JobsFit, Writing,
       Uploaded, Referenced, tables, bytes, locks, history
<1>8. CASE UpsertFile(c)
  BY <1>1, <1>8 DEF UpsertFile, Go, BlobInv, TypeOK, Steps, JobsFit, Writing,
       Uploaded, Referenced, tables, bytes, history
<1>9. CASE CommitPut(c)
  BY <1>1, <1>9 DEF CommitPut, Finish, Release, Go, BlobInv, TypeOK, Steps, JobsFit,
       Writing, Uploaded, Referenced, bytes
<1>10. CASE RemoveRows(c)
  <2>1. CASE job[c].op = "delete" /\ Present(c) = {}
    <3>1. Finish(c) /\ UNCHANGED <<tables, bytes, late, budget, history>>
      BY <1>10, <2>1 DEF RemoveRows
    <3>q. QED
      BY <1>1, <3>1 DEF Finish, Release, Go, BlobInv, TypeOK, Steps, JobsFit, Writing,
         Uploaded, Referenced, tables, bytes, history
  <2>2. CASE ~ (job[c].op = "delete" /\ Present(c) = {})
    <3>1. Present(c) \in SUBSET Paths
      BY <1>1 DEF BlobInv, TypeOK, Present
    <3>2. /\ pathLock' = [p \in Paths |-> IF p \in Present(c) THEN c ELSE pathLock[p]]
          /\ job' = [job EXCEPT ![c].paths = Present(c)]
          /\ pc' = [pc EXCEPT ![c] = "commitRemove"]
          /\ UNCHANGED <<files, rows, primary, secondary, shared, exclusive, tx, late,
                         budget, orphans, strays>>
      BY <1>10, <2>2 DEF RemoveRows, Go, tables, bytes, history
    <3>q. QED
      BY <1>1, <3>1, <3>2 DEF BlobInv, TypeOK, Steps, JobsFit, Writing, Uploaded, Referenced
  <2>q. QED  BY <2>1, <2>2
<1>11. CASE CommitRemove(c)
  BY <1>1, <1>11 DEF CommitRemove, Release, Go, BlobInv, TypeOK, Steps, JobsFit,
       Writing, Uploaded, Referenced, bytes, history
<1>12. CASE LockExclusive(c)
  BY <1>1, <1>12 DEF LockExclusive, Go, BlobInv, TypeOK, Steps, JobsFit, Writing,
       Uploaded, Referenced, tables, bytes, history
<1>13. CASE Select(c)
  <2> DEFINE doomed == rows \ Referenced
  <2>1. CASE doomed = {}
    <3>1. Finish(c) /\ UNCHANGED <<tables, bytes, late, budget, history>>
      BY <1>13, <2>1 DEF Select
    <3>q. QED
      BY <1>1, <3>1 DEF Finish, Release, Go, BlobInv, TypeOK, Steps, JobsFit, Writing,
         Uploaded, Referenced, tables, bytes, history
  <2>2. CASE doomed # {}
    <3>1. /\ tx' = [tx EXCEPT ![c] = [doomed |-> doomed, left |-> doomed, now |-> None]]
          /\ pc' = [pc EXCEPT ![c] = "erase"]
          /\ UNCHANGED <<files, rows, primary, secondary, shared, exclusive, pathLock, job,
                         late, budget, orphans, strays>>
      BY <1>13, <2>2 DEF Select, Go, tables, bytes, locks, history
    <3>2. [doomed |-> doomed, left |-> doomed, now |-> None] \in
            [doomed: SUBSET Blobs, left: SUBSET Blobs, now: Blobs \cup {None}]
      BY <1>1 DEF BlobInv, TypeOK
    <3>q. QED
      BY <1>1, <3>1, <3>2 DEF BlobInv, TypeOK, Steps, JobsFit, Writing, Uploaded, Referenced
  <2>q. QED  BY <2>1, <2>2
<1>14. CASE ErasePrimary(c)
  BY <1>1, <1>14 DEF ErasePrimary, BlobInv, TypeOK, Steps, JobsFit, Writing,
       Uploaded, Referenced, tables, locks, history
<1>15. CASE EraseSecondary(c)
  BY <1>1, <1>15 DEF EraseSecondary, BlobInv, TypeOK, Steps, JobsFit, Writing,
       Uploaded, Referenced, tables, locks, history
<1>16. CASE ForgetRows(c)
  <2>1. Referenced \cap tx[c].doomed = {}
    BY <1>1, <1>16 DEF BlobInv, Sweeps, ForgetRows
  <2>q. QED
    BY <1>1, <1>16, <2>1 DEF ForgetRows, Finish, Release, Go, BlobInv, TypeOK, Steps, JobsFit,
       Writing, Uploaded, Referenced, bytes, history
<1>17. CASE Abort(c)
  BY <1>1, <1>17 DEF Abort, LeaveBehind, Finish, Release, Go, BlobInv, TypeOK, Steps,
       JobsFit, Writing, Uploaded, Sweeping, Referenced, tables, bytes
<1>18. CASE AbortDuringCall(c)
  BY <1>1, <1>18 DEF AbortDuringCall, CallOf, LeaveBehind, Finish, Release, Go,
       BlobInv, TypeOK, Steps, JobsFit, Writing, Uploaded, Sweeping, Referenced, tables, bytes
<1>q. QED  BY <1>2, <1>3, <1>4, <1>5, <1>6, <1>7, <1>8, <1>9, <1>10, <1>11, <1>12, <1>13, <1>14, <1>15, <1>16, <1>17, <1>18 DEF ClientStep, Step

\* A writer keeps its shared lock, a sweep its exclusive one.
LEMMA LockStep ==
  ASSUME BlobInv, NEW c \in Clients, ClientStep(c)
  PROVE  Locking'
<1> USE NoJobType, BlobAssumption
<1>1. BlobInv
  OBVIOUS
<1>2. CASE RequestPut(c)
  BY <1>1, <1>2 DEF RequestPut, Admit, Go, BlobInv, TypeOK, Steps, Locking, Writing,
       Uploaded, tables, bytes, locks, history
<1>3. CASE RequestDelete(c)
  BY <1>1, <1>3 DEF RequestDelete, Admit, Go, BlobInv, TypeOK, Steps, Locking,
       Writing, Uploaded, tables, bytes, locks, history
<1>4. CASE RequestPurge(c)
  BY <1>1, <1>4 DEF RequestPurge, Admit, Go, BlobInv, TypeOK, Steps, Locking,
       Writing, Uploaded, tables, bytes, locks, history
<1>5. CASE LockShared(c)
  BY <1>1, <1>5 DEF LockShared, Go, BlobInv, TypeOK, Steps, Locking, Writing,
       Uploaded, tables, bytes, history
<1>6. CASE Upload(c)
  BY <1>1, <1>6 DEF Upload, Go, BlobInv, TypeOK, Steps, Locking, Writing, Uploaded,
       tables, locks, history
<1>7. CASE InsertRow(c)
  BY <1>1, <1>7 DEF InsertRow, Go, BlobInv, TypeOK, Steps, Locking, Writing,
       Uploaded, tables, bytes, locks, history
<1>8. CASE UpsertFile(c)
  BY <1>1, <1>8 DEF UpsertFile, Go, BlobInv, TypeOK, Steps, Locking, Writing,
       Uploaded, tables, bytes, history
<1>9. CASE CommitPut(c)
  BY <1>1, <1>9 DEF CommitPut, Finish, Release, Go, BlobInv, TypeOK, Steps, Locking,
       Writing, Uploaded, bytes
<1>10. CASE RemoveRows(c)
  BY <1>1, <1>10 DEF RemoveRows, Finish, Release, Go, Present, BlobInv, TypeOK,
       Steps, Locking, Writing, Uploaded, tables, bytes, history
<1>11. CASE CommitRemove(c)
  BY <1>1, <1>11 DEF CommitRemove, Release, Go, BlobInv, TypeOK, Steps, Locking,
       Writing, Uploaded, bytes, history
<1>12. CASE LockExclusive(c)
  BY <1>1, <1>12 DEF LockExclusive, Go, BlobInv, TypeOK, Steps, Locking, Writing,
       Uploaded, tables, bytes, history
<1>13. CASE Select(c)
  BY <1>1, <1>13 DEF Select, Finish, Release, Go, BlobInv, TypeOK, Steps, Locking,
       Writing, Uploaded, tables, bytes, locks, history
<1>14. CASE ErasePrimary(c)
  BY <1>1, <1>14 DEF ErasePrimary, BlobInv, TypeOK, Steps, Locking, Writing,
       Uploaded, tables, locks, history
<1>15. CASE EraseSecondary(c)
  BY <1>1, <1>15 DEF EraseSecondary, BlobInv, TypeOK, Steps, Locking, Writing,
       Uploaded, tables, locks, history
<1>16. CASE ForgetRows(c)
  BY <1>1, <1>16 DEF ForgetRows, Finish, Release, Go, BlobInv, TypeOK, Steps,
       Locking, Writing, Uploaded, bytes, history
<1>17. CASE Abort(c)
  BY <1>1, <1>17 DEF Abort, LeaveBehind, Finish, Release, Go, BlobInv, TypeOK, Steps,
       Locking, Writing, Uploaded, tables, bytes
<1>18. CASE AbortDuringCall(c)
  BY <1>1, <1>18 DEF AbortDuringCall, CallOf, LeaveBehind, Finish, Release, Go,
       BlobInv, TypeOK, Steps, Locking, Writing, Uploaded, tables, bytes
<1>q. QED  BY <1>2, <1>3, <1>4, <1>5, <1>6, <1>7, <1>8, <1>9, <1>10, <1>11, <1>12, <1>13, <1>14, <1>15, <1>16, <1>17, <1>18 DEF ClientStep, Step

-----------------------------------------------------------------------------
(* Bytes.                                                                   *)

\* Nobody names what a sweep is about to forget.
LEMMA SweepStep ==
  ASSUME BlobInv, NEW c \in Clients, ClientStep(c)
  PROVE  Sweeps'
<1> USE NoJobType, BlobAssumption
<1>1. BlobInv
  OBVIOUS
<1>2. CASE RequestPut(c)
  BY <1>1, <1>2 DEF RequestPut, Admit, Go, BlobInv, TypeOK, Steps, Locking, Sweeps,
       Writing, Uploaded, Referenced, Held, tables, bytes, locks, history
<1>3. CASE RequestDelete(c)
  BY <1>1, <1>3 DEF RequestDelete, Admit, Go, BlobInv, TypeOK, Steps, Locking,
       Sweeps, Writing, Uploaded, Referenced, Held, tables, bytes, locks, history
<1>4. CASE RequestPurge(c)
  BY <1>1, <1>4 DEF RequestPurge, Admit, Go, BlobInv, TypeOK, Steps, Locking, Sweeps,
       Writing, Uploaded, Referenced, Held, tables, bytes, locks, history
<1>5. CASE LockShared(c)
  BY <1>1, <1>5 DEF LockShared, Go, BlobInv, TypeOK, Steps, Locking, Sweeps, Writing,
       Uploaded, Referenced, Held, tables, bytes, history
<1>6. CASE Upload(c)
  BY <1>1, <1>6 DEF Upload, Go, BlobInv, TypeOK, Steps, Locking, Sweeps, Writing,
       Uploaded, Referenced, Held, tables, locks, history
<1>7. CASE InsertRow(c)
  BY <1>1, <1>7 DEF InsertRow, Go, BlobInv, TypeOK, Steps, Locking, Sweeps, Writing,
       Uploaded, Referenced, Held, tables, bytes, locks, history
<1>8. CASE UpsertFile(c)
  BY <1>1, <1>8 DEF UpsertFile, Go, BlobInv, TypeOK, Steps, Locking, Sweeps, Writing,
       Uploaded, Referenced, Held, tables, bytes, history
<1>9. CASE CommitPut(c)
  BY <1>1, <1>9 DEF CommitPut, Finish, Release, Go, BlobInv, TypeOK, Steps, Locking,
       Sweeps, Writing, Uploaded, Referenced, Held, bytes
<1>10. CASE RemoveRows(c)
  BY <1>1, <1>10 DEF RemoveRows, Finish, Release, Go, Present, BlobInv, TypeOK,
       Steps, Locking, Sweeps, Writing, Uploaded, Referenced, Held, tables, bytes, history
<1>11. CASE CommitRemove(c)
  BY <1>1, <1>11 DEF CommitRemove, Release, Go, BlobInv, TypeOK, Steps, Locking,
       Sweeps, Writing, Uploaded, Referenced, Held, bytes, history
<1>12. CASE LockExclusive(c)
  BY <1>1, <1>12 DEF LockExclusive, Go, BlobInv, TypeOK, Steps, Locking, Sweeps,
       Writing, Uploaded, Referenced, Held, tables, bytes, history
<1>13. CASE Select(c)
  BY <1>1, <1>13 DEF Select, Finish, Release, Go, BlobInv, TypeOK, Steps, Locking,
       Sweeps, Writing, Uploaded, Referenced, Held, tables, bytes, locks, history
<1>14. CASE ErasePrimary(c)
  BY <1>1, <1>14 DEF ErasePrimary, BlobInv, TypeOK, Steps, Locking, Sweeps, Writing,
       Uploaded, Referenced, Held, tables, locks, history
<1>15. CASE EraseSecondary(c)
  BY <1>1, <1>15 DEF EraseSecondary, BlobInv, TypeOK, Steps, Locking, Sweeps,
       Writing, Uploaded, Referenced, Held, tables, locks, history
<1>16. CASE ForgetRows(c)
  BY <1>1, <1>16 DEF ForgetRows, Finish, Release, Go, BlobInv, TypeOK, Steps,
       Locking, Sweeps, Writing, Uploaded, Referenced, Held, bytes, history
<1>17. CASE Abort(c)
  BY <1>1, <1>17 DEF Abort, LeaveBehind, Finish, Release, Go, BlobInv, TypeOK, Steps,
       Locking, Sweeps, Writing, Uploaded, Referenced, Held, tables, bytes
<1>18. CASE AbortDuringCall(c)
  BY <1>1, <1>18 DEF AbortDuringCall, CallOf, LeaveBehind, Finish, Release, Go,
       BlobInv, TypeOK, Steps, Locking, Sweeps, Writing, Uploaded, Referenced, Held, tables, bytes
<1>q. QED  BY <1>2, <1>3, <1>4, <1>5, <1>6, <1>7, <1>8, <1>9, <1>10, <1>11, <1>12, <1>13, <1>14, <1>15, <1>16, <1>17, <1>18 DEF ClientStep, Step

\* Nobody erases what a file or a writer names.
LEMMA ReadStep ==
  ASSUME BlobInv, NEW c \in Clients, ClientStep(c)
  PROVE  UploadsStay' /\ NoDanglingFile'
<1> USE NoJobType, BlobAssumption
<1>1. BlobInv
  OBVIOUS
<1>2. CASE RequestPut(c)
  BY <1>1, <1>2 DEF RequestPut, Admit, Go, BlobInv, TypeOK, Steps, JobsFit, Locking,
       Sweeps, UploadsStay, NoDanglingFile, Writing, Uploaded, Referenced, Held, tables, bytes, locks, history
<1>3. CASE RequestDelete(c)
  BY <1>1, <1>3 DEF RequestDelete, Admit, Go, BlobInv, TypeOK, Steps, JobsFit,
       Locking, Sweeps, UploadsStay, NoDanglingFile, Writing, Uploaded, Referenced, Held, tables, bytes, locks, history
<1>4. CASE RequestPurge(c)
  BY <1>1, <1>4 DEF RequestPurge, Admit, Go, BlobInv, TypeOK, Steps, JobsFit,
       Locking, Sweeps, UploadsStay, NoDanglingFile, Writing, Uploaded, Referenced, Held, tables, bytes, locks, history
<1>5. CASE LockShared(c)
  BY <1>1, <1>5 DEF LockShared, Go, BlobInv, TypeOK, Steps, JobsFit, Locking, Sweeps,
       UploadsStay, NoDanglingFile, Writing, Uploaded, Referenced, Held, tables, bytes, history
<1>6. CASE Upload(c)
  BY <1>1, <1>6 DEF Upload, Go, BlobInv, TypeOK, Steps, JobsFit, Locking, Sweeps,
       UploadsStay, NoDanglingFile, Writing, Uploaded, Referenced, Held, tables, locks, history
<1>7. CASE InsertRow(c)
  BY <1>1, <1>7 DEF InsertRow, Go, BlobInv, TypeOK, Steps, JobsFit, Locking, Sweeps,
       UploadsStay, NoDanglingFile, Writing, Uploaded, Referenced, Held, tables, bytes, locks, history
<1>8. CASE UpsertFile(c)
  BY <1>1, <1>8 DEF UpsertFile, Go, BlobInv, TypeOK, Steps, JobsFit, Locking, Sweeps,
       UploadsStay, NoDanglingFile, Writing, Uploaded, Referenced, Held, tables, bytes, history
<1>9. CASE CommitPut(c)
  BY <1>1, <1>9 DEF CommitPut, Finish, Release, Go, BlobInv, TypeOK, Steps, JobsFit,
       Locking, Sweeps, UploadsStay, NoDanglingFile, Writing, Uploaded, Referenced, Held, bytes
<1>10. CASE RemoveRows(c)
  BY <1>1, <1>10 DEF RemoveRows, Finish, Release, Go, Present, BlobInv, TypeOK,
       Steps, JobsFit, Locking, Sweeps, UploadsStay, NoDanglingFile, Writing, Uploaded, Referenced, Held, tables, bytes, history
<1>11. CASE CommitRemove(c)
  BY <1>1, <1>11 DEF CommitRemove, Release, Go, BlobInv, TypeOK, Steps, JobsFit,
       Locking, Sweeps, UploadsStay, NoDanglingFile, Writing, Uploaded, Referenced, Held, bytes, history
<1>12. CASE LockExclusive(c)
  BY <1>1, <1>12 DEF LockExclusive, Go, BlobInv, TypeOK, Steps, JobsFit, Locking,
       Sweeps, UploadsStay, NoDanglingFile, Writing, Uploaded, Referenced, Held, tables, bytes, history
<1>13. CASE Select(c)
  BY <1>1, <1>13 DEF Select, Finish, Release, Go, BlobInv, TypeOK, Steps, JobsFit,
       Locking, Sweeps, UploadsStay, NoDanglingFile, Writing, Uploaded, Referenced, Held, tables, bytes, locks, history
<1>14. CASE ErasePrimary(c)
  BY <1>1, <1>14 DEF ErasePrimary, BlobInv, TypeOK, Steps, JobsFit, Locking, Sweeps,
       UploadsStay, NoDanglingFile, Writing, Uploaded, Referenced, Held, tables, locks, history
<1>15. CASE EraseSecondary(c)
  BY <1>1, <1>15 DEF EraseSecondary, BlobInv, TypeOK, Steps, JobsFit, Locking,
       Sweeps, UploadsStay, NoDanglingFile, Writing, Uploaded, Referenced, Held, tables, locks, history
<1>16. CASE ForgetRows(c)
  BY <1>1, <1>16 DEF ForgetRows, Finish, Release, Go, BlobInv, TypeOK, Steps,
       JobsFit, Locking, Sweeps, UploadsStay, NoDanglingFile, Writing, Uploaded, Referenced, Held, bytes, history
<1>17. CASE Abort(c)
  BY <1>1, <1>17 DEF Abort, LeaveBehind, Finish, Release, Go, BlobInv, TypeOK, Steps,
       JobsFit, Locking, Sweeps, UploadsStay, NoDanglingFile, Writing, Uploaded, Referenced, Held, tables, bytes
<1>18. CASE AbortDuringCall(c)
  BY <1>1, <1>18 DEF AbortDuringCall, CallOf, LeaveBehind, Finish, Release, Go,
       BlobInv, TypeOK, Steps, JobsFit, Locking, Sweeps, UploadsStay, NoDanglingFile, Writing, Uploaded, Referenced, Held, tables, bytes
<1>q. QED  BY <1>2, <1>3, <1>4, <1>5, <1>6, <1>7, <1>8, <1>9, <1>10, <1>11, <1>12, <1>13, <1>14, <1>15, <1>16, <1>17, <1>18 DEF ClientStep, Step

\* Bytes keep a name.
LEMMA NameStep ==
  ASSUME BlobInv, NEW c \in Clients, ClientStep(c)
  PROVE  BytesAreNamed'
<1> USE NoJobType, BlobAssumption
<1>1. BlobInv
  OBVIOUS
<1>2. CASE RequestPut(c)
  BY <1>1, <1>2 DEF RequestPut, Admit, Go, BlobInv, TypeOK, Steps, Locking, Sweeps,
       BytesAreNamed, Writing, Uploaded, Referenced, Held, tables, bytes, locks, history
<1>3. CASE RequestDelete(c)
  BY <1>1, <1>3 DEF RequestDelete, Admit, Go, BlobInv, TypeOK, Steps, Locking,
       Sweeps, BytesAreNamed, Writing, Uploaded, Referenced, Held, tables, bytes, locks, history
<1>4. CASE RequestPurge(c)
  BY <1>1, <1>4 DEF RequestPurge, Admit, Go, BlobInv, TypeOK, Steps, Locking, Sweeps,
       BytesAreNamed, Writing, Uploaded, Referenced, Held, tables, bytes, locks, history
<1>5. CASE LockShared(c)
  BY <1>1, <1>5 DEF LockShared, Go, BlobInv, TypeOK, Steps, Locking, Sweeps,
       BytesAreNamed, Writing, Uploaded, Referenced, Held, tables, bytes, history
<1>6. CASE Upload(c)
  BY <1>1, <1>6 DEF Upload, Go, BlobInv, TypeOK, Steps, Locking, Sweeps,
       BytesAreNamed, Writing, Uploaded, Referenced, Held, tables, locks, history
<1>7. CASE InsertRow(c)
  BY <1>1, <1>7 DEF InsertRow, Go, BlobInv, TypeOK, Steps, Locking, Sweeps,
       BytesAreNamed, Writing, Uploaded, Referenced, Held, tables, bytes, locks, history
<1>8. CASE UpsertFile(c)
  BY <1>1, <1>8 DEF UpsertFile, Go, BlobInv, TypeOK, Steps, Locking, Sweeps,
       BytesAreNamed, Writing, Uploaded, Referenced, Held, tables, bytes, history
<1>9. CASE CommitPut(c)
  BY <1>1, <1>9 DEF CommitPut, Finish, Release, Go, BlobInv, TypeOK, Steps, Locking,
       Sweeps, BytesAreNamed, Writing, Uploaded, Referenced, Held, bytes
<1>10. CASE RemoveRows(c)
  BY <1>1, <1>10 DEF RemoveRows, Finish, Release, Go, Present, BlobInv, TypeOK,
       Steps, Locking, Sweeps, BytesAreNamed, Writing, Uploaded, Referenced, Held, tables, bytes, history
<1>11. CASE CommitRemove(c)
  BY <1>1, <1>11 DEF CommitRemove, Release, Go, BlobInv, TypeOK, Steps, Locking,
       Sweeps, BytesAreNamed, Writing, Uploaded, Referenced, Held, bytes, history
<1>12. CASE LockExclusive(c)
  BY <1>1, <1>12 DEF LockExclusive, Go, BlobInv, TypeOK, Steps, Locking, Sweeps,
       BytesAreNamed, Writing, Uploaded, Referenced, Held, tables, bytes, history
<1>13. CASE Select(c)
  BY <1>1, <1>13 DEF Select, Finish, Release, Go, BlobInv, TypeOK, Steps, Locking,
       Sweeps, BytesAreNamed, Writing, Uploaded, Referenced, Held, tables, bytes, locks, history
<1>14. CASE ErasePrimary(c)
  BY <1>1, <1>14 DEF ErasePrimary, BlobInv, TypeOK, Steps, Locking, Sweeps,
       BytesAreNamed, Writing, Uploaded, Referenced, Held, tables, locks, history
<1>15. CASE EraseSecondary(c)
  BY <1>1, <1>15 DEF EraseSecondary, BlobInv, TypeOK, Steps, Locking, Sweeps,
       BytesAreNamed, Writing, Uploaded, Referenced, Held, tables, locks, history
<1>16. CASE ForgetRows(c)
  BY <1>1, <1>16 DEF ForgetRows, Finish, Release, Go, BlobInv, TypeOK, Steps,
       Locking, Sweeps, BytesAreNamed, Writing, Uploaded, Referenced, Held, bytes, history
<1>17. CASE Abort(c)
  BY <1>1, <1>17 DEF Abort, LeaveBehind, Finish, Release, Go, BlobInv, TypeOK, Steps,
       Locking, Sweeps, BytesAreNamed, Writing, Uploaded, Referenced, Held, tables, bytes
<1>18. CASE AbortDuringCall(c)
  BY <1>1, <1>18 DEF AbortDuringCall, CallOf, LeaveBehind, Finish, Release, Go,
       BlobInv, TypeOK, Steps, Locking, Sweeps, BytesAreNamed, Writing, Uploaded, Referenced, Held, tables, bytes
<1>q. QED  BY <1>2, <1>3, <1>4, <1>5, <1>6, <1>7, <1>8, <1>9, <1>10, <1>11, <1>12, <1>13, <1>14, <1>15, <1>16, <1>17, <1>18 DEF ClientStep, Step

\* The store carries out a late upload: more bytes, and a stray.
LEMMA LandStep ==
  ASSUME BlobInv, Land
  PROVE  BlobInv'
<1> PICK call \in late :
      /\ primary' = IF call.op = "put" THEN primary \cup {call.blob} ELSE primary \ {call.blob}
      /\ strays' = IF call.op = "put" THEN strays \cup {call.blob} ELSE strays
      /\ late' = late \ {call}
  BY DEF Land
<1>1. /\ call.op = "put" /\ call.blob \in Blobs
      /\ primary' = primary \cup {call.blob} /\ strays' = strays \cup {call.blob}
      /\ UNCHANGED <<files, rows, secondary, shared, exclusive, pathLock, pc, job, tx,
                     budget, orphans>>
  BY DEF BlobInv, LatePuts, TypeOK, Land, tables, locks
<1>2. TypeOK' /\ JobsFit' /\ Locking' /\ LatePuts'
  BY <1>1 DEF BlobInv, TypeOK, Steps, Referenced, JobsFit, Locking, LatePuts
<1>3. Sweeps' /\ UploadsStay' /\ NoDanglingFile' /\ BytesAreNamed'
  BY <1>1 DEF BlobInv, Sweeps, UploadsStay, NoDanglingFile, BytesAreNamed, Referenced, Held
<1>q. QED  BY <1>2, <1>3 DEF BlobInv

\* What nobody names and nobody will reclaim was left by an overwrite or by a
\* sweep that failed: everything else has a sweep still to come.
Reclaims == \A b \in rows \ Referenced :
  \/ b \in orphans
  \/ \E c \in Clients :
       \/ pc[c] \in {"sweep", "select"}
       \/ pc[c] = "erase" /\ b \in tx[c].doomed

\* A removal that commits goes on to a sweep, and a sweep that does not end is
\* remembered by what it leaves.
LEMMA ReclaimStep ==
  ASSUME BlobInv, Reclaims, NEW c \in Clients, ClientStep(c)
  PROVE  Reclaims'
<1> USE BlobAssumption DEF Reclaims
<1>0. /\ pc \in [Clients -> Steps] /\ orphans \subseteq Blobs /\ rows \subseteq Blobs
      /\ files \in [Paths -> Blobs \cup {None}]
      /\ tx \in [Clients -> [doomed: SUBSET Blobs, left: SUBSET Blobs, now: Blobs \cup {None}]]
  BY DEF BlobInv, TypeOK
<1>1. CASE RequestPut(c) \/ RequestDelete(c) \/ RequestPurge(c)
  BY <1>0, <1>1 DEF RequestPut, RequestDelete, RequestPurge, Admit, Go, Referenced, tables, history
<1>2. CASE LockShared(c) \/ Upload(c) \/ InsertRow(c) \/ UpsertFile(c)
  BY <1>0, <1>2 DEF LockShared, Upload, InsertRow, UpsertFile, Go, Referenced, tables, history
<1>3. CASE CommitPut(c)
  <2>1. /\ rows' \ Referenced' \subseteq (rows \ Referenced) \cup orphans'
        /\ orphans \subseteq orphans'
    <3>1. PICK p \in Paths : job[c].paths = {p} /\ job[c].blob \in Blobs
      BY <1>3 DEF BlobInv, JobsFit, CommitPut, Writing, Uploaded
    <3>2. /\ files' = [files EXCEPT ![p] = job[c].blob]
          /\ rows' = rows \cup {job[c].blob}
          /\ orphans' = orphans \cup ({files[q] : q \in {p}} \ {None})
      BY <1>0, <1>3, <3>1 DEF CommitPut
    <3>3. ASSUME NEW b \in rows' \ Referenced' PROVE b \in (rows \ Referenced) \cup orphans'
      <4>1. files'[p] = job[c].blob /\ files'[p] # None
        BY <1>0, <3>1, <3>2, BlobAssumption
      <4>2. b # job[c].blob /\ b \in rows /\ b \in Blobs
        BY <1>0, <3>2, <3>3, <4>1 DEF Referenced
      <4>3. CASE b \in Referenced
        <5>1. PICK q \in Paths : b = files[q]
          BY <4>3 DEF Referenced
        <5>2. q = p
          BY <1>0, <3>2, <3>3, <4>2, <5>1, BlobAssumption DEF Referenced
        <5>q. QED  BY <3>2, <4>2, <5>1, <5>2, BlobAssumption
      <4>q. QED  BY <4>2, <4>3
    <3>q. QED  BY <3>2, <3>3
  <2>2. \A d \in Clients : pc[d] \in Sweeping => pc'[d] = pc[d] /\ tx'[d] = tx[d]
    BY <1>0, <1>3 DEF CommitPut, Finish, Go, Sweeping
  <2>q. QED  BY <2>1, <2>2 DEF Sweeping
<1>4. CASE RemoveRows(c)
  BY <1>0, <1>4 DEF RemoveRows, Finish, Go, Referenced, tables, history
<1>5. CASE CommitRemove(c)
  <2>1. pc'[c] = "sweep"
    BY <1>0, <1>5 DEF CommitRemove, Go
  <2>q. QED  BY <2>1
<1>6. CASE LockExclusive(c)
  BY <1>0, <1>6 DEF LockExclusive, Go, Referenced, tables, history
<1>7. CASE Select(c)
  BY <1>0, <1>7 DEF Select, Finish, Go, Referenced, tables, history
<1>8. CASE ErasePrimary(c) \/ EraseSecondary(c)
  BY <1>0, <1>8 DEF ErasePrimary, EraseSecondary, Referenced, tables, history
<1>9. CASE ForgetRows(c)
  BY <1>0, <1>9 DEF ForgetRows, Finish, Go, Referenced, history
<1>10. CASE Abort(c) \/ AbortDuringCall(c)
  <2>1. /\ LeaveBehind(c) /\ Finish(c) /\ UNCHANGED <<rows, files>>
    BY <1>10 DEF Abort, AbortDuringCall, tables
  <2>2. Referenced' = Referenced
    BY <2>1 DEF Referenced
  <2>3. CASE pc[c] \in Sweeping
    BY <2>1, <2>2, <2>3 DEF LeaveBehind
  <2>4. CASE pc[c] \notin Sweeping
    BY <1>0, <2>1, <2>2, <2>4 DEF LeaveBehind, Finish, Go, Sweeping
  <2>q. QED  BY <2>3, <2>4
<1>q. QED
  BY <1>1, <1>2, <1>3, <1>4, <1>5, <1>6, <1>7, <1>8, <1>9, <1>10 DEF ClientStep, Step

\* Where no deletion can land late, no step queues one.
LEMMA LateStep ==
  ASSUME BlobInv, "delete" \notin LateCalls, NEW c \in Clients, ClientStep(c)
  PROVE  LatePuts'
<1>1. CASE AbortDuringCall(c)
  <2>1. PICK call \in CallOf(c) : call.op \in LateCalls /\ late' = late \cup {call}
    BY <1>1 DEF AbortDuringCall
  <2>2. call.op = "put"
    BY <2>1, BlobAssumption
  <2>q. QED  BY <2>1, <2>2 DEF BlobInv, LatePuts
<1>2. CASE ~ AbortDuringCall(c)
  <2>1. UNCHANGED late
    BY <1>2 DEF ClientStep, Step, RequestPut, RequestDelete, RequestPurge, Admit, LockShared,
       Upload, InsertRow, UpsertFile, CommitPut, RemoveRows, CommitRemove, LockExclusive,
       Select, ErasePrimary, EraseSecondary, ForgetRows, Abort
  <2>q. QED  BY <2>1 DEF BlobInv, LatePuts
<1>q. QED  BY <1>1, <1>2

\* The strengthened invariant holds of every behaviour in which no deletion of
\* bytes outlives the sweep that asked for it.
LEMMA BlobInvariant ==
  ASSUME "delete" \notin LateCalls
  PROVE  Spec => []BlobInv
<1>1. Init => BlobInv
  <2>1. SUFFICES ASSUME Init PROVE BlobInv
    OBVIOUS
  <2>2. TypeOK
    BY <2>1, NoJobType, BlobAssumption DEF Init, TypeOK, Steps, Referenced
  <2>3. JobsFit /\ Locking /\ Sweeps /\ UploadsStay /\ LatePuts
    BY <2>1 DEF Init, JobsFit, Writing, Uploaded, Locking, Sweeps, UploadsStay, LatePuts
  <2>4. NoDanglingFile /\ BytesAreNamed
    BY <2>1 DEF Init, NoDanglingFile, BytesAreNamed, Held
  <2>q. QED  BY <2>2, <2>3, <2>4 DEF BlobInv
<1>2. BlobInv /\ [Next]_vars => BlobInv'
  <2>1. SUFFICES ASSUME BlobInv, [Next]_vars PROVE BlobInv'
    OBVIOUS
  <2>2. ASSUME NEW c \in Clients, ClientStep(c) PROVE BlobInv'
    BY <2>1, <2>2, TypeStep, LockStep, SweepStep, ReadStep, NameStep, LateStep DEF BlobInv
  <2>3. CASE Land
    BY <2>1, <2>3, LandStep
  <2>4. CASE UNCHANGED vars
    BY <2>1, <2>4 DEF BlobInv, TypeOK, JobsFit, Locking, Sweeps, UploadsStay, LatePuts,
       NoDanglingFile, BytesAreNamed, Referenced, Held, vars, tables, bytes, locks, history
  <2>q. QED  BY <2>1, <2>2, <2>3, <2>4 DEF Next, ClientStep
<1>q. QED  BY <1>1, <1>2, PTL DEF Spec

-----------------------------------------------------------------------------
(* What the files promise.                                                  *)

\* Every variable keeps its type, and every file row a blob row to name.
THEOREM TypeCorrect ==
  ASSUME "delete" \notin LateCalls
  PROVE  Spec => []TypeOK
<1>1. BlobInv => TypeOK
  BY DEF BlobInv
<1>q. QED  BY <1>1, BlobInvariant, PTL

\* A file the bundle lists can be read, however puts, removals, sweeps and
\* failures interleave, as long as no deletion of bytes outlives its sweep.
THEOREM FilesReadable ==
  ASSUME "delete" \notin LateCalls
  PROVE  Spec => []NoDanglingFile
<1>1. BlobInv => NoDanglingFile
  BY DEF BlobInv
<1>q. QED  BY <1>1, BlobInvariant, PTL

\* Bytes are never forgotten before they are erased: what exists has a row, a
\* writer, or was left by an upload cut short.
THEOREM BytesNamed ==
  ASSUME "delete" \notin LateCalls
  PROVE  Spec => []BytesAreNamed
<1>1. BlobInv => BytesAreNamed
  BY DEF BlobInv
<1>q. QED  BY <1>1, BlobInvariant, PTL

\* A delete or a purge that ran to its end took the bytes with it: at rest, what
\* nobody names was left by an overwrite or by a sweep that failed.
THEOREM RemovedBytesGo ==
  ASSUME "delete" \notin LateCalls
  PROVE  Spec => []RemovalReachesBytes
<1>1. Init => Reclaims
  BY DEF Init, Reclaims
<1>2. BlobInv /\ Reclaims /\ [Next]_vars => Reclaims'
  <2>1. SUFFICES ASSUME BlobInv, Reclaims, [Next]_vars PROVE Reclaims'
    OBVIOUS
  <2>2. ASSUME NEW c \in Clients, ClientStep(c) PROVE Reclaims'
    BY <2>1, <2>2, ReclaimStep
  <2>3. CASE Land \/ UNCHANGED vars
    BY <2>1, <2>3 DEF Land, Reclaims, Referenced, vars, tables, history
  <2>q. QED  BY <2>1, <2>2, <2>3 DEF Next, ClientStep
<1>3. Reclaims => RemovalReachesBytes
  BY DEF Reclaims, RemovalReachesBytes
<1>q. QED  BY <1>1, <1>2, <1>3, BlobInvariant, PTL DEF Spec

\* A file's row changes only when a put or a removal commits.
LEMMA OnlyCommitsPublish ==
  ASSUME [Next]_vars, files' # files
  PROVE  \E c \in Clients : CommitPut(c) \/ CommitRemove(c)
BY DEF Next, Step, RequestPut, RequestDelete, RequestPurge, Admit, LockShared, Upload,
   InsertRow, UpsertFile, RemoveRows, LockExclusive, Select, ErasePrimary, EraseSecondary,
   ForgetRows, Abort, AbortDuringCall, Land, vars, tables

\* With its bytes always there, a path answers what its row names.
LEMMA AnswerIsFile ==
  ASSUME BlobInv
  PROVE  Answer = files
BY DEF BlobInv, NoDanglingFile, TypeOK, Referenced, Answer

\* The same after a step.
LEMMA AnswerIsFileNext ==
  ASSUME BlobInv'
  PROVE  Answer' = files'
BY DEF BlobInv, NoDanglingFile, TypeOK, Referenced, Held, Answer

\* Seen through its reads the store is FileStore: a put replaces one path's
\* bytes at once, a removal takes its paths at once, and no sweep, failure or
\* late upload ever shows.
THEOREM ImplementsFileStore ==
  ASSUME "delete" \notin LateCalls
  PROVE  Spec => Implements
<1>1. Init => Files!Init
  <2>1. SUFFICES ASSUME Init PROVE Answer \in [Paths -> Blobs \cup {None}]
    BY DEF Files!Init
  <2>2. \A b \in Referenced : Held(b)
    BY <2>1 DEF Init, Held
  <2>q. QED  BY <2>1, <2>2 DEF Init, Answer, Referenced
<1>2. BlobInv /\ BlobInv' /\ [Next]_vars => [Files!Next]_Answer
  <2>1. SUFFICES ASSUME BlobInv, BlobInv', [Next]_vars, files' # files
                 PROVE  Files!Next
    <3>1. ASSUME BlobInv, BlobInv', files' = files
          PROVE  Answer' = Answer
      BY <3>1, AnswerIsFile, AnswerIsFileNext
    <3>q. QED  BY <3>1
  <2>2. Answer = files /\ Answer' = files'
    BY <2>1, AnswerIsFile, AnswerIsFileNext
  <2>3. PICK c \in Clients : CommitPut(c) \/ CommitRemove(c)
    BY <2>1, OnlyCommitsPublish
  <2>4. CASE CommitPut(c)
    <3>1. PICK p \in Paths : job[c].paths = {p} /\ job[c].blob \in Blobs
      BY <2>1, <2>4 DEF BlobInv, JobsFit, Writing, Uploaded, CommitPut
    <3>2. files' = [files EXCEPT ![p] = job[c].blob]
      BY <2>1, <2>4, <3>1 DEF BlobInv, TypeOK, CommitPut
    <3>q. QED  BY <2>2, <3>1, <3>2 DEF Files!Next, Files!Put
  <2>5. CASE CommitRemove(c)
    <3>1. job[c].paths \in SUBSET Paths
      BY <2>1 DEF BlobInv, TypeOK
    <3>2. files' = [p \in Paths |-> IF p \in job[c].paths THEN None ELSE files[p]]
      BY <2>5 DEF CommitRemove
    <3>q. QED  BY <2>2, <3>1, <3>2 DEF Files!Next, Files!Remove
  <2>q. QED  BY <2>3, <2>4, <2>5
<1>q. QED  BY <1>1, <1>2, BlobInvariant, PTL DEF Spec, Implements, Files!Spec
=============================================================================
