-------------------------- MODULE TransferProofs --------------------------
(***************************************************************************)
(* Proofs about Transfer, for any bases, bundles, batches, workers and      *)
(* any number of imports and of other people's writes.                     *)
(*                                                                         *)
(* What becomes of a concept, a file or a listing of a bundle is settled    *)
(* when the import begins: by the bundle, by the base as it was found, and  *)
(* by what the caller may do (Verdict, FileVerdict, IndexRefusal).  Each    *)
(* task is sent once and answered by one call (Orderly); the invariants     *)
(* follow a concept (ConceptsGo), a file (FilesGo), the counters (Counted)  *)
(* and everything else (Elsewhere) from there to the end of the run, and    *)
(* an archive from its snapshot to its last byte (ArchiveInv).              *)
(***************************************************************************)
EXTENDS Transfer, FiniteSetTheorems, TLAPS

-----------------------------------------------------------------------------
(* The rows of a base.                                                      *)

\* Everything sits at an address, concepts have rows no younger than now, and
\* files the rows of files.
RowFits(p, row, now) ==
  /\ DOMAIN row = {"says", "links", "claim", "by", "at", "confirmed"}
  /\ IF IsMarkdown(p) THEN row.at \in 0 .. now ELSE row = FileRow(row.says)
PathFits(p) == Addressable(p) /\ (IsMarkdown(p) => p \in Seq(Seq(STRING)))
Fits(rows, now) ==
  /\ rows = [p \in DOMAIN rows |-> rows[p]] /\ IsFiniteSet(DOMAIN rows)
  /\ \A p \in DOMAIN rows : PathFits(p) /\ RowFits(p, rows[p], now)

\* The concepts of a bundle are at paths, as many as there are.
BundleFits(b) ==
  /\ IsFiniteSet(DOMAIN b)
  /\ \A p \in ConceptsOf(b) : p \in Seq(Seq(STRING))

RowsFit ==
  /\ clock \in Nat /\ Fits(held, clock)
  /\ \A p \in site.contested : IsAddress(p)
  /\ \A b \in site.bundles \cup {imp.bundle} : BundleFits(b)

-----------------------------------------------------------------------------
(* The invariant of an archive.                                             *)

Archiving == {"snapshot", "listed", "complete"}
Carried == ConceptsUnder(out.snap, out.prefix)

\* What is still to write is of the snapshot, a base as it once was.
Remaining ==
  out.phase \in Archiving =>
    /\ Fits(out.snap, clock)
    /\ out.left \subseteq Carried
    /\ out.phase = "snapshot" => out.left = Carried
    /\ \A p \in out.files : p \in DOMAIN out.snap /\ ~IsMarkdown(p)
    /\ out.phase = "complete" => out.left = {}

\* A listing names only directories that hold a concept of the snapshot.
ListingSays(listing) ==
  \A d \in DOMAIN listing.lines : \E q \in Carried : Under(q, d)

\* What is written is the snapshot's, and no concept was passed over.
Faithful ==
  out.phase \in {"listed", "complete"} =>
    /\ Carried \ out.left \subseteq DOMAIN out.archive
    /\ IsFiniteSet(DOMAIN out.archive)
    /\ \A p \in DOMAIN out.archive :
         IF IsIndex(p) \/ IsLog(p) THEN ListingSays(out.archive[p])
         ELSE /\ p \in DOMAIN out.snap
              /\ out.archive[p] = IF IsMarkdown(p) THEN Document(out.snap[p])
                                  ELSE FileDocument(out.snap[p])

OutFits == DOMAIN out = DOMAIN NoArchive

ArchiveInv == RowsFit /\ OutFits /\ Remaining /\ Faithful

-----------------------------------------------------------------------------
(* Listings.                                                                *)

\* A generated name is an index's or a log's.
LEMMA GeneratedNames ==
  ASSUME NEW S, NEW d \in Seq(S), NEW name \in Generated
  PROVE  LET p == Append(d, name) IN IsIndex(p) \/ IsLog(p)
<1>1. Len(Append(d, name)) = Len(d) + 1 /\ Append(d, name)[Len(d) + 1] = name
  OBVIOUS
<1> QED
  BY <1>1 DEF Generated, IsIndex, IsLog, Name, Last

\* A directory above a path is a prefix of it, and begins as it does.
LEMMA DirectoryAbove ==
  ASSUME NEW p \in Seq(Seq(STRING)), NEW n \in 1 .. Len(p) - 1
  PROVE  LET d == SubSeq(p, 1, n) IN d \in Seq(Seq(STRING)) /\ Under(p, d) /\ Len(d) = n
<1>1. Len(SubSeq(p, 1, n)) = n /\ \A i \in 1 .. n : SubSeq(p, 1, n)[i] = p[i]
  OBVIOUS
<1>2. SubSeq(p, 1, n) \in Seq(Seq(STRING))
  OBVIOUS
<1> QED
  BY <1>1, <1>2 DEF Under

\* A directory of a bundle is a path, and has something under it unless it is the root.
LEMMA DirectoriesAre ==
  ASSUME NEW paths, \A p \in paths : p \in Seq(Seq(STRING)),
         NEW d \in Directories(paths)
  PROVE  /\ d \in Seq(Seq(STRING))
         /\ Len(d) = 0 \/ \E p \in paths : Under(p, d)
<1>1. CASE d = Root
  BY <1>1 DEF Root
<1>2. CASE \E p \in paths : \E n \in 1 .. Len(p) - 1 : d = SubSeq(p, 1, n)
  BY <1>2, DirectoryAbove
<1> QED
  BY <1>1, <1>2 DEF Directories

\* The generated files are indexes and logs, and a line is of a directory that holds
\* something.
LEMMA ListingsSay ==
  ASSUME NEW paths, \A p \in paths : p \in Seq(Seq(STRING)),
         NEW p \in DOMAIN Listings(paths)
  PROVE  /\ IsIndex(p) \/ IsLog(p)
         /\ \A d \in DOMAIN Listings(paths)[p].lines : \E q \in paths : Under(q, d)
<1>1. PICK e \in Directories(paths), name \in Generated : p = Append(e, name)
  BY DEF Listings
<1>2. e \in Seq(Seq(STRING))
  BY DirectoriesAre
<1>3. IsIndex(p) \/ IsLog(p)
  BY <1>1, <1>2, GeneratedNames
<1>4. Front(p) \in Seq(Seq(STRING))
  <2>1. Len(p) = Len(e) + 1 /\ \A i \in 1 .. Len(e) : p[i] = e[i]
    BY <1>1, <1>2
  <2>2. Front(p) = e
    BY <2>1, <1>1, <1>2 DEF Front
  <2> QED  BY <2>2, <1>2
<1>5. ASSUME NEW d \in DOMAIN Listings(paths)[p].lines
      PROVE  \E q \in paths : Under(q, d)
  <2>1. CASE IsIndex(p)
    <3>1. Listings(paths)[p] = Index(paths, Front(p))
      BY <2>1 DEF Listings
    <3>2. d \in Within(paths, Front(p))
      BY <3>1, <1>5 DEF Index
    <3>3. d \in Directories(paths) /\ Len(d) = Len(Front(p)) + 1
      BY <3>2 DEF Within
    <3>4. Len(Front(p)) \in Nat
      BY <1>4
    <3> QED
      BY <3>3, <3>4, DirectoriesAre
  <2>2. CASE ~IsIndex(p)
    <3>1. Listings(paths)[p] = Log
      BY <2>2 DEF Listings
    <3>2. DOMAIN Log.lines = {}
      BY DEF Log
    <3> QED  BY <3>1, <3>2, <1>5
  <2> QED  BY <2>1, <2>2
<1> QED  BY <1>3, <1>5
-----------------------------------------------------------------------------
(* The tasks of an import and its calls.                                     *)

Phases == {"none", "concepts", "attributed", "loose", "indexes", "done", "refused", "aborted"}
Current(phase, b) == IF phase = "concepts" THEN Concepts(b) ELSE TasksOf(phase, b)
FileOps == {"attributed", "loose"}

\* Each task is sent once, in its phase, and answered by one call.  What was
\* sent and is lost, or refused for good, fails the run.
Orderly ==
  /\ DOMAIN imp = DOMAIN NoImport /\ DOMAIN imp.tally = DOMAIN NoTally /\ imp.phase \in Phases
  /\ imp.left \subseteq Current(imp.phase, imp.bundle)
  /\ \A c \in calls :
       /\ DOMAIN c = {"task", "step", "k", "claim"}
       /\ c.task \in Current(imp.phase, imp.bundle) \ imp.left
       /\ c.step \in {"sent"} \cup Verdicts \/ c.task.op = "concept"
  /\ \A c, d \in calls : c.task = d.task => c = d
  /\ imp.phase = "done" => ~imp.failed
  /\ imp.phase = "aborted" => imp.failed
  /\ imp.lost => imp.failed

\* The requests of a phase are of that phase's kind.
LEMMA TasksAre ==
  ASSUME NEW b, NEW phase, NEW t \in Current(phase, b)
  PROVE  /\ t.op = "concept" => phase = "concepts" /\ t.path \in ConceptsOf(b)
                                /\ t = [op |-> "concept", path |-> t.path, of |-> t.path]
         /\ t.op \in {"concept", "index"} \cup FileOps
         /\ t.op = "index" => phase = "indexes" /\ t.path \in IndexesOf(b)
         /\ t.op \in FileOps => phase = t.op
<1>1. CASE phase = "concepts"
  BY <1>1 DEF Current, Concepts, FileOps
<1>2. CASE phase = "attributed"
  <2>1. t \in Attributions(b)
    BY <1>2 DEF Current, TasksOf
  <2>2. \E c \in ConceptsOf(b) : \E p : t = [op |-> "attributed", path |-> p, of |-> c]
    BY <2>1 DEF Attributions
  <2> QED  BY <2>2, <1>2 DEF FileOps
<1>3. CASE phase = "loose"
  BY <1>3 DEF Current, TasksOf, Loose, FileOps
<1>4. CASE phase = "indexes"
  BY <1>4 DEF Current, TasksOf, Indexes, FileOps
<1>5. CASE phase \notin {"concepts", "attributed", "loose", "indexes"}
  BY <1>5 DEF Current, TasksOf
<1> QED  BY <1>1, <1>2, <1>3, <1>4, <1>5

\* What the server does with a call, and what it leaves alone.
Serves(c) == Look(c) \/ Write(c) \/ Create(c) \/ Plan(c) \/ PutFile(c) \/ Describe(c)

GoesOnAs(c, d) ==
  /\ calls' = (calls \ {c}) \cup {d}
  /\ DOMAIN d = {"task", "step", "k", "claim"} /\ d.task = c.task
  /\ d.step \in Verdicts \/ c.task.op = "concept"
GoesOn(c) == (\E d : GoesOnAs(c, d)) /\ UNCHANGED <<imp, out, site, foretold>>

\* A request that is served goes on, whatever it is of.
LEMMA OneCallMoves ==
  ASSUME Orderly, NEW c \in calls, Serves(c)
  PROVE  GoesOn(c)
<1>0. DOMAIN c = {"task", "step", "k", "claim"}
  BY DEF Orderly
<1>1. ASSUME NEW v \in Verdicts, NEW claim, Answers(c, v, claim) PROVE \E d : GoesOnAs(c, d)
  <2>1. GoesOnAs(c, [c EXCEPT !.step = v, !.claim = claim])
    BY <1>0, <1>1 DEF Answers, GoesOnAs
  <2> QED  BY <2>1
<1>2. ASSUME c.task.op = "concept", NEW v, NEW claim, Answers(c, v, claim) PROVE \E d : GoesOnAs(c, d)
  <2>1. GoesOnAs(c, [c EXCEPT !.step = v, !.claim = claim])
    BY <1>0, <1>2 DEF Answers, GoesOnAs
  <2> QED  BY <2>1
<1>3. ASSUME c.task.op = "concept", NEW v, NEW k, Goes(c, v, k) PROVE \E d : GoesOnAs(c, d)
  <2>1. GoesOnAs(c, [c EXCEPT !.step = v, !.k = k])
    BY <1>0, <1>3 DEF Goes, GoesOnAs
  <2> QED  BY <2>1
<1>4. CASE Look(c)
  BY <1>2, <1>3, <1>4 DEF Look, Answer, Serve, GoesOn
<1>5. CASE Write(c)
  <2>1. c.task.op = "concept"
    BY <1>5 DEF Write, Orderly, Verdicts
  <2> QED  BY <1>2, <1>3, <1>5, <2>1 DEF Write, Answer, Serve, GoesOn
<1>6. CASE Create(c)
  <2>1. c.task.op = "concept"
    BY <1>6 DEF Create, Orderly, Verdicts
  <2> QED  BY <1>2, <1>3, <1>6, <2>1 DEF Create, Answer, Serve, GoesOn
<1>7. CASE Plan(c)
  BY <1>2, <1>3, <1>7 DEF Plan, Answer, Serve, GoesOn
<1>8. CASE PutFile(c)
  <2>1. \A p : FileRefusal(p) # "none" => FileRefusal(p) \in Verdicts
    BY DEF FileRefusal, Verdicts, Barred
  <2> QED  BY <1>1, <1>8, <2>1 DEF PutFile, Answer, Serve, GoesOn, Verdicts
<1>9. CASE Describe(c)
  <2>1. \A p : Barred(p) # "none" => Barred(p) \in Verdicts
    BY DEF Verdicts, Barred
  <2>2. {"unchanged", "updated", "too large"} \subseteq Verdicts
    BY DEF Verdicts
  <2> QED  BY <1>1, <1>9, <2>1, <2>2 DEF Describe, Answer, GoesOn
<1> QED
  BY <1>4, <1>5, <1>6, <1>7, <1>8, <1>9 DEF Serves

\* What others do to a run is to touch a path of it.
LEMMA OthersTouch ==
  ASSUME DOMAIN imp = DOMAIN NoImport, Others
  PROVE  /\ \/ imp' = imp
            \/ \E p \in site.contested : imp' = [imp EXCEPT !.touched = @ \cup {p}]
         /\ UNCHANGED <<site, calls, foretold>>
<1>1. CASE \E p \in site.contested : Edit(p) \/ Confirm(p) \/ Delete(p) \/ Upload(p)
  <2>1. PICK p \in site.contested : Theirs(p)
    BY <1>1 DEF Edit, Confirm, Delete, Upload
  <2> QED  BY <2>1 DEF Theirs
<1>2. CASE \E x \in blobs : Sweep(x)
  BY <1>2 DEF Sweep
<1> QED  BY <1>1, <1>2 DEF Others

\* The fields of an import not begun and of an empty tally.
LEMMA BeginFields ==
  DOMAIN NoImport = {"phase", "dry", "strict", "bundle", "from", "left", "tally", "skipped",
                     "refused", "noted", "touched", "failed", "lost"}
  /\ DOMAIN NoTally = {"created", "updated", "unchanged", "attributed", "loose", "skipped", "notes"}
BY DEF NoImport, NoTally

\* A request that is sent was left to send.
LEMMA OrderlySend ==
  ASSUME Orderly, NEW t \in imp.left, Send(t)
  PROVE  Orderly'
<1> DEFINE d == [task |-> t, step |-> "sent", k |-> Sent(imp.bundle[t.path]), claim |-> None]
<1>1. /\ calls' = calls \cup {d} /\ d.task = t /\ d.step = "sent"
      /\ DOMAIN d = {"task", "step", "k", "claim"}
  BY DEF Send
<1> HIDE DEF d
<1>2. imp' = [imp EXCEPT !.left = @ \ {t}] /\ DOMAIN imp = DOMAIN NoImport
  BY DEF Send, Orderly
<1>3. /\ DOMAIN imp' = DOMAIN NoImport /\ imp'.left = imp.left \ {t}
      /\ imp'.phase = imp.phase /\ imp'.bundle = imp.bundle /\ imp'.failed = imp.failed
      /\ imp'.lost = imp.lost /\ imp'.tally = imp.tally
  BY <1>2, BeginFields
<1>4. t \in Current(imp.phase, imp.bundle)
  BY DEF Orderly
<1>5. \A c \in calls : c.task # t
  BY DEF Orderly
<1> QED
  BY <1>1, <1>3, <1>4, <1>5 DEF Orderly

\* A request that is served stays in flight.
LEMMA OrderlyServe ==
  ASSUME Orderly, NEW c \in calls, GoesOn(c)
  PROVE  Orderly'
<1>1. PICK d : GoesOnAs(c, d)
  BY DEF GoesOn
<1>2. /\ imp' = imp /\ calls' = (calls \ {c}) \cup {d} /\ d.task = c.task
      /\ DOMAIN d = {"task", "step", "k", "claim"}
      /\ d.step \in Verdicts \/ d.task.op = "concept"
  BY <1>1 DEF GoesOn, GoesOnAs
<1>3. c.task \in Current(imp.phase, imp.bundle) \ imp.left
  BY DEF Orderly
<1>4. \A e \in calls' : (e \in calls /\ e # c) \/ e = d
  BY <1>2
<1>5. \A e \in calls' : /\ DOMAIN e = {"task", "step", "k", "claim"}
                        /\ e.task \in Current(imp.phase, imp.bundle) \ imp.left
                        /\ e.step \in {"sent"} \cup Verdicts \/ e.task.op = "concept"
  BY <1>2, <1>3, <1>4 DEF Orderly
<1>6. \A e, f \in calls' : e.task = f.task => e = f
  BY <1>2, <1>4 DEF Orderly
<1> QED
  BY <1>2, <1>5, <1>6 DEF Orderly

\* Hearing an answer, or losing it, leaves the tasks as they are.
LEMMA HearKeeps ==
  ASSUME DOMAIN imp = DOMAIN NoImport, DOMAIN imp.tally = DOMAIN NoTally,
         NEW c \in calls, Hear(c) \/ Lose(c)
  PROVE  /\ calls' = calls \ {c}
         /\ DOMAIN imp' = DOMAIN NoImport /\ DOMAIN imp'.tally = DOMAIN NoTally
         /\ imp'.phase = imp.phase /\ imp'.bundle = imp.bundle /\ imp'.left = imp.left
         /\ imp'.dry = imp.dry /\ imp'.from = imp.from /\ imp'.touched = imp.touched
         /\ imp.failed => imp'.failed
         /\ IF Lose(c) THEN imp'.failed ELSE imp'.lost = imp.lost
         /\ UNCHANGED <<held, blobs, clock, site, out, foretold>>
<1> USE BeginFields
<1>1. CASE Lose(c)
  BY <1>1 DEF Lose, ImpOnly, base
<1>2. CASE Hear(c) /\ ~Lose(c)
  <2> DEFINE Same(i) ==
        /\ DOMAIN i = DOMAIN NoImport /\ DOMAIN i.tally = DOMAIN NoTally
        /\ i.phase = imp.phase /\ i.bundle = imp.bundle /\ i.left = imp.left
        /\ i.dry = imp.dry /\ i.from = imp.from /\ i.touched = imp.touched
        /\ (imp.failed => i.failed) /\ i.lost = imp.lost
  <2>1. Same(imp) /\ Same(Skipped(c)) /\ Same(Failed)
    BY DEF Skipped, Failed
  <2>2. \A x \in DOMAIN NoTally : Same(Tallied(c, x))
    BY DEF Tallied
  <2>3. Same(AfterFile(c)) /\ Same(AfterIndex(c))
    BY <2>1, <2>2 DEF AfterFile, AfterIndex
  <2>4. Same(AfterConcept(c))
    <3>1. CASE c.step \in {"created", "updated", "unchanged"}
      BY <3>1 DEF AfterConcept
    <3> QED  BY <3>1, <2>1 DEF AfterConcept
  <2>5. Same(imp')
    BY <1>2, <2>3, <2>4 DEF Hear
  <2> QED  BY <1>2, <2>5 DEF Hear, ImpOnly, base
<1> QED  BY <1>1, <1>2

\* A request whose answer comes, or is lost, is no longer in flight.
LEMMA OrderlyHear ==
  ASSUME Orderly, NEW c \in calls, Hear(c) \/ Lose(c)
  PROVE  Orderly'
<1>1. DOMAIN imp = DOMAIN NoImport /\ DOMAIN imp.tally = DOMAIN NoTally
  BY DEF Orderly
<1>2. /\ calls' = calls \ {c}
      /\ DOMAIN imp' = DOMAIN NoImport /\ DOMAIN imp'.tally = DOMAIN NoTally
      /\ imp'.phase = imp.phase /\ imp'.bundle = imp.bundle /\ imp'.left = imp.left
      /\ imp.failed => imp'.failed
      /\ IF Lose(c) THEN imp'.failed ELSE imp'.lost = imp.lost
  BY <1>1, HearKeeps
<1>3. imp.phase # "done"
  BY DEF Orderly, Current, TasksOf
<1> QED
  BY <1>2, <1>3 DEF Orderly

\* Where nothing is to be sent nobody waits for an answer.
LEMMA NobodyWaits ==
  ASSUME Orderly, imp.phase \in {"none", "done", "refused", "aborted"}
  PROVE  calls = {} /\ imp.left = {}
BY DEF Orderly, Current, TasksOf

\* A run begins with nothing noted, nothing lost, and the bundle's skips.
LEMMA BeginSays ==
  ASSUME NEW b, NEW dry, NEW strict, Begin(b, dry, strict)
  PROVE  /\ DOMAIN imp' = DOMAIN NoImport /\ DOMAIN imp'.tally = DOMAIN NoTally
         /\ imp'.dry = dry /\ imp'.bundle = b /\ imp'.from = held
         /\ imp'.tally = ParseTally(b) /\ imp'.skipped = ParseSkips(b)
         /\ imp'.refused = {} /\ imp'.noted = {} /\ imp'.touched = {}
         /\ imp'.failed = FALSE /\ imp'.lost = FALSE
         /\ \/ imp'.phase = "concepts" /\ imp'.left = Concepts(b)
            \/ imp'.phase = "refused" /\ imp'.left = {}
         /\ imp.phase \in {"none", "done", "refused", "aborted"}
         /\ UNCHANGED <<held, blobs, clock, site, out, calls, foretold>>
<1>1. DOMAIN ParseTally(b) = DOMAIN NoTally
  BY BeginFields DEF ParseTally, NoTally
<1> DEFINE refuse == strict /\ ParseTally(b) # NoTally
<1>2. imp' = [NoImport EXCEPT
         !.phase = IF refuse THEN "refused" ELSE "concepts",
         !.dry = dry, !.strict = strict, !.bundle = b, !.from = held, !.tally = ParseTally(b),
         !.skipped = ParseSkips(b),
         !.left = IF refuse THEN {} ELSE Concepts(b)]
  BY DEF Begin
<1> HIDE DEF refuse
<1>3. /\ DOMAIN imp' = DOMAIN NoImport
      /\ imp'.dry = dry /\ imp'.bundle = b /\ imp'.from = held
      /\ imp'.tally = ParseTally(b) /\ imp'.skipped = ParseSkips(b)
      /\ imp'.refused = {} /\ imp'.noted = {} /\ imp'.touched = {}
      /\ imp'.failed = FALSE /\ imp'.lost = FALSE
      /\ imp'.phase = IF refuse THEN "refused" ELSE "concepts"
      /\ imp'.left = IF refuse THEN {} ELSE Concepts(b)
  BY <1>2 DEF NoImport
<1> QED
  BY <1>1, <1>3 DEF Begin, base

\* A phase that is over gives way to the next; a failed run ends.
LEMMA PhaseSays ==
  ASSUME DOMAIN imp = DOMAIN NoImport, NextPhase \/ Abort
  PROVE  /\ calls = {} /\ calls' = {} /\ DOMAIN imp' = DOMAIN NoImport
         /\ imp'.dry = imp.dry /\ imp'.bundle = imp.bundle /\ imp'.from = imp.from
         /\ imp'.tally = imp.tally /\ imp'.skipped = imp.skipped
         /\ imp'.refused = imp.refused /\ imp'.noted = imp.noted /\ imp'.touched = imp.touched
         /\ imp'.failed = imp.failed /\ imp'.lost = imp.lost
         /\ IF imp.failed THEN imp'.phase = "aborted" /\ imp'.left = {}
            ELSE /\ imp.left = {}
                 /\ imp.phase \in {"concepts", "attributed", "loose", "indexes"}
                 /\ imp'.phase = NextOf(imp.phase)
                 /\ imp'.left = TasksOf(NextOf(imp.phase), imp.bundle)
         /\ UNCHANGED <<held, blobs, clock, site, out>>
<1> USE BeginFields
<1>1. CASE NextPhase
  BY <1>1 DEF NextPhase, Over, ImpOnly, base
<1>2. CASE Abort
  BY <1>2 DEF Abort, ImpOnly, base
<1> QED  BY <1>1, <1>2

\* A phase ends with nothing left and nothing in flight, or the import is given up.
LEMMA OrderlyPhase ==
  ASSUME Orderly, NextPhase \/ Abort
  PROVE  Orderly'
<1>1. DOMAIN imp = DOMAIN NoImport
  BY DEF Orderly
<1>2. CASE imp.failed
  BY <1>1, <1>2, PhaseSays DEF Orderly, Phases, Current, TasksOf
<1>3. CASE ~imp.failed
  <2>1. /\ imp'.phase = NextOf(imp.phase) /\ imp'.bundle = imp.bundle
        /\ imp'.left = TasksOf(NextOf(imp.phase), imp.bundle)
        /\ calls' = {} /\ DOMAIN imp' = DOMAIN NoImport /\ imp'.tally = imp.tally
        /\ imp'.failed = imp.failed /\ imp'.lost = imp.lost
    BY <1>1, <1>3, PhaseSays
  <2>2. NextOf(imp.phase) \in {"attributed", "loose", "indexes", "done"}
    BY DEF NextOf
  <2> QED
    BY <2>1, <2>2, <1>3 DEF Orderly, Phases, Current
<1> QED  BY <1>2, <1>3

\* Every step keeps an import orderly.
LEMMA OrderlyStep == Orderly /\ [Next]_vars => Orderly'
<1> SUFFICES ASSUME Orderly, [Next]_vars PROVE Orderly'
  OBVIOUS
<1>0. DOMAIN imp = DOMAIN NoImport
  BY DEF Orderly
<1>1. CASE Others
  <2>1. PICK p : imp' = imp \/ imp' = [imp EXCEPT !.touched = @ \cup {p}]
    BY <1>0, <1>1, OthersTouch
  <2>2. /\ DOMAIN imp' = DOMAIN NoImport /\ imp'.phase = imp.phase /\ imp'.left = imp.left
        /\ imp'.bundle = imp.bundle /\ imp'.failed = imp.failed /\ imp'.lost = imp.lost
        /\ imp'.tally = imp.tally
    BY <1>0, <2>1, BeginFields
  <2> QED  BY <1>0, <1>1, <2>2, OthersTouch DEF Orderly
<1>2. CASE Exports \/ UNCHANGED vars
  BY <1>2 DEF Exports, Snapshot, WriteListings, WriteConcepts, CloseArchive, Cut, WriteFile,
     OutOnly, Orderly, vars
<1>3. ASSUME NEW b, NEW dry, NEW strict, Begin(b, dry, strict) PROVE Orderly'
  <2>1. calls = {} /\ calls' = {}
    BY <1>3, BeginSays, NobodyWaits
  <2>2. /\ DOMAIN imp' = DOMAIN NoImport /\ DOMAIN imp'.tally = DOMAIN NoTally
        /\ imp'.bundle = b /\ imp'.failed = FALSE /\ imp'.lost = FALSE
        /\ \/ imp'.phase = "concepts" /\ imp'.left = Concepts(b)
           \/ imp'.phase = "refused" /\ imp'.left = {}
    BY <1>3, BeginSays
  <2> QED  BY <2>1, <2>2 DEF Orderly, Phases, Current
<1>4. CASE \E t \in imp.left : Send(t)
  BY <1>4, OrderlySend
<1>5. CASE \E c \in calls : Serves(c)
  BY <1>5, OneCallMoves, OrderlyServe
<1>6. CASE \E c \in calls : Hear(c) \/ Lose(c)
  BY <1>6, OrderlyHear
<1>7. CASE NextPhase \/ Abort
  BY <1>7, OrderlyPhase
<1> QED
  BY <1>1, <1>2, <1>3, <1>4, <1>5, <1>6, <1>7 DEF Next, Imports, Serves

-----------------------------------------------------------------------------
(* What is kept keeps fitting.                                               *)

\* Rows written by now are written by then.
LEMMA FitsLonger ==
  ASSUME NEW rows, NEW m \in Nat, NEW n \in Nat, m <= n, Fits(rows, m)
  PROVE  Fits(rows, n)
BY DEF Fits, RowFits

\* One more fitting row leaves the base fitting.
LEMMA FitsWith ==
  ASSUME NEW rows, NEW m \in Nat, NEW n \in Nat, m <= n, Fits(rows, m),
         NEW p, PathFits(p), NEW row, RowFits(p, row, n)
  PROVE  Fits(With(rows, p, row), n)
<1> DEFINE more == With(rows, p, row)
<1>1. /\ more = [q \in DOMAIN rows \cup {p} |-> IF q = p THEN row ELSE rows[q]]
      /\ DOMAIN more = DOMAIN rows \cup {p}
  BY DEF With
<1>2. more = [q \in DOMAIN more |-> more[q]]
  BY <1>1
<1>3. IsFiniteSet(DOMAIN more)
  BY <1>1, FS_AddElement DEF Fits
<1>4. \A q \in DOMAIN more : PathFits(q) /\ RowFits(q, more[q], n)
  BY <1>1, FitsLonger DEF Fits
<1> QED  BY <1>2, <1>3, <1>4 DEF Fits

\* A concept just stamped was written now.
LEMMA StampFits ==
  ASSUME clock \in Nat, Fits(held, clock), NEW p, PathFits(p), IsMarkdown(p),
         NEW k, NEW who, Stamped(p, k, who)
  PROVE  Fits(held', clock') /\ clock' = clock + 1
<1> DEFINE row == [says |-> k.says, links |-> k.links, claim |-> k.claim,
                   by |-> who, at |-> clock + 1, confirmed |-> FALSE]
<1>1. RowFits(p, row, clock + 1)
  BY DEF RowFits
<1>2. held' = With(held, p, row) /\ clock' = clock + 1
  BY DEF Stamped
<1> HIDE DEF row
<1> QED  BY <1>1, <1>2, FitsWith

\* A file put at an address leaves the base fitting.
LEMMA FileFits ==
  ASSUME clock \in Nat, Fits(held, clock), NEW p, Addressable(p), ~IsMarkdown(p), NEW x,
         held' = With(held, p, FileRow(x)), clock' = clock
  PROVE  Fits(held', clock')
<1>1. RowFits(p, FileRow(x), clock)
  BY DEF RowFits, FileRow
<1>2. PathFits(p)
  BY DEF PathFits
<1> QED  BY <1>1, <1>2, FitsWith

\* A call for a concept is for one of the bundle's.
LEMMA ConceptPaths ==
  ASSUME Orderly, RowsFit, NEW c \in calls, c.task.op = "concept"
  PROVE  /\ c.task.path \in ConceptsOf(imp.bundle)
         /\ PathFits(c.task.path) /\ IsMarkdown(c.task.path)
<1>1. c.task \in Current(imp.phase, imp.bundle)
  BY DEF Orderly
<1>2. c.task.path \in ConceptsOf(imp.bundle)
  BY <1>1, TasksAre
<1> QED
  BY <1>2 DEF ConceptsOf, PathFits, RowsFit, BundleFits

\* Every step keeps the base fitting, and the clock never goes back.
LEMMA HeldStep ==
  ASSUME Orderly, RowsFit, [Next]_vars
  PROVE  Fits(held', clock') /\ clock' \in {clock, clock + 1}
<1>0. clock \in Nat /\ Fits(held, clock)
  BY DEF RowsFit
<1>1. ASSUME NEW p \in site.contested, Edit(p) \/ Confirm(p) \/ Delete(p) \/ Upload(p)
      PROVE  Fits(held', clock') /\ clock' \in {clock, clock + 1}
  <2>0. Addressable(p) /\ PathFits(p)
    BY DEF RowsFit, IsAddress, PathFits
  <2>1. CASE Edit(p)
    BY <1>0, <2>0, <2>1, StampFits DEF Edit
  <2>2. CASE Confirm(p)
    <3>1. p \in DOMAIN held /\ IsMarkdown(p) /\ clock' = clock
          /\ held' = [held EXCEPT ![p].confirmed = TRUE]
      BY <2>2 DEF Confirm, Here
    <3>2. RowFits(p, [held[p] EXCEPT !.confirmed = TRUE], clock)
      BY <1>0, <3>1 DEF Fits, RowFits
    <3>3. /\ DOMAIN held' = DOMAIN held /\ held' = [q \in DOMAIN held' |-> held'[q]]
          /\ held'[p] = [held[p] EXCEPT !.confirmed = TRUE]
          /\ \A q \in DOMAIN held : q # p => held'[q] = held[q]
      BY <3>1
    <3> QED  BY <1>0, <3>1, <3>2, <3>3 DEF Fits
  <2>3. CASE Delete(p)
    <3>1. clock' = clock /\ held' = [q \in DOMAIN held \ {p} |-> held[q]]
      BY <2>3 DEF Delete, Without
    <3>2. IsFiniteSet(DOMAIN held \ {p})
      BY <1>0, FS_RemoveElement DEF Fits
    <3> QED  BY <1>0, <3>1, <3>2 DEF Fits
  <2>4. CASE Upload(p)
    BY <1>0, <2>0, <2>4, FileFits DEF Upload
  <2> QED  BY <1>1, <2>1, <2>2, <2>3, <2>4
<1>2. CASE \E x \in blobs : Sweep(x)
  BY <1>0, <1>2 DEF Sweep
<1>3. CASE Exports \/ UNCHANGED vars
  BY <1>0, <1>3 DEF Exports, Snapshot, WriteListings, WriteConcepts, CloseArchive, Cut, WriteFile,
     OutOnly, base, vars
<1>4. ASSUME NEW c \in calls, Serves(c)
      PROVE  Fits(held', clock') /\ clock' \in {clock, clock + 1}
  <2>1. CASE Look(c) \/ Plan(c) \/ Describe(c)
    BY <1>0, <2>1 DEF Look, Plan, Describe
  <2>2. CASE Write(c) \/ Create(c)
    <3>1. c.task.op = "concept"
      BY <2>2 DEF Write, Create, Orderly, Verdicts
    <3>2. \/ UNCHANGED <<held, clock>>
          \/ Stamped(c.task.path, c.k, "me")
      BY <2>2 DEF Write, Create
    <3> QED  BY <1>0, <3>1, <3>2, ConceptPaths, StampFits
  <2>3. CASE PutFile(c)
    <3> DEFINE p == Unclaimed(imp.bundle, c.task.path)
    <3>1. clock' = clock
      BY <2>3 DEF PutFile
    <3>2. \/ held' = held
          \/ FileRefusal(p) = "none" /\ held' = With(held, p, FileRow(c.k.says))
      BY <2>3 DEF PutFile
    <3>3. FileRefusal(p) = "none" => Addressable(p) /\ ~IsMarkdown(p)
      BY DEF FileRefusal
    <3> QED  BY <1>0, <3>1, <3>2, <3>3, FileFits
  <2> QED  BY <1>4, <2>1, <2>2, <2>3 DEF Serves
<1>5. CASE \/ \E b \in Sources, dry \in BOOLEAN, strict \in Stricts : Begin(b, dry, strict)
           \/ \E t \in imp.left : Send(t)
           \/ \E c \in calls : Hear(c) \/ Lose(c)
           \/ NextPhase \/ Abort
  BY <1>0, <1>5 DEF Begin, Send, Hear, Lose, NextPhase, Abort, ImpOnly, base
<1> QED
  BY <1>1, <1>2, <1>3, <1>4, <1>5 DEF Next, Others, Imports, Serves

-----------------------------------------------------------------------------
(* An archive.                                                               *)

\* The fields of an archive not begun.
LEMMA OutFields ==
  DOMAIN NoArchive = {"phase", "prefix", "snap", "left", "files", "archive"}
BY DEF NoArchive

\* An archive's concepts are those of its snapshot.
LEMMA ArchiveFits ==
  ASSUME ArchiveInv, out.phase = "complete"
  PROVE  BundleFits(out.archive)
<1>1. IsFiniteSet(DOMAIN out.archive)
  BY DEF ArchiveInv, Faithful
<1>2. ASSUME NEW p \in ConceptsOf(out.archive) PROVE p \in Seq(Seq(STRING))
  <2>1. p \in DOMAIN out.archive /\ IsMarkdown(p) /\ ~IsIndex(p) /\ ~IsLog(p)
    BY DEF ConceptsOf, Addressable
  <2>2. p \in DOMAIN out.snap
    BY <2>1 DEF ArchiveInv, Faithful
  <2> QED
    BY <2>1, <2>2 DEF ArchiveInv, Remaining, Archiving, Fits, PathFits
<1> QED  BY <1>1, <1>2 DEF BundleFits

\* The paths a prefix carries are whole paths, at addresses.
LEMMA CarriedAre ==
  ASSUME ArchiveInv, out.phase \in Archiving
  PROVE  /\ IsFiniteSet(Carried) /\ Carried \subseteq DOMAIN out.snap
         /\ \A p \in Carried : /\ p \in Seq(Seq(STRING)) /\ IsMarkdown(p)
                               /\ ~IsIndex(p) /\ ~IsLog(p)
<1>1. Fits(out.snap, clock)
  BY DEF ArchiveInv, Remaining
<1>2. Carried \subseteq DOMAIN out.snap /\ \A p \in Carried : IsMarkdown(p)
  BY DEF Carried, ConceptsUnder
<1>3. IsFiniteSet(Carried)
  BY <1>1, <1>2, FS_Subset DEF Fits
<1> QED
  BY <1>1, <1>2, <1>3 DEF Fits, PathFits, Addressable

\* As many values as arguments, at most.
LEMMA ImageFinite ==
  ASSUME NEW f, IsFiniteSet(DOMAIN f)
  PROVE  IsFiniteSet({f[x] : x \in DOMAIN f})
<1> DEFINE T == {f[x] : x \in DOMAIN f}
           g == [x \in DOMAIN f |-> f[x]]
<1>1. g \in Surjection(DOMAIN f, T)
  BY DEF Surjection
<1> QED  BY <1>1, FS_Surjection

\* A finite bundle has finitely many generated files.
LEMMA ListingsFinite ==
  ASSUME NEW paths, IsFiniteSet(paths), \A p \in paths : p \in Seq(Seq(STRING))
  PROVE  IsFiniteSet(DOMAIN Listings(paths))
<1> DEFINE Above(p) == {SubSeq(p, 1, n) : n \in 1 .. Len(p) - 1}
           All == {Above(p) : p \in paths}
<1>1. ASSUME NEW p \in paths PROVE IsFiniteSet(Above(p))
  <2> DEFINE f == [n \in 1 .. Len(p) - 1 |-> SubSeq(p, 1, n)]
  <2>1. IsFiniteSet(DOMAIN f)
    BY FS_Interval
  <2>2. IsFiniteSet({f[n] : n \in DOMAIN f})
    BY ONLY <2>1, ImageFinite
  <2>3. Above(p) = {f[n] : n \in DOMAIN f}
    OBVIOUS
  <2> QED  BY <2>2, <2>3
<1> HIDE DEF Above
<1>2. IsFiniteSet(All)
  <2> DEFINE f == [p \in paths |-> Above(p)]
  <2>1. DOMAIN f = paths /\ All = {f[p] : p \in DOMAIN f}
    OBVIOUS
  <2>2. IsFiniteSet({f[p] : p \in DOMAIN f})
    <3> HIDE DEF f
    <3> QED  BY <2>1, ImageFinite
  <2> QED  BY <2>1, <2>2
<1>3. IsFiniteSet(UNION All)
  <2>1. \A T \in All : IsFiniteSet(T)
    BY <1>1
  <2> HIDE DEF All
  <2> QED  BY <2>1, <1>2, FS_UNION
<1>4. IsFiniteSet(Directories(paths))
  <2>1. Directories(paths) = (UNION All) \cup {Root}
    BY DEF Directories, Above
  <2> HIDE DEF All
  <2> QED  BY <2>1, <1>3, FS_AddElement
<1> DEFINE Named(name) == {Append(d, name) : d \in Directories(paths)}
<1>5. ASSUME NEW name PROVE IsFiniteSet(Named(name))
  <2> DEFINE f == [d \in Directories(paths) |-> Append(d, name)]
  <2>1. DOMAIN f = Directories(paths) /\ Named(name) = {f[d] : d \in DOMAIN f}
    OBVIOUS
  <2>2. IsFiniteSet({f[d] : d \in DOMAIN f})
    <3> HIDE DEF f
    <3> QED  BY <2>1, <1>4, ImageFinite
  <2> QED  BY <2>1, <2>2
<1>6. DOMAIN Listings(paths) = Named(<<"index", "md">>) \cup Named(<<"log", "md">>)
  BY DEF Listings, Generated
<1> QED  BY <1>5, <1>6, FS_Union

\* A snapshot is faithful to itself.
LEMMA SnapshotStep ==
  ASSUME ArchiveInv, NEW prefix, NEW withFiles, Snapshot(prefix, withFiles)
  PROVE  OutFits' /\ Remaining' /\ Faithful'
<1>1. PICK files : /\ out' = [NoArchive EXCEPT !.phase = "snapshot", !.prefix = prefix,
                                !.snap = held, !.left = ConceptsUnder(held, prefix), !.files = files]
                   /\ files = {} \/ files = FilesUnder(held, prefix)
  BY DEF Snapshot
<1>2. /\ DOMAIN out' = DOMAIN NoArchive /\ out'.phase = "snapshot" /\ out'.prefix = prefix
      /\ out'.snap = held /\ out'.left = ConceptsUnder(held, prefix) /\ out'.files = files
  BY <1>1, OutFields
<1>3. \A p \in files : p \in DOMAIN held /\ ~IsMarkdown(p)
  BY <1>1 DEF FilesUnder
<1>4. clock' = clock /\ Fits(held, clock)
  BY DEF Snapshot, OutOnly, base, ArchiveInv, RowsFit
<1> QED
  BY <1>2, <1>3, <1>4 DEF OutFits, Remaining, Faithful, Carried, Archiving

\* The indexes and logs are written from the snapshot,
LEMMA WriteListingsStep ==
  ASSUME ArchiveInv, WriteListings
  PROVE  OutFits' /\ Remaining' /\ Faithful'
<1>1. /\ out.phase = "snapshot" /\ out.left = Carried /\ DOMAIN out = DOMAIN NoArchive
      /\ out' = [out EXCEPT !.phase = "listed", !.archive = Listings(Carried)] /\ clock' = clock
  BY DEF WriteListings, ArchiveInv, Remaining, Archiving, OutFits, OutOnly, base
<1>2. /\ DOMAIN out' = DOMAIN NoArchive /\ out'.phase = "listed" /\ out'.left = out.left
      /\ out'.prefix = out.prefix /\ out'.snap = out.snap /\ out'.files = out.files
      /\ out'.archive = Listings(Carried) /\ Carried' = Carried
  BY <1>1, OutFields DEF Carried
<1>3. Remaining'
  BY <1>1, <1>2 DEF ArchiveInv, Remaining, Archiving
<1>4. /\ IsFiniteSet(DOMAIN Listings(Carried))
      /\ \A p \in DOMAIN Listings(Carried) :
           /\ IsIndex(p) \/ IsLog(p)
           /\ \A d \in DOMAIN Listings(Carried)[p].lines : \E q \in Carried : Under(q, d)
  BY <1>1, CarriedAre, ListingsFinite, ListingsSay DEF Archiving
<1>5. Faithful'
  BY <1>1, <1>2, <1>4 DEF Faithful, ListingSays
<1> QED  BY <1>2, <1>3, <1>5 DEF OutFits

\* so are the concepts,
LEMMA WriteConceptsStep ==
  ASSUME ArchiveInv, WriteConcepts
  PROVE  OutFits' /\ Remaining' /\ Faithful'
<1>1. PICK ps \in SUBSET out.left :
        out' = [out EXCEPT !.left = @ \ ps, !.archive =
                  [p \in DOMAIN out.archive \cup ps |->
                     IF p \in ps THEN Document(RowOf(p)) ELSE out.archive[p]]]
  BY DEF WriteConcepts
<1>2. /\ out.phase = "listed" /\ DOMAIN out = DOMAIN NoArchive /\ out.left \subseteq Carried
      /\ clock' = clock
  BY DEF WriteConcepts, ArchiveInv, Remaining, Archiving, OutFits, OutOnly, base
<1>3. /\ DOMAIN out' = DOMAIN NoArchive /\ out'.phase = "listed" /\ out'.left = out.left \ ps
      /\ out'.prefix = out.prefix /\ out'.snap = out.snap /\ out'.files = out.files
      /\ Carried' = Carried
      /\ out'.archive = [p \in DOMAIN out.archive \cup ps |->
                           IF p \in ps THEN Document(out.snap[p]) ELSE out.archive[p]]
  BY <1>1, <1>2, OutFields DEF Carried, RowOf
<1>4. Remaining'
  BY <1>2, <1>3 DEF ArchiveInv, Remaining, Archiving
<1>5. /\ IsFiniteSet(Carried) /\ Carried \subseteq DOMAIN out.snap
      /\ \A p \in Carried : IsMarkdown(p) /\ ~IsIndex(p) /\ ~IsLog(p)
  BY <1>2, CarriedAre DEF Archiving
<1>6. IsFiniteSet(DOMAIN out'.archive)
  <2>1. IsFiniteSet(ps) /\ IsFiniteSet(DOMAIN out.archive)
    BY <1>2, <1>5, FS_Subset DEF ArchiveInv, Faithful
  <2>2. IsFiniteSet(DOMAIN out.archive \cup ps)
    BY <2>1, FS_Union
  <2> QED  BY <2>2, <1>3
<1>7. Carried \ (out.left \ ps) \subseteq DOMAIN out.archive \cup ps
  BY <1>2 DEF ArchiveInv, Faithful
<1>8. \A p \in DOMAIN out'.archive :
        IF IsIndex(p) \/ IsLog(p) THEN ListingSays(out'.archive[p])
        ELSE /\ p \in DOMAIN out.snap
             /\ out'.archive[p] = IF IsMarkdown(p) THEN Document(out.snap[p])
                                  ELSE FileDocument(out.snap[p])
  BY <1>2, <1>3, <1>5 DEF ArchiveInv, Faithful
<1>9. Faithful'
  BY <1>3, <1>6, <1>7, <1>8 DEF Faithful, ListingSays
<1> QED  BY <1>3, <1>4, <1>9 DEF OutFits

\* and a file's bytes, unless they are gone, which ends the archive.
LEMMA WriteFileStep ==
  ASSUME ArchiveInv, NEW p \in out.files, WriteFile(p)
  PROVE  OutFits' /\ Remaining' /\ Faithful'
<1>1. /\ out.phase = "listed" /\ DOMAIN out = DOMAIN NoArchive /\ clock' = clock
      /\ p \in DOMAIN out.snap /\ ~IsMarkdown(p) /\ ~IsIndex(p) /\ ~IsLog(p)
  <2>1. /\ out.phase = "listed" /\ DOMAIN out = DOMAIN NoArchive /\ clock' = clock
        /\ p \in DOMAIN out.snap /\ ~IsMarkdown(p) /\ Fits(out.snap, clock)
    BY DEF WriteFile, ArchiveInv, Remaining, Archiving, OutFits, OutOnly, base
  <2> QED  BY <2>1 DEF Fits, PathFits, Addressable
<1>2. CASE out' = [out EXCEPT !.files = @ \ {p}]
  <2>1. /\ DOMAIN out' = DOMAIN NoArchive /\ out'.phase = "listed" /\ out'.left = out.left
        /\ out'.prefix = out.prefix /\ out'.snap = out.snap /\ out'.files = out.files \ {p}
        /\ out'.archive = out.archive /\ Carried' = Carried
    BY <1>1, <1>2, OutFields DEF Carried
  <2> QED
    BY <1>1, <2>1 DEF ArchiveInv, OutFits, Remaining, Archiving, Faithful, ListingSays
<1>3. CASE out' = [out EXCEPT !.files = @ \ {p},
                              !.archive = With(@, p, FileDocument(out.snap[p]))]
  <2>1. /\ DOMAIN out' = DOMAIN NoArchive /\ out'.phase = "listed" /\ out'.left = out.left
        /\ out'.prefix = out.prefix /\ out'.snap = out.snap /\ out'.files = out.files \ {p}
        /\ out'.archive = With(out.archive, p, FileDocument(out.snap[p])) /\ Carried' = Carried
    BY <1>1, <1>3, OutFields DEF Carried
  <2>2. /\ DOMAIN out'.archive = DOMAIN out.archive \cup {p}
        /\ out'.archive[p] = FileDocument(out.snap[p])
        /\ \A q \in DOMAIN out.archive : q # p => out'.archive[q] = out.archive[q]
    BY <2>1 DEF With
  <2>3. IsFiniteSet(DOMAIN out'.archive)
    BY <1>1, <2>2, FS_AddElement DEF ArchiveInv, Faithful
  <2>4. Remaining'
    BY <1>1, <2>1 DEF ArchiveInv, Remaining, Archiving
  <2>5. Faithful'
    BY <1>1, <2>1, <2>2, <2>3 DEF ArchiveInv, Faithful, ListingSays
  <2> QED  BY <2>1, <2>4, <2>5 DEF OutFits
<1>4. CASE out' = [out EXCEPT !.phase = "truncated"]
  BY <1>1, <1>4, OutFields DEF OutFits, Remaining, Faithful, Archiving
<1> QED  BY <1>2, <1>3, <1>4 DEF WriteFile

\* Every step of an export keeps the archive of one instant.
LEMMA ExportStep ==
  ASSUME ArchiveInv, Exports
  PROVE  OutFits' /\ Remaining' /\ Faithful'
<1>0. DOMAIN out = DOMAIN NoArchive
  BY DEF ArchiveInv, OutFits
<1>1. CASE CloseArchive
  <2>1. /\ out.phase = "listed" /\ out.left = {} /\ clock' = clock
        /\ out' = [out EXCEPT !.phase = "complete"]
    BY <1>1 DEF CloseArchive, OutOnly, base
  <2>2. /\ DOMAIN out' = DOMAIN NoArchive /\ out'.phase = "complete" /\ out'.left = out.left
        /\ out'.prefix = out.prefix /\ out'.snap = out.snap /\ out'.files = out.files
        /\ out'.archive = out.archive /\ Carried' = Carried
    BY <1>0, <2>1, OutFields DEF Carried
  <2> QED
    BY <2>1, <2>2 DEF ArchiveInv, OutFits, Remaining, Archiving, Faithful, ListingSays
<1>2. CASE Cut
  BY <1>0, <1>2, OutFields DEF Cut, OutFits, Remaining, Faithful, Archiving
<1> QED
  BY <1>1, <1>2, SnapshotStep, WriteListingsStep, WriteConceptsStep, WriteFileStep DEF Exports

\* A bundle is imported to its end before the next is begun, and the caller's
\* rights stay.
LEMMA SameSite ==
  ASSUME Orderly, [Next]_vars
  PROVE  site' = site /\ imp'.bundle \in {imp.bundle} \cup Sources
<1>0. DOMAIN imp = DOMAIN NoImport /\ DOMAIN imp.tally = DOMAIN NoTally
  BY DEF Orderly
<1>1. CASE Others
  BY <1>0, <1>1, OthersTouch, BeginFields
<1>2. CASE Exports \/ UNCHANGED vars
  BY <1>2 DEF Exports, Snapshot, WriteListings, WriteConcepts, CloseArchive, Cut, WriteFile,
     OutOnly, vars
<1>3. CASE Imports
  <2>1. CASE \E b \in Sources, dry \in BOOLEAN, strict \in Stricts : Begin(b, dry, strict)
    BY <2>1, BeginSays
  <2>2. CASE \E t \in imp.left : Send(t)
    BY <1>0, <2>2, BeginFields DEF Send, ImpOnly
  <2>3. CASE \E c \in calls : Serves(c)
    BY <2>3, OneCallMoves DEF GoesOn
  <2>4. CASE \E c \in calls : Hear(c) \/ Lose(c)
    BY <1>0, <2>4, HearKeeps
  <2>5. CASE NextPhase \/ Abort
    BY <1>0, <2>5, PhaseSays
  <2> QED  BY <1>3, <2>1, <2>2, <2>3, <2>4, <2>5 DEF Imports, Serves
<1> QED  BY <1>1, <1>2, <1>3 DEF Next

\* Whatever is written meanwhile, the archive is not.
LEMMA ArchiveStep == Orderly /\ ArchiveInv /\ [Next]_vars => ArchiveInv'
<1> SUFFICES ASSUME Orderly, ArchiveInv, [Next]_vars PROVE ArchiveInv'
  OBVIOUS
<1>0. DOMAIN imp = DOMAIN NoImport /\ DOMAIN imp.tally = DOMAIN NoTally
  BY DEF Orderly
<1>1. clock \in Nat /\ clock' \in {clock, clock + 1} /\ Fits(held', clock')
  BY HeldStep DEF ArchiveInv, RowsFit
<1>2. site' = site /\ imp'.bundle \in {imp.bundle} \cup Sources
  BY SameSite
<1>3. \A b \in Sources : BundleFits(b)
  BY ArchiveFits DEF Sources, ArchiveInv, RowsFit
<1>4. RowsFit'
  BY <1>1, <1>2, <1>3 DEF RowsFit, ArchiveInv
<1>5. OutFits' /\ Remaining' /\ Faithful'
  <2>1. CASE Exports
    BY <2>1, ExportStep
  <2>2. CASE ~Exports
    <3>1. out' = out
      BY <2>2, <1>0, OneCallMoves DEF Next, Others, Edit, Confirm, Delete, Upload, Theirs, Sweep,
         Imports, Serves, GoesOn, Begin, Send, Hear, Lose, NextPhase, Abort, ImpOnly, vars
    <3>2. Fits(out.snap, clock) => Fits(out'.snap, clock')
      BY <3>1, <1>1, FitsLonger
    <3>3. Carried' = Carried
      BY <3>1 DEF Carried
    <3> QED
      BY <3>1, <3>2, <3>3 DEF ArchiveInv, OutFits, Remaining, Faithful, ListingSays
  <2> QED  BY <2>1, <2>2
<1> QED  BY <1>4, <1>5 DEF ArchiveInv

\* No import and no archive is under way.
LEMMA Initially == Init => Orderly /\ ArchiveInv
<1> SUFFICES ASSUME Init PROVE Orderly /\ ArchiveInv
  OBVIOUS
<1>1. PICK b \in Bases : /\ held = b.held /\ site = b.site /\ clock = 1
  BY DEF Init
<1>2. imp = NoImport /\ calls = {} /\ out = NoArchive
  BY DEF Init
<1>3. Orderly
  BY <1>2 DEF Orderly, NoImport, Phases
<1>4. Fits(held, 1)
  <2>1. held \in [DOMAIN held -> Rows] /\ IsFiniteSet(DOMAIN held)
    BY <1>1, TransferAssumption
  <2>2. held = [p \in DOMAIN held |-> held[p]]
    BY <2>1
  <2>3. ASSUME NEW p \in DOMAIN held PROVE PathFits(p) /\ RowFits(p, held[p], 1)
    <3>1. IsAddress(p) /\ IF IsMarkdown(p) THEN held[p].at <= 1 ELSE held[p] = FileRow(held[p].says)
      BY <1>1, TransferAssumption
    <3>2. held[p] \in Rows
      BY <2>1
    <3>3. DOMAIN held[p] = {"says", "links", "claim", "by", "at", "confirmed"} /\ held[p].at \in Nat
      BY <3>2 DEF Rows
    <3> QED  BY <3>1, <3>3 DEF PathFits, RowFits, IsAddress
  <2> QED  BY <2>1, <2>2, <2>3 DEF Fits
<1>5. \A p \in site.contested : IsAddress(p)
  BY <1>1, TransferAssumption
<1>6. \A u \in site.bundles : BundleFits(u)
  BY <1>1, TransferAssumption DEF BundleFits, ConceptsOf
<1>7. BundleFits(imp.bundle)
  <2>1. DOMAIN imp.bundle = {}
    BY <1>2 DEF NoImport
  <2> QED  BY <2>1, FS_EmptySet DEF BundleFits, ConceptsOf
<1>8. RowsFit
  BY <1>1, <1>4, <1>5, <1>6, <1>7 DEF RowsFit
<1>9. OutFits /\ Remaining /\ Faithful
  BY <1>2 DEF OutFits, Remaining, Faithful, NoArchive, Archiving
<1> QED  BY <1>3, <1>8, <1>9 DEF ArchiveInv

\* The invariants of imports and of archives hold of every behaviour.
LEMMA Archived == Spec => [](Orderly /\ ArchiveInv)
<1>1. (Orderly /\ ArchiveInv) /\ [Next]_vars => (Orderly /\ ArchiveInv)'
  BY OrderlyStep, ArchiveStep
<1> QED
  BY <1>1, Initially, PTL DEF Spec

\* An archive read to its end is the base at one instant (ExportSnapshot):
\* nothing written while it streams enters it, nothing of it is passed over, and
\* no listing names a directory it does not carry.
THEOREM ArchivesAreOfOneInstant == Spec => []ArchiveIsOneInstant
<1>1. ArchiveInv => ArchiveIsOneInstant
  <2> SUFFICES ASSUME ArchiveInv, out.phase = "complete" PROVE ArchiveIsOneInstant
    BY DEF ArchiveIsOneInstant
  <2> DEFINE carried == {p \in DOMAIN out.archive : ~IsIndex(p) /\ ~IsLog(p)}
  <2>1. Carried \subseteq carried
    BY CarriedAre DEF ArchiveInv, Remaining, Faithful, Archiving
  <2>2. \A p \in carried :
          out.archive[p] = IF IsMarkdown(p) THEN Document(out.snap[p]) ELSE FileDocument(out.snap[p])
    BY DEF ArchiveInv, Faithful
  <2>3. \A p \in DOMAIN out.archive \ carried :
          \A d \in DOMAIN out.archive[p].lines : \E q \in carried : IsMarkdown(q) /\ Under(q, d)
    BY <2>1, CarriedAre DEF ArchiveInv, Faithful, ListingSays, Archiving
  <2> QED
    BY <2>1, <2>2, <2>3 DEF ArchiveIsOneInstant, Carried
<1> QED  BY <1>1, Archived, PTL

-----------------------------------------------------------------------------
(* What becomes of the concepts of a bundle.                                 *)

\* What each comes to is settled when the run begins: by the bundle, and by
\* what the base then held.
RefusalOf(b, p) ==
  IF b[p].fit = "too large" THEN "too large"
  ELSE IF Barred(IdOf(p)) # "none" THEN Barred(IdOf(p))
  ELSE IF b[p].fit = "refused" THEN "invalid" ELSE "none"
Became(b, from, p) ==
  IF p \in DOMAIN from THEN Settled(Sent(b[p]), from[p]) ELSE Sent(b[p])
Verdict(b, from, p) ==
  IF RefusalOf(b, p) # "none" THEN RefusalOf(b, p)
  ELSE IF p \notin DOMAIN from THEN "created"
  ELSE IF SameDocument(Became(b, from, p), from[p]) THEN "unchanged" ELSE "updated"
Accepted == {"created", "updated", "unchanged"}
FateOf(p) == Verdict(imp.bundle, imp.from, p)
LeftOf(p) == Became(imp.bundle, imp.from, p)

AsFound(p) == /\ p \in DOMAIN held <=> p \in DOMAIN imp.from
              /\ p \in DOMAIN held => held[p] = imp.from[p]
Written(p) ==
  /\ Here(p) /\ held[p].says = imp.bundle[p].says /\ held[p].links = imp.bundle[p].links
  /\ held[p].claim = LeftOf(p).claim

\* A call on its way: nothing was done, or all of it was.
ConceptCall(c, p) ==
  \/ c.step = "sent" /\ c.k = Sent(imp.bundle[p]) /\ AsFound(p)
  \/ /\ ~imp.dry /\ c.step = "create" /\ c.k = Sent(imp.bundle[p]) /\ AsFound(p)
     /\ \/ RefusalOf(imp.bundle, p) = "missing"
        \/ RefusalOf(imp.bundle, p) = "none" /\ p \notin DOMAIN imp.from
  \/ /\ ~imp.dry /\ c.step = "write" /\ c.k = LeftOf(p) /\ AsFound(p)
     /\ FateOf(p) = "updated"
  \/ /\ c.step = FateOf(p)
     /\ c.step \in Accepted => c.claim = LeftOf(p).claim
     /\ c.step \in Accepted /\ ~imp.dry => Written(p)
     /\ c.step \notin {"created", "updated"} => AsFound(p)

\* A concept whose answer was heard.
HeardConcept(p) ==
  /\ FateOf(p) \in Accepted \cup {"invalid"}
  /\ FateOf(p) \in Accepted /\ ~imp.dry => Written(p)
  /\ FateOf(p) \notin {"created", "updated"} => AsFound(p)
  /\ p \in imp.noted <=> /\ FateOf(p) \in Accepted /\ Claims(imp.bundle[p])
                         /\ LeftOf(p).claim # None
  /\ p \in imp.refused <=> FateOf(p) = "invalid"

Running == imp.phase \in {"concepts", "attributed", "loose", "indexes", "done"}
ConceptTask(p) == [op |-> "concept", path |-> p, of |-> p]
InCall(t) == \E c \in calls : c.task = t

ConceptGoes(p) ==
  /\ imp.dry \/ ConceptTask(p) \in imp.left => AsFound(p)
  /\ \A c \in calls : c.task = ConceptTask(p) => ConceptCall(c, p)
  /\ ConceptTask(p) \in imp.left \/ InCall(ConceptTask(p)) => p \notin imp.noted \cup imp.refused
  /\ ~imp.failed /\ ConceptTask(p) \notin imp.left /\ ~InCall(ConceptTask(p)) => HeardConcept(p)

Noting == /\ imp.refused \subseteq imp.skipped
          /\ imp.noted \cup imp.refused \subseteq ConceptsOf(imp.bundle)
ConceptsGo ==
  Noting /\ (Running => \A p \in ConceptsOf(imp.bundle) \ imp.touched : ConceptGoes(p))

\* What a document becomes says what it said; only a claim this base itself observed is
\* dropped.
LEMMA SettledKeeps ==
  ASSUME NEW b, NEW from, NEW p
  PROVE  /\ Became(b, from, p).says = b[p].says /\ Became(b, from, p).links = b[p].links
         /\ Became(b, from, p).claim =
              IF p \in DOMAIN from /\ IsObservation(ClaimIn(b[p]), from[p]) THEN None
              ELSE ClaimIn(b[p])
BY DEF Became, Settled, Sent

\* The answers a concept's request may get.
LEMMA VerdictsAre ==
  ASSUME NEW b, NEW from, NEW p
  PROVE  /\ RefusalOf(b, p) \in {"none", "too large", "missing", "forbidden", "invalid"}
         /\ Verdict(b, from, p) \in Accepted \cup {"too large", "missing", "forbidden", "invalid"}
BY DEF Verdict, RefusalOf, Barred, Accepted

\* What a step leaves of a concept.
SameAt(p) == /\ p \in DOMAIN held' <=> p \in DOMAIN held
             /\ p \in DOMAIN held => held'[p] = held[p]
SameRun == /\ imp'.bundle = imp.bundle /\ imp'.from = imp.from /\ imp'.dry = imp.dry
           /\ site' = site
Undisturbed(p) ==
  /\ SameAt(p) /\ SameRun /\ (imp.failed => imp'.failed)
  /\ ConceptTask(p) \in imp'.left <=> ConceptTask(p) \in imp.left
  /\ \A c \in calls : c.task = ConceptTask(p) => c \in calls'
  /\ \A c \in calls' : c.task = ConceptTask(p) => c \in calls
  /\ p \in imp'.noted <=> p \in imp.noted
  /\ p \in imp'.refused <=> p \in imp.refused

\* What a document is to get does not change while the run is the same.
LEMMA SameFate ==
  ASSUME NEW p, SameRun
  PROVE  /\ FateOf(p)' = FateOf(p) /\ LeftOf(p)' = LeftOf(p)
         /\ RefusalOf(imp.bundle, p)' = RefusalOf(imp.bundle, p)
BY DEF SameRun, FateOf, LeftOf, Verdict, RefusalOf, Barred

\* Nor what it finds, while its row is left alone.
LEMMA SameFound ==
  ASSUME NEW p, SameRun, SameAt(p)
  PROVE  AsFound(p)' = AsFound(p) /\ Written(p)' = Written(p)
<1>1. AsFound(p)' = AsFound(p)
  BY DEF SameRun, SameAt, AsFound
<1>2. Written(p)' = Written(p)
  BY SameFate DEF SameRun, SameAt, Written, Here
<1> QED  BY <1>1, <1>2

\* A concept nothing disturbs is where it was.
LEMMA ConceptRests ==
  ASSUME NEW p, ConceptGoes(p), Undisturbed(p)
  PROVE  ConceptGoes(p)'
<1>1. SameRun /\ SameAt(p)
  BY DEF Undisturbed
<1>2. /\ FateOf(p)' = FateOf(p) /\ LeftOf(p)' = LeftOf(p)
      /\ RefusalOf(imp.bundle, p)' = RefusalOf(imp.bundle, p)
      /\ AsFound(p)' = AsFound(p) /\ Written(p)' = Written(p)
  BY <1>1, SameFate, SameFound
<1>3. ASSUME NEW c PROVE ConceptCall(c, p)' = ConceptCall(c, p)
  BY <1>1, <1>2 DEF ConceptCall, SameRun
<1>4. HeardConcept(p)' = HeardConcept(p)
  BY <1>1, <1>2 DEF HeardConcept, SameRun, Undisturbed
<1>5. InCall(ConceptTask(p))' = InCall(ConceptTask(p))
  BY DEF Undisturbed, InCall
<1>6. imp'.dry = imp.dry
  BY <1>1 DEF SameRun
<1> QED
  BY <1>2, <1>3, <1>4, <1>5, <1>6 DEF ConceptGoes, Undisturbed

\* A task is sent in one call.
LEMMA OneSent ==
  ASSUME NEW t, Send(t)
  PROVE  \E d : /\ calls' = calls \cup {d} /\ d.task = t /\ d.step = "sent"
                /\ d.k = Sent(imp.bundle[t.path])
<1> DEFINE e == [task |-> t, step |-> "sent", k |-> Sent(imp.bundle[t.path]), claim |-> None]
<1>1. calls' = calls \cup {e} /\ e.task = t /\ e.step = "sent" /\ e.k = Sent(imp.bundle[t.path])
  BY DEF Send
<1> HIDE DEF e
<1> QED  BY <1>1

\* A concept's request sent, or another's.
LEMMA ConceptSent ==
  ASSUME Orderly, NEW p, ConceptGoes(p), NEW t \in imp.left, Send(t)
  PROVE  ConceptGoes(p)'
<1>1. PICK d : /\ calls' = calls \cup {d} /\ d.task = t /\ d.step = "sent"
               /\ d.k = Sent(imp.bundle[t.path])
  BY OneSent
<1>2. /\ imp'.left = imp.left \ {t} /\ imp'.noted = imp.noted /\ imp'.refused = imp.refused
      /\ imp'.bundle = imp.bundle /\ imp'.from = imp.from /\ imp'.dry = imp.dry
      /\ imp'.failed = imp.failed /\ held' = held /\ site' = site
  BY BeginFields DEF Send, Orderly, ImpOnly, base
<1>3. SameRun /\ SameAt(p)
  BY <1>2 DEF SameRun, SameAt
<1>4. CASE t # ConceptTask(p)
  <2>1. Undisturbed(p)
    BY <1>1, <1>2, <1>3, <1>4 DEF Undisturbed
  <2> QED  BY <2>1, ConceptRests
<1>5. CASE t = ConceptTask(p)
  <2>1. t.path = p /\ \A c \in calls : c.task # t
    BY <1>5 DEF ConceptTask, Orderly
  <2>2. AsFound(p)' /\ AsFound(p) /\ p \notin imp.noted \cup imp.refused
    BY <1>3, <1>5, SameFound DEF ConceptGoes
  <2>3. \A c \in calls' : c.task = ConceptTask(p) => c = d
    BY <1>1, <1>5, <2>1
  <2>4. ConceptCall(d, p)'
    BY <1>1, <1>2, <2>1, <2>2 DEF ConceptCall
  <2>5. InCall(t)'
    BY <1>1 DEF InCall
  <2> QED
    BY <1>2, <1>5, <2>2, <2>3, <2>4, <2>5 DEF ConceptGoes
<1> QED  BY <1>4, <1>5

\* A call of this concept, served: what the next step of it is.
LEMMA OneMoved ==
  ASSUME Orderly, NEW p, ConceptGoes(p), NEW c \in calls, c.task = ConceptTask(p),
         NEW d, calls' = (calls \ {c}) \cup {d}, d.task = c.task,
         UNCHANGED <<imp, site>>, ConceptCall(d, p)', imp.dry => SameAt(p)
  PROVE  ConceptGoes(p)'
<1>1. SameRun
  BY DEF SameRun
<1>2. ConceptTask(p) \notin imp.left /\ InCall(ConceptTask(p)) /\ InCall(ConceptTask(p))'
  BY DEF Orderly, InCall
<1>3. \A e \in calls' : e.task = ConceptTask(p) => e = d
  BY DEF Orderly
<1>4. imp.dry => AsFound(p)'
  BY <1>1, SameFound DEF ConceptGoes
<1> QED  BY <1>2, <1>3, <1>4 DEF ConceptGoes

\* A concept's own request served.
LEMMA ConceptServed ==
  ASSUME Orderly, NEW p, ConceptGoes(p), NEW c \in calls, c.task = ConceptTask(p), Serves(c)
  PROVE  ConceptGoes(p)'
<1>0. /\ DOMAIN c = {"task", "step", "k", "claim"} /\ c.task.op = "concept"
      /\ c.task.path = p /\ ConceptCall(c, p)
  BY DEF Orderly, ConceptTask, ConceptGoes
<1>1. UNCHANGED <<imp, site>> /\ SameRun
  BY OneCallMoves DEF GoesOn, SameRun
<1>2. /\ FateOf(p)' = FateOf(p) /\ LeftOf(p)' = LeftOf(p)
      /\ RefusalOf(imp.bundle, p)' = RefusalOf(imp.bundle, p)
      /\ SameAt(p) => AsFound(p)' = AsFound(p) /\ Written(p)' = Written(p)
  BY <1>1, SameFate, SameFound
<1>3. FateOf(p) \in Accepted \cup {"too large", "missing", "forbidden", "invalid"}
  BY VerdictsAre DEF FateOf
<1>4. Refusal(c) = RefusalOf(imp.bundle, p)
  BY <1>0 DEF Refusal, RefusalOf
<1>5. ASSUME NEW v, NEW claim, Answers(c, v, claim), imp.dry => SameAt(p),
             v = FateOf(p),
             v \in Accepted => claim = LeftOf(p).claim,
             v \in Accepted /\ ~imp.dry => Written(p)',
             v \notin {"created", "updated"} => AsFound(p)'
      PROVE  ConceptGoes(p)'
  <2> DEFINE d == [c EXCEPT !.step = v, !.claim = claim]
  <2>1. calls' = (calls \ {c}) \cup {d} /\ d.task = c.task /\ d.step = v /\ d.claim = claim
    BY <1>0, <1>5 DEF Answers
  <2> HIDE DEF d
  <2>2. ConceptCall(d, p)'
    BY <1>1, <1>2, <1>5, <2>1 DEF ConceptCall
  <2> QED  BY <1>1, <1>5, <2>1, <2>2, OneMoved
<1>6. ASSUME NEW step, NEW k, Goes(c, step, k), held' = held, ~imp.dry, AsFound(p),
             \/ /\ step = "create" /\ k = Sent(imp.bundle[p])
                /\ \/ RefusalOf(imp.bundle, p) = "missing"
                   \/ RefusalOf(imp.bundle, p) = "none" /\ p \notin DOMAIN imp.from
             \/ step = "write" /\ k = LeftOf(p) /\ FateOf(p) = "updated"
      PROVE  ConceptGoes(p)'
  <2> DEFINE d == [c EXCEPT !.step = step, !.k = k]
  <2>1. calls' = (calls \ {c}) \cup {d} /\ d.task = c.task /\ d.step = step /\ d.k = k
    BY <1>0, <1>6 DEF Goes
  <2> HIDE DEF d
  <2>2. SameAt(p)
    BY <1>6 DEF SameAt
  <2>3. ConceptCall(d, p)'
    BY <1>1, <1>2, <1>6, <2>1, <2>2 DEF ConceptCall
  <2> QED  BY <1>1, <1>6, <2>1, <2>2, <2>3, OneMoved
<1>7. CASE Look(c)
  <2>1. c.k = Sent(imp.bundle[p]) /\ AsFound(p) /\ c.step = "sent" /\ ~imp.dry /\ held' = held
    BY <1>0, <1>3, <1>7 DEF Look, ConceptCall, Accepted
  <2>2. SameAt(p)
    BY <2>1 DEF SameAt
  <2>3. CASE Refusal(c) \in {"too large", "forbidden", "invalid"}
    BY <1>2, <1>4, <1>5, <1>7, <2>1, <2>2, <2>3, <1>0
    DEF Look, Answer, FateOf, Verdict, Accepted
  <2>4. CASE Refusal(c) = "missing" \/ (Refusal(c) = "none" /\ ~Here(p))
    <3>1. Goes(c, "create", c.k)
      BY <1>0, <1>7, <2>1, <2>4 DEF Look
    <3>2. \/ RefusalOf(imp.bundle, p) = "missing"
          \/ RefusalOf(imp.bundle, p) = "none" /\ p \notin DOMAIN imp.from
      BY <1>4, <2>1, <2>4 DEF AsFound, Here
    <3> QED  BY <1>6, <2>1, <3>1, <3>2
  <2>5. CASE Refusal(c) = "none" /\ Here(p)
    <3>1. p \in DOMAIN imp.from /\ held[p] = imp.from[p]
      BY <2>1, <2>5 DEF AsFound, Here
    <3>2. Settled(c.k, held[p]) = LeftOf(p)
      BY <2>1, <3>1 DEF LeftOf, Became
    <3>3. FateOf(p) = IF SameDocument(LeftOf(p), held[p]) THEN "unchanged" ELSE "updated"
      BY <1>4, <2>5, <3>1 DEF FateOf, LeftOf, Verdict
    <3>4. CASE SameDocument(LeftOf(p), held[p])
      <4>1. Answers(c, "unchanged", held[p].claim)
        BY <1>0, <1>7, <2>5, <3>2, <3>4 DEF Look
      <4>2. Written(p)
        BY <2>5, <3>4, SettledKeeps DEF Written, SameDocument, LeftOf
      <4>3. held[p].claim = LeftOf(p).claim
        BY <3>4 DEF SameDocument
      <4>4. Written(p)' /\ AsFound(p)'
        BY <1>2, <2>1, <2>2, <4>2
      <4>5. FateOf(p) = "unchanged"
        BY <3>3, <3>4
      <4> QED  BY <1>5, <2>2, <4>1, <4>3, <4>4, <4>5
    <3>5. CASE ~SameDocument(LeftOf(p), held[p])
      <4>1. Goes(c, "write", LeftOf(p))
        BY <1>0, <1>7, <2>1, <2>5, <3>2, <3>5 DEF Look
      <4>2. FateOf(p) = "updated"
        BY <3>3, <3>5
      <4> QED  BY <1>6, <2>1, <4>1, <4>2
    <3> QED  BY <3>4, <3>5
  <2> QED
    BY <1>4, <2>3, <2>4, <2>5, VerdictsAre
<1>8. CASE Write(c)
  <2>1. c.k = LeftOf(p) /\ AsFound(p) /\ FateOf(p) = "updated" /\ ~imp.dry
    BY <1>0, <1>3, <1>8 DEF Write, ConceptCall, Accepted
  <2>2. p \in DOMAIN imp.from /\ Here(p)
    BY <2>1 DEF FateOf, Verdict, AsFound, Here, RefusalOf, Barred
  <2>3. Stamped(p, c.k, "me") /\ Answers(c, "updated", c.k.claim)
    BY <1>0, <1>8, <2>2 DEF Write
  <2>4. /\ p \in DOMAIN held' /\ held'[p].says = c.k.says /\ held'[p].links = c.k.links
        /\ held'[p].claim = c.k.claim
    BY <2>3 DEF Stamped, With
  <2>5. Written(p)'
    BY <1>1, <1>2, <2>1, <2>4, SettledKeeps DEF Written, Here, LeftOf
  <2> QED  BY <1>5, <2>1, <2>3, <2>5
<1>9. CASE Create(c)
  <2>1. /\ c.k = Sent(imp.bundle[p]) /\ AsFound(p) /\ ~imp.dry
        /\ \/ RefusalOf(imp.bundle, p) = "missing"
           \/ RefusalOf(imp.bundle, p) = "none" /\ p \notin DOMAIN imp.from
    BY <1>0, <1>3, <1>9 DEF Create, ConceptCall, Accepted
  <2>2. CASE RefusalOf(imp.bundle, p) = "missing"
    <3>1. Answer(c, "missing") /\ held' = held
      BY <1>4, <1>9, <2>2 DEF Create
    <3>2. FateOf(p) = "missing"
      BY <2>2 DEF FateOf, Verdict
    <3>3. AsFound(p)'
      BY <1>2, <2>1, <3>1 DEF SameAt
    <3> QED  BY <1>5, <2>1, <3>1, <3>2, <3>3 DEF Answer, Accepted
  <2>3. CASE RefusalOf(imp.bundle, p) = "none" /\ p \notin DOMAIN imp.from
    <3>1. Stamped(p, c.k, "me") /\ Answers(c, "created", c.k.claim)
      BY <1>0, <1>4, <1>9, <2>1, <2>3 DEF Create, AsFound, Here
    <3>2. /\ p \in DOMAIN held' /\ held'[p].says = c.k.says /\ held'[p].links = c.k.links
          /\ held'[p].claim = c.k.claim
      BY <3>1 DEF Stamped, With
    <3>3. LeftOf(p) = c.k /\ FateOf(p) = "created"
      BY <2>1, <2>3 DEF LeftOf, Became, FateOf, Verdict
    <3>4. Written(p)'
      BY <1>1, <1>2, <3>2, <3>3, SettledKeeps DEF Written, Here, LeftOf
    <3> QED  BY <1>5, <2>1, <3>1, <3>3, <3>4
  <2> QED  BY <2>1, <2>2, <2>3
<1>10. CASE Plan(c)
  <2>1. c.k = Sent(imp.bundle[p]) /\ AsFound(p) /\ imp.dry /\ held' = held
    BY <1>0, <1>3, <1>10 DEF Plan, ConceptCall, Accepted
  <2>2. SameAt(p) /\ AsFound(p)'
    BY <1>2, <2>1 DEF SameAt
  <2>3. CASE Refusal(c) # "none"
    <3>1. Answer(c, Refusal(c))
      BY <1>10, <2>3 DEF Plan, PlanRefusal
    <3>2. Refusal(c) = FateOf(p) /\ Refusal(c) \notin Accepted
      BY <1>4, <2>3, VerdictsAre DEF FateOf, Verdict, Accepted
    <3> QED  BY <1>5, <2>1, <2>2, <3>1, <3>2 DEF Answer
  <2>4. CASE Refusal(c) = "none" /\ ~Here(p)
    <3>1. Answers(c, "created", c.k.claim)
      BY <1>0, <1>10, <2>4 DEF Plan, PlanRefusal
    <3>2. FateOf(p) = "created" /\ LeftOf(p) = c.k
      BY <1>4, <2>1, <2>4 DEF FateOf, Verdict, LeftOf, Became, AsFound, Here
    <3> QED  BY <1>5, <2>1, <2>2, <3>1, <3>2
  <2>5. CASE Refusal(c) = "none" /\ Here(p)
    <3>1. p \in DOMAIN imp.from /\ held[p] = imp.from[p]
      BY <2>1, <2>5 DEF AsFound, Here
    <3>2. Settled(c.k, held[p]) = LeftOf(p)
      BY <2>1, <3>1 DEF LeftOf, Became
    <3>3. FateOf(p) = IF SameDocument(LeftOf(p), held[p]) THEN "unchanged" ELSE "updated"
      BY <1>4, <2>5, <3>1 DEF FateOf, LeftOf, Verdict
    <3>4. Answers(c, FateOf(p), LeftOf(p).claim)
      BY <1>0, <1>10, <2>5, <3>2, <3>3 DEF Plan, PlanRefusal
    <3> QED  BY <1>5, <2>1, <2>2, <3>4
  <2> QED  BY <2>3, <2>4, <2>5
<1>11. CASE PutFile(c) \/ Describe(c)
  BY <1>0, <1>11 DEF PutFile, Describe
<1> QED  BY <1>7, <1>8, <1>9, <1>10, <1>11 DEF Serves

\* A call of another task writes elsewhere.
LEMMA ServedElsewhere ==
  ASSUME Orderly, NEW p, IsMarkdown(p), NEW c \in calls, c.task # ConceptTask(p), Serves(c)
  PROVE  SameAt(p)
<1>1. CASE Write(c) \/ Create(c)
  <2>1. c.task.op = "concept"
    BY <1>1 DEF Write, Create, Orderly, Verdicts
  <2>2. c.task.path # p
    BY <2>1, TasksAre DEF Orderly, ConceptTask
  <2>3. held' = held \/ Stamped(c.task.path, c.k, "me")
    BY <1>1 DEF Write, Create
  <2> QED  BY <2>2, <2>3 DEF Stamped, With, SameAt
<1>2. CASE PutFile(c)
  <2> DEFINE q == Unclaimed(imp.bundle, c.task.path)
  <2>1. held' = held \/ (FileRefusal(q) = "none" /\ held' = With(held, q, FileRow(c.k.says)))
    BY <1>2 DEF PutFile
  <2>2. FileRefusal(q) = "none" => q # p
    BY DEF FileRefusal
  <2> QED  BY <2>1, <2>2 DEF With, SameAt
<1>3. CASE Look(c) \/ Plan(c) \/ Describe(c)
  BY <1>3 DEF Look, Plan, Describe, SameAt
<1> QED  BY <1>1, <1>2, <1>3 DEF Serves

\* Another's request served leaves the concept where it was.
LEMMA ServedBeside ==
  ASSUME Orderly, NEW p, IsMarkdown(p), ConceptGoes(p),
         NEW c \in calls, c.task # ConceptTask(p), Serves(c)
  PROVE  ConceptGoes(p)'
<1>1. SameAt(p) /\ GoesOn(c)
  BY ServedElsewhere, OneCallMoves
<1>2. PICK d : calls' = (calls \ {c}) \cup {d} /\ d.task = c.task
  BY <1>1 DEF GoesOn, GoesOnAs
<1>3. UNCHANGED <<imp, site>> /\ SameRun
  BY <1>1 DEF GoesOn, SameRun
<1>4. Undisturbed(p)
  BY <1>1, <1>2, <1>3 DEF Undisturbed
<1> QED  BY <1>4, ConceptRests

\* An answer heard is the verdict on its concept, and on no other.
LEMMA HeardSays ==
  ASSUME Orderly, NEW c \in calls, Hear(c), c.task.op = "concept"
  PROVE  \/ /\ c.step \in Accepted /\ imp'.failed = imp.failed /\ imp'.refused = imp.refused
            /\ imp'.skipped = imp.skipped
            /\ imp'.noted = IF Claims(imp.bundle[c.task.path]) /\ c.claim # None
                            THEN imp.noted \cup {c.task.path} ELSE imp.noted
         \/ /\ c.step = "invalid" /\ imp'.failed = imp.failed /\ imp'.noted = imp.noted
            /\ imp'.refused = imp.refused \cup {c.task.path}
            /\ imp'.skipped = imp.skipped \cup {c.task.path}
         \/ /\ c.step \notin Accepted \cup {"invalid"} /\ imp'.failed /\ imp'.noted = imp.noted
            /\ imp'.refused = imp.refused /\ imp'.skipped = imp.skipped
<1>1. imp' = AfterConcept(c) /\ DOMAIN imp = DOMAIN NoImport /\ DOMAIN imp.tally = DOMAIN NoTally
  BY DEF Hear, Orderly
<1>2. CASE c.step \in Accepted
  BY <1>1, <1>2, BeginFields DEF AfterConcept, Accepted
<1>3. CASE c.step = "invalid"
  BY <1>1, <1>3, BeginFields DEF AfterConcept, Accepted, Skipped
<1>4. CASE c.step \notin Accepted \cup {"invalid"}
  BY <1>1, <1>4, BeginFields DEF AfterConcept, Accepted, Failed
<1> QED  BY <1>2, <1>3, <1>4

\* Only the answer of a concept's request notes a claim or a refusal.
LEMMA OthersHeard ==
  ASSUME Orderly, NEW c \in calls, Hear(c) \/ Lose(c), c.task.op # "concept" \/ ~Hear(c)
  PROVE  /\ imp'.noted = imp.noted /\ imp'.refused = imp.refused
         /\ imp.skipped \subseteq imp'.skipped
<1>1. DOMAIN imp = DOMAIN NoImport /\ DOMAIN imp.tally = DOMAIN NoTally
  BY DEF Orderly
<1>2. CASE Lose(c)
  BY <1>1, <1>2, BeginFields DEF Lose
<1>3. CASE Hear(c) /\ c.task.op # "concept"
  <2>1. imp' = AfterIndex(c) \/ imp' = AfterFile(c)
    BY <1>3 DEF Hear
  <2> DEFINE Same(i) == i.noted = imp.noted /\ i.refused = imp.refused /\ imp.skipped \subseteq i.skipped
  <2>2. Same(imp) /\ Same(Failed)
    BY <1>1, BeginFields DEF Failed
  <2>3. Same(Skipped(c))
    BY <1>1, <1>3, BeginFields DEF Skipped
  <2>4. \A x \in DOMAIN NoTally : Same(Tallied(c, x))
    BY <1>1, BeginFields DEF Tallied
  <2>5. Same(AfterIndex(c)) /\ Same(AfterFile(c))
    BY <2>2, <2>3, <2>4, BeginFields DEF AfterIndex, AfterFile
  <2> QED
    BY <2>1, <2>5
<1> QED  BY <1>2, <1>3

\* An answer heard or lost takes the concept where its verdict says.
LEMMA ConceptHeard ==
  ASSUME Orderly, NEW p, ConceptGoes(p), NEW c \in calls, Hear(c) \/ Lose(c)
  PROVE  ConceptGoes(p)'
<1>1. /\ calls' = calls \ {c} /\ imp'.left = imp.left /\ imp'.dry = imp.dry
      /\ imp.failed => imp'.failed
      /\ SameRun /\ SameAt(p)
  <2>1. DOMAIN imp = DOMAIN NoImport /\ DOMAIN imp.tally = DOMAIN NoTally
    BY DEF Orderly
  <2> QED  BY <2>1, HearKeeps DEF SameRun, SameAt
<1>2. CASE c.task # ConceptTask(p)
  <2>1. CASE c.task.op # "concept" \/ ~Hear(c)
    <3>1. Undisturbed(p)
      BY <1>1, <1>2, <2>1, OthersHeard DEF Undisturbed
    <3> QED  BY <3>1, ConceptRests
  <2>2. CASE c.task.op = "concept" /\ Hear(c)
    <3>1. c.task.path # p
      BY <1>2, <2>2, TasksAre DEF Orderly, ConceptTask
    <3>2. Undisturbed(p)
      BY <1>1, <1>2, <2>2, <3>1, HeardSays DEF Undisturbed
    <3> QED  BY <3>2, ConceptRests
  <2> QED  BY <2>1, <2>2
<1>3. CASE c.task = ConceptTask(p)
  <2>1. c.task.op = "concept" /\ c.task.path = p /\ ConceptTask(p) \notin imp.left
    BY <1>3 DEF ConceptTask, Orderly
  <2>2. ConceptCall(c, p) /\ InCall(ConceptTask(p)) /\ ~InCall(ConceptTask(p))'
    BY <1>1, <1>3 DEF ConceptGoes, InCall, Orderly
  <2>3. p \notin imp.noted \cup imp.refused
    BY <2>2 DEF ConceptGoes
  <2>4. imp.dry => AsFound(p)'
    BY <1>1, SameFound DEF ConceptGoes
  <2>5. \A d \in calls' : d.task # ConceptTask(p)
    BY <2>2 DEF InCall
  <2>6. ~imp'.failed => HeardConcept(p)'
    <3>1. SUFFICES ASSUME ~imp'.failed PROVE HeardConcept(p)'
      OBVIOUS
    <3>2. Hear(c) /\ c.step \in Accepted \cup {"invalid"}
      <4>1. Hear(c)
        BY <3>1, BeginFields DEF Lose, Orderly
      <4> QED  BY <2>1, <3>1, <4>1, HeardSays
    <3>3. /\ c.step = FateOf(p)
          /\ c.step \in Accepted => c.claim = LeftOf(p).claim
          /\ c.step \in Accepted /\ ~imp.dry => Written(p)
          /\ c.step \notin {"created", "updated"} => AsFound(p)
      BY <2>2, <3>2 DEF ConceptCall, Accepted
    <3>4. /\ FateOf(p)' = FateOf(p) /\ LeftOf(p)' = LeftOf(p)
          /\ AsFound(p)' = AsFound(p) /\ Written(p)' = Written(p) /\ imp'.bundle = imp.bundle
      BY <1>1, SameFate, SameFound DEF SameRun
    <3>5. p \in imp'.noted <=> /\ c.step \in Accepted /\ Claims(imp.bundle[p]) /\ c.claim # None
      BY <2>1, <2>3, <3>2, HeardSays DEF Accepted
    <3>6. p \in imp'.refused <=> c.step = "invalid"
      BY <2>1, <2>3, <3>2, HeardSays DEF Accepted
    <3> QED
      BY <1>1, <3>2, <3>3, <3>4, <3>5, <3>6 DEF HeardConcept
  <2> QED
    BY <1>1, <2>1, <2>2, <2>4, <2>5, <2>6 DEF ConceptGoes
<1> QED  BY <1>2, <1>3

\* Every step keeps the claims noted those of the bundle.
LEMMA NotingStep ==
  ASSUME Orderly, Noting, [Next]_vars
  PROVE  Noting'
<1>0. DOMAIN imp = DOMAIN NoImport /\ DOMAIN imp.tally = DOMAIN NoTally
  BY DEF Orderly
<1>1. CASE Others
  <2>1. PICK p : imp' = imp \/ imp' = [imp EXCEPT !.touched = @ \cup {p}]
    BY <1>0, <1>1, OthersTouch
  <2> QED  BY <1>0, <2>1, BeginFields DEF Noting
<1>2. CASE Exports \/ UNCHANGED vars
  BY <1>2 DEF Exports, Snapshot, WriteListings, WriteConcepts, CloseArchive, Cut, WriteFile,
     OutOnly, Noting, vars
<1>3. ASSUME NEW b, NEW dry, NEW strict, Begin(b, dry, strict) PROVE Noting'
  BY <1>3, BeginSays DEF Noting
<1>4. CASE \E t \in imp.left : Send(t)
  BY <1>0, <1>4, BeginFields DEF Send, Noting
<1>5. CASE \E c \in calls : Serves(c)
  BY <1>5, OneCallMoves DEF GoesOn, Noting
<1>6. ASSUME NEW c \in calls, Hear(c) \/ Lose(c) PROVE Noting'
  <2>1. imp'.bundle = imp.bundle
    BY <1>0, <1>6, HearKeeps
  <2>2. CASE c.task.op # "concept" \/ ~Hear(c)
    BY <1>6, <2>1, <2>2, OthersHeard DEF Noting
  <2>3. CASE c.task.op = "concept" /\ Hear(c)
    <3>1. c.task.path \in ConceptsOf(imp.bundle)
      BY <2>3, TasksAre DEF Orderly
    <3> QED  BY <2>1, <2>3, <3>1, HeardSays DEF Noting
  <2> QED  BY <2>2, <2>3
<1>7. CASE NextPhase \/ Abort
  BY <1>0, <1>7, PhaseSays DEF Noting
<1> QED
  BY <1>1, <1>2, <1>3, <1>4, <1>5, <1>6, <1>7 DEF Next, Imports, Serves

\* An import that begins leaves every concept to send.
LEMMA ConceptBegun ==
  ASSUME Orderly, NEW b, NEW dry, NEW strict, Begin(b, dry, strict), NEW p \in ConceptsOf(b),
         imp'.phase = "concepts"
  PROVE  ConceptGoes(p)'
<1>1. /\ imp'.left = Concepts(b) /\ calls' = {} /\ imp'.noted = {} /\ imp'.refused = {}
      /\ imp'.from = held /\ held' = held
  BY BeginSays, NobodyWaits
<1>2. ConceptTask(p) \in imp'.left
  BY <1>1 DEF Concepts, ConceptTask
<1>3. AsFound(p)'
  BY <1>1 DEF AsFound
<1> QED  BY <1>1, <1>2, <1>3 DEF ConceptGoes, InCall

\* Whatever comes after the concepts leaves them be.
LEMMA ConceptPassed ==
  ASSUME Orderly, NEW p, ConceptGoes(p), NextPhase \/ Abort, Running'
  PROVE  ConceptGoes(p)'
<1>1. DOMAIN imp = DOMAIN NoImport
  BY DEF Orderly
<1>2. /\ ~imp.failed /\ imp.left = {} /\ calls = {} /\ calls' = {} /\ imp'.failed = imp.failed
      /\ imp'.left = TasksOf(NextOf(imp.phase), imp.bundle)
      /\ imp'.noted = imp.noted /\ imp'.refused = imp.refused
      /\ SameRun /\ SameAt(p)
  BY <1>1, PhaseSays DEF Running, SameRun, SameAt
<1>3. ConceptTask(p) \notin imp'.left
  <2>1. ASSUME ConceptTask(p) \in imp'.left PROVE FALSE
    <3>1. NextOf(imp.phase) # "concepts" /\ ConceptTask(p).op = "concept"
      BY DEF NextOf, ConceptTask
    <3>2. ConceptTask(p) \in Current(NextOf(imp.phase), imp.bundle)
      BY <1>2, <2>1, <3>1 DEF Current
    <3> QED  BY <3>1, <3>2, TasksAre
  <2> QED  BY <2>1
<1>4. Undisturbed(p)
  BY <1>2, <1>3 DEF Undisturbed
<1> QED  BY <1>4, ConceptRests

\* Others' writes disturb only what they touch.
LEMMA ConceptTouched ==
  ASSUME Orderly, NEW p, ConceptGoes(p), Others, p \notin imp'.touched
  PROVE  ConceptGoes(p)'
<1>1. DOMAIN imp = DOMAIN NoImport
  BY DEF Orderly
<1>2. SameAt(p)
  <2>1. ASSUME NEW q, Edit(q) \/ Confirm(q) \/ Delete(q) \/ Upload(q) PROVE SameAt(p)
    <3>1. q # p
      BY <1>1, <2>1, BeginFields DEF Edit, Confirm, Delete, Upload, Theirs
    <3> QED
      BY <2>1, <3>1 DEF Edit, Confirm, Delete, Upload, Stamped, With, Without, SameAt
  <2>2. ASSUME NEW x, Sweep(x) PROVE SameAt(p)
    BY <2>2 DEF Sweep, SameAt
  <2> QED  BY <2>1, <2>2 DEF Others
<1>3. /\ imp'.left = imp.left /\ imp'.noted = imp.noted /\ imp'.refused = imp.refused
      /\ imp'.failed = imp.failed /\ calls' = calls /\ SameRun
  BY <1>1, OthersTouch, BeginFields DEF SameRun
<1>4. Undisturbed(p)
  BY <1>2, <1>3 DEF Undisturbed
<1> QED  BY <1>4, ConceptRests

\* Every step takes every concept along its way.
LEMMA ConceptsGoStep == Orderly /\ ConceptsGo /\ [Next]_vars => ConceptsGo'
<1> SUFFICES ASSUME Orderly, ConceptsGo, [Next]_vars PROVE ConceptsGo'
  OBVIOUS
<1>0. DOMAIN imp = DOMAIN NoImport /\ DOMAIN imp.tally = DOMAIN NoTally
  BY DEF Orderly
<1>1. Noting'
  BY NotingStep DEF ConceptsGo
<1>2. ASSUME Running', NEW p \in ConceptsOf(imp'.bundle) \ imp'.touched
      PROVE  ConceptGoes(p)'
  <2>1. ASSUME NEW b, NEW dry, NEW strict, Begin(b, dry, strict) PROVE ConceptGoes(p)'
    <3>1. imp'.phase = "concepts" /\ imp'.bundle = b
      BY <1>2, <2>1, BeginSays DEF Running
    <3> QED  BY <1>2, <2>1, <3>1, ConceptBegun
  <2>2. CASE /\ imp'.bundle = imp.bundle /\ imp.touched \subseteq imp'.touched
             /\ Running
    <3>1. ConceptGoes(p) /\ IsMarkdown(p)
      BY <1>2, <2>2 DEF ConceptsGo, ConceptsOf
    <3>2. CASE Others
      BY <1>2, <3>1, <3>2, ConceptTouched
    <3>3. CASE Exports \/ UNCHANGED vars
      <4>1. held' = held /\ imp' = imp /\ calls' = calls /\ site' = site
        BY <3>3 DEF Exports, Snapshot, WriteListings, WriteConcepts, CloseArchive, Cut, WriteFile,
           OutOnly, base, vars
      <4>2. Undisturbed(p)
        BY <4>1 DEF Undisturbed, SameAt, SameRun
      <4> QED  BY <3>1, <4>2, ConceptRests
    <3>4. CASE \E t \in imp.left : Send(t)
      BY <3>1, <3>4, ConceptSent
    <3>5. CASE \E c \in calls : Serves(c)
      BY <3>1, <3>5, ConceptServed, ServedBeside
    <3>6. CASE \E c \in calls : Hear(c) \/ Lose(c)
      BY <3>1, <3>6, ConceptHeard
    <3>7. CASE NextPhase \/ Abort
      BY <1>2, <3>1, <3>7, ConceptPassed
    <3> QED
      BY <2>1, <3>2, <3>3, <3>4, <3>5, <3>6, <3>7 DEF Next, Imports, Serves
  <2>3. \/ \E b, dry, strict : Begin(b, dry, strict)
        \/ /\ imp'.bundle = imp.bundle /\ imp.touched \subseteq imp'.touched
           /\ Running
    <3>1. CASE Others
      BY <1>0, <1>2, <3>1, OthersTouch, BeginFields DEF Running
    <3>2. CASE Exports \/ UNCHANGED vars
      BY <1>2, <3>2 DEF Exports, Snapshot, WriteListings, WriteConcepts, CloseArchive, Cut, WriteFile,
         OutOnly, vars, Running
    <3>3. CASE \E t \in imp.left : Send(t)
      BY <1>0, <1>2, <3>3, BeginFields DEF Send, Running
    <3>4. CASE \E c \in calls : Serves(c)
      BY <1>2, <3>4, OneCallMoves DEF GoesOn, Running
    <3>5. CASE \E c \in calls : Hear(c) \/ Lose(c)
      BY <1>0, <1>2, <3>5, HearKeeps DEF Running
    <3>6. CASE NextPhase \/ Abort
      BY <1>0, <1>2, <3>6, PhaseSays DEF Running
    <3> QED
      BY <3>1, <3>2, <3>3, <3>4, <3>5, <3>6 DEF Next, Imports, Serves
  <2> QED  BY <2>1, <2>2, <2>3
<1> QED  BY <1>1, <1>2 DEF ConceptsGo

\* It holds of every behaviour.
LEMMA ConceptsGone == Spec => [](Orderly /\ ConceptsGo)
<1>1. Init => Orderly /\ ConceptsGo
  BY Initially DEF Init, ConceptsGo, Noting, Running, NoImport
<1>2. (Orderly /\ ConceptsGo) /\ [Next]_vars => (Orderly /\ ConceptsGo)'
  BY OrderlyStep, ConceptsGoStep
<1> QED  BY <1>1, <1>2, PTL DEF Spec

\* At the end of a run every concept of the bundle was heard of.
LEMMA ConceptsEnd ==
  ASSUME Orderly, ConceptsGo, imp.phase = "done", NEW p \in ConceptsOf(imp.bundle) \ imp.touched
  PROVE  HeardConcept(p)
<1>1. calls = {} /\ imp.left = {} /\ ~imp.failed
  BY NobodyWaits DEF Orderly
<1> QED  BY <1>1 DEF ConceptsGo, ConceptGoes, Running, InCall

\* An import raises exactly the claims of the documents it took in, the ones
\* that say what this base itself observed set aside (okf.Settle, KeptClaims).
THEOREM ClaimsStay == Spec => []ClaimsAreKept
<1>1. Orderly /\ ConceptsGo => ClaimsAreKept
  <2> SUFFICES ASSUME Orderly, ConceptsGo, Imported,
                      NEW p \in ConceptsOf(imp.bundle) \ (imp.refused \cup imp.touched)
               PROVE  LET doc == imp.bundle[p]
                          own == p \in DOMAIN imp.from /\ IsObservation(ClaimIn(doc), imp.from[p])
                      IN /\ ~own => held[p].claim = ClaimIn(doc)
                         /\ p \in imp.noted <=> Claims(doc) /\ ~own
    BY DEF ClaimsAreKept
  <2>1. HeardConcept(p) /\ ~imp.dry
    BY ConceptsEnd DEF Imported
  <2>2. FateOf(p) \in Accepted
    BY <2>1 DEF HeardConcept
  <2>3. held[p].claim = LeftOf(p).claim
    BY <2>1, <2>2 DEF HeardConcept, Written
  <2>4. LeftOf(p).claim =
          IF p \in DOMAIN imp.from /\ IsObservation(ClaimIn(imp.bundle[p]), imp.from[p]) THEN None
          ELSE ClaimIn(imp.bundle[p])
    BY SettledKeeps DEF LeftOf
  <2>5. p \in imp.noted <=> Claims(imp.bundle[p]) /\ LeftOf(p).claim # None
    BY <2>1, <2>2 DEF HeardConcept
  <2>6. Claims(imp.bundle[p]) => ClaimIn(imp.bundle[p]) # None
    BY DEF Claims, ClaimIn
  <2> QED  BY <2>3, <2>4, <2>5, <2>6
<1> QED  BY <1>1, ConceptsGone, PTL

-----------------------------------------------------------------------------
(* The tasks a run has heard of.                                             *)

Early(phase, b) ==
  CASE phase = "attributed" -> Concepts(b)
    [] phase = "loose" -> Concepts(b) \cup Attributions(b)
    [] phase = "indexes" -> Concepts(b) \cup Attributions(b) \cup Loose(b)
    [] phase = "done" -> Concepts(b) \cup Attributions(b) \cup Loose(b) \cup Indexes(b)
    [] OTHER -> {}
Heard == Early(imp.phase, imp.bundle)
           \cup {t \in Current(imp.phase, imp.bundle) : t \notin imp.left /\ ~InCall(t)}
AllTasks(b) == Concepts(b) \cup Attributions(b) \cup Loose(b) \cup Indexes(b)

\* The requests of the phases so far, one phase after the other.
LEMMA EarlyIs ==
  ASSUME NEW b, NEW phase
  PROVE  /\ Early(phase, b) \cap Current(phase, b) = {}
         /\ Early(phase, b) \cup Current(phase, b) \subseteq AllTasks(b)
         /\ Early("done", b) = AllTasks(b)
         /\ phase \in {"concepts", "attributed", "loose", "indexes"} =>
              Early(NextOf(phase), b) = Early(phase, b) \cup Current(phase, b)
<1>1. /\ \A t \in Concepts(b) : t.op = "concept"
      /\ \A t \in Attributions(b) : t.op = "attributed"
      /\ \A t \in Loose(b) : t.op = "loose"
      /\ \A t \in Indexes(b) : t.op = "index"
  <2>1. \A t \in Attributions(b) : t.op = "attributed"
    <3> SUFFICES ASSUME NEW t \in Attributions(b) PROVE t.op = "attributed"
      OBVIOUS
    <3>1. \E c \in ConceptsOf(b) : \E p : t = [op |-> "attributed", path |-> p, of |-> c]
      BY DEF Attributions
    <3> QED  BY <3>1
  <2> QED  BY <2>1 DEF Concepts, Loose, Indexes
<1> QED  BY <1>1 DEF Early, Current, TasksOf, AllTasks, NextOf

\* What was heard changes only with what is left or in flight.
LEMMA HeardRests ==
  ASSUME imp'.phase = imp.phase, imp'.bundle = imp.bundle,
         \A t : (t \in imp.left \/ InCall(t)) <=> (t \in imp'.left \/ InCall(t)')
  PROVE  Heard' = Heard
BY DEF Heard

\* A request sent is not an answer heard.
LEMMA HeardSent ==
  ASSUME Orderly, NEW t \in imp.left, Send(t)
  PROVE  Heard' = Heard
<1>1. /\ imp'.left = imp.left \ {t} /\ imp'.phase = imp.phase /\ imp'.bundle = imp.bundle
  BY BeginFields DEF Send, Orderly
<1>2. PICK d : calls' = calls \cup {d} /\ d.task = t
  BY OneSent
<1>3. \A u : InCall(u)' <=> InCall(u) \/ u = t
  BY <1>2 DEF InCall
<1> QED  BY <1>1, <1>3, HeardRests

\* A request served is not an answer heard.
LEMMA HeardServed ==
  ASSUME Orderly, NEW c \in calls, Serves(c)
  PROVE  Heard' = Heard
<1>1. PICK d : calls' = (calls \ {c}) \cup {d} /\ d.task = c.task
  BY OneCallMoves DEF GoesOn, GoesOnAs
<1>2. imp' = imp
  BY OneCallMoves DEF GoesOn
<1>3. \A u : InCall(u)' <=> InCall(u)
  BY <1>1 DEF InCall
<1> QED  BY <1>2, <1>3, HeardRests

\* An answer that comes, or is lost, is heard once.
LEMMA HeardHeard ==
  ASSUME Orderly, NEW c \in calls, Hear(c) \/ Lose(c)
  PROVE  /\ c.task \notin Heard /\ Heard' = Heard \cup {c.task}
<1>1. /\ calls' = calls \ {c} /\ imp'.left = imp.left /\ imp'.phase = imp.phase
      /\ imp'.bundle = imp.bundle
  BY HearKeeps DEF Orderly
<1>2. c.task \in Current(imp.phase, imp.bundle) \ imp.left /\ InCall(c.task)
  BY DEF Orderly, InCall
<1>3. \A u : InCall(u)' <=> InCall(u) /\ u # c.task
  BY <1>1 DEF InCall, Orderly
<1>4. c.task \notin Heard
  BY <1>2, EarlyIs DEF Heard
<1> QED  BY <1>1, <1>2, <1>3, <1>4 DEF Heard

\* A phase that passes hears nothing.
LEMMA HeardPassed ==
  ASSUME Orderly, NextPhase \/ Abort, Running'
  PROVE  Heard' = Heard
<1>1. /\ ~imp.failed /\ imp.left = {} /\ calls = {} /\ calls' = {}
      /\ imp.phase \in {"concepts", "attributed", "loose", "indexes"}
      /\ imp'.phase = NextOf(imp.phase) /\ imp'.bundle = imp.bundle
      /\ imp'.left = TasksOf(NextOf(imp.phase), imp.bundle)
  BY PhaseSays DEF Orderly, Running
<1>2. Heard = Early(imp.phase, imp.bundle) \cup Current(imp.phase, imp.bundle)
  BY <1>1 DEF Heard, InCall
<1>3. NextOf(imp.phase) # "concepts"
  BY DEF NextOf
<1>4. imp'.left = Current(imp'.phase, imp'.bundle)
  BY <1>1, <1>3 DEF Current
<1>5. Heard' = Early(imp'.phase, imp'.bundle)
  BY <1>4 DEF Heard
<1> QED  BY <1>1, <1>2, <1>5, EarlyIs

\* An import that begins has heard nothing.
LEMMA HeardBegun ==
  ASSUME Orderly, NEW b, NEW dry, NEW strict, Begin(b, dry, strict)
  PROVE  Heard' = {}
<1>1. /\ calls' = {} /\ imp'.bundle = b
      /\ \/ imp'.phase = "concepts" /\ imp'.left = Concepts(b)
         \/ imp'.phase = "refused"
  BY BeginSays, NobodyWaits
<1> QED  BY <1>1 DEF Heard, Early, Current, TasksOf

\* An import that is done has heard of every request.
LEMMA HeardAtLast ==
  ASSUME Orderly, imp.phase = "done"
  PROVE  Heard = AllTasks(imp.bundle)
BY EarlyIs DEF Heard, Current, TasksOf

-----------------------------------------------------------------------------
(* What becomes of the files.                                                *)

FileTasks(b) == Attributions(b) \cup Loose(b)

\* No two files of a bundle are kept under one name.
NamesApart(b) ==
  \A t, u \in FileTasks(b) : Unclaimed(b, t.path) = Unclaimed(b, u.path) => t.path = u.path

FileVerdict(b, p) ==
  IF FileRefusal(Unclaimed(b, p)) # "none" THEN FileRefusal(Unclaimed(b, p)) ELSE "stored"
Stored(p) ==
  \/ Unclaimed(imp.bundle, p) \in imp.touched
  \/ /\ Here(Unclaimed(imp.bundle, p))
     /\ held[Unclaimed(imp.bundle, p)].says = imp.bundle[p].says

FileCall(c, p) ==
  \/ c.step = "sent" /\ c.k = Sent(imp.bundle[p])
  \/ /\ c.step = FileVerdict(imp.bundle, p)
     /\ c.step = "stored" /\ ~imp.dry => Stored(p)
HeardFile(p) ==
  IF FileVerdict(imp.bundle, p) = "stored" THEN imp.dry \/ Stored(p) ELSE p \in imp.skipped

FilesStay ==
  /\ ParseSkips(imp.bundle) \subseteq imp.skipped
  /\ \A c \in calls : c.task.op \in FileOps => FileCall(c, c.task.path)
  /\ ~imp.failed => \A t \in Heard : t.op \in FileOps => HeardFile(t.path)
FilesGo ==
  /\ \A b \in site.bundles \cup {imp.bundle} : NamesApart(b)
  /\ Running => FilesStay

\* The answers a file's request may get, and where a stored one goes.
LEMMA FileVerdictsAre ==
  ASSUME NEW b, NEW p
  PROVE  /\ FileVerdict(b, p) \in {"stored", "unsupported", "invalid", "forbidden", "missing"}
         /\ FileVerdict(b, p) = "stored" =>
              Addressable(Unclaimed(b, p)) /\ ~IsMarkdown(Unclaimed(b, p))
BY DEF FileVerdict, FileRefusal, Barred

\* A request of a file's kind, of any phase, is of a file of the bundle.
LEMMA FileTasksAre ==
  ASSUME NEW phase, NEW b, NEW t \in Early(phase, b) \cup Current(phase, b), t.op \in FileOps
  PROVE  t \in FileTasks(b)
<1>1. /\ \A u \in Concepts(b) : u.op = "concept"
      /\ \A u \in Indexes(b) : u.op = "index"
  BY DEF Concepts, Indexes
<1>2. Early(phase, b) \cup Current(phase, b) \subseteq AllTasks(b)
  BY EarlyIs
<1> QED  BY <1>1, <1>2 DEF AllTasks, FileTasks, FileOps

\* What is in an archive and was not generated is of the snapshot.
LEMMA ArchivePath ==
  ASSUME ArchiveInv, out.phase = "complete", NEW p \in DOMAIN out.archive, ~IsIndex(p), ~IsLog(p)
  PROVE  /\ p \in DOMAIN out.snap /\ Addressable(p)
         /\ p \in ConceptsOf(out.archive) <=> IsMarkdown(p)
         /\ out.archive[p] = IF IsMarkdown(p) THEN Document(out.snap[p]) ELSE FileDocument(out.snap[p])
<1>1. /\ p \in DOMAIN out.snap
      /\ out.archive[p] = IF IsMarkdown(p) THEN Document(out.snap[p]) ELSE FileDocument(out.snap[p])
  BY DEF ArchiveInv, Faithful
<1>2. Addressable(p)
  BY <1>1 DEF ArchiveInv, Remaining, Archiving, Fits, PathFits
<1>3. IsMarkdown(p) => out.archive[p].typed
  BY <1>1 DEF Document
<1> QED  BY <1>1, <1>2, <1>3 DEF ConceptsOf

\* An archive's files keep their names: whatever markdown is in it is a concept.
LEMMA ArchiveNames ==
  ASSUME ArchiveInv, out.phase = "complete"
  PROVE  NamesApart(out.archive)
<1>1. ASSUME NEW t \in FileTasks(out.archive) PROVE Unclaimed(out.archive, t.path) = t.path
  <2>1. CASE t \in Attributions(out.archive)
    <3>1. \E c \in ConceptsOf(out.archive) :
            t.path \in LinkedFiles(out.archive, c) \cup FilesBeneath(out.archive, c)
      BY <2>1 DEF Attributions
    <3>2. ~IsMarkdown(t.path)
      BY <3>1 DEF LinkedFiles, FilesBeneath, Attachable
    <3> QED  BY <3>2 DEF Unclaimed
  <2>2. CASE t \in Loose(out.archive)
    <3>0. t.path \in LooseOf(out.archive)
      BY <2>2 DEF Loose
    <3>1. t.path \in Rest(out.archive)
      BY <3>0 DEF LooseOf
    <3>2. /\ t.path \in DOMAIN out.archive /\ ~IsIndex(t.path) /\ ~IsLog(t.path)
          /\ t.path \notin ConceptsOf(out.archive)
      BY <3>1 DEF Rest
    <3>3. IsMarkdown(t.path) => t.path \in ConceptsOf(out.archive)
      BY <3>2, ArchivePath
    <3> QED  BY <3>2, <3>3 DEF Unclaimed
  <2> QED  BY <2>1, <2>2 DEF FileTasks
<1> QED  BY <1>1 DEF NamesApart

\* What is stored stays, unless it is somebody else's by now.
LEMMA StoredStays ==
  ASSUME Orderly, FilesStay, NamesApart(imp.bundle), NEW t \in FileTasks(imp.bundle),
         FileVerdict(imp.bundle, t.path) = "stored", Stored(t.path), imp'.bundle = imp.bundle,
         Others \/ (\E c \in calls : Serves(c)) \/ (held' = held /\ imp'.touched = imp.touched)
  PROVE  Stored(t.path)'
<1> DEFINE at == Unclaimed(imp.bundle, t.path)
<1>0. ~IsMarkdown(at)
  BY FileVerdictsAre
<1>1. CASE held' = held /\ imp'.touched = imp.touched
  BY <1>1 DEF Stored, Here
<1>2. CASE Others
  <2>1. DOMAIN imp = DOMAIN NoImport
    BY DEF Orderly
  <2>2. ASSUME NEW x, Sweep(x) PROVE Stored(t.path)'
    BY <1>1, <2>2 DEF Sweep
  <2>3. ASSUME NEW q, Edit(q) \/ Confirm(q) \/ Delete(q) \/ Upload(q) PROVE Stored(t.path)'
    <3>1. imp'.touched = imp.touched \cup {q}
      BY <2>1, <2>3, BeginFields DEF Edit, Confirm, Delete, Upload, Theirs
    <3>2. CASE at = q
      BY <3>1, <3>2 DEF Stored
    <3>3. CASE at # q
      <4>1. at \in DOMAIN held => at \in DOMAIN held' /\ held'[at] = held[at]
        BY <2>3, <3>3 DEF Edit, Confirm, Delete, Upload, Stamped, With, Without
      <4> QED  BY <3>1, <4>1 DEF Stored, Here
    <3> QED  BY <3>2, <3>3
  <2> QED  BY <1>2, <2>2, <2>3 DEF Others
<1>3. ASSUME NEW c \in calls, Serves(c) PROVE Stored(t.path)'
  <2>1. imp' = imp /\ c.task \in Current(imp.phase, imp.bundle)
    BY <1>3, OneCallMoves DEF GoesOn, Orderly
  <2>2. CASE Write(c) \/ Create(c)
    <3>1. c.task.op = "concept"
      BY <2>2 DEF Write, Create, Orderly, Verdicts
    <3>2. IsMarkdown(c.task.path)
      BY <2>1, <3>1, TasksAre DEF ConceptsOf
    <3>3. held' = held \/ Stamped(c.task.path, c.k, "me")
      BY <2>2 DEF Write, Create
    <3>4. at \in DOMAIN held => at \in DOMAIN held' /\ held'[at] = held[at]
      BY <1>0, <3>2, <3>3 DEF Stamped, With
    <3> QED  BY <2>1, <3>4 DEF Stored, Here
  <2>3. CASE PutFile(c)
    <3> DEFINE q == Unclaimed(imp.bundle, c.task.path)
    <3>1. c.task.op \in FileOps /\ c.step = "sent"
      BY <2>3 DEF PutFile, FileOps
    <3>2. c.k = Sent(imp.bundle[c.task.path])
      BY <3>1, FileVerdictsAre DEF FilesStay, FileCall
    <3>3. c.task \in FileTasks(imp.bundle)
      BY <2>1, <3>1, FileTasksAre
    <3>4. held' = held \/ held' = With(held, q, FileRow(c.k.says))
      BY <2>3 DEF PutFile
    <3>5. CASE q = at
      <4>1. c.task.path = t.path
        BY <3>3, <3>5 DEF NamesApart
      <4>2. c.k.says = imp.bundle[t.path].says
        BY <3>2, <4>1 DEF Sent
      <4> QED  BY <2>1, <3>4, <3>5, <4>2 DEF Stored, Here, With, FileRow
    <3>6. CASE q # at
      <4>1. at \in DOMAIN held => at \in DOMAIN held' /\ held'[at] = held[at]
        BY <3>4, <3>6 DEF With
      <4> QED  BY <2>1, <4>1 DEF Stored, Here
    <3> QED  BY <3>5, <3>6
  <2>4. CASE Look(c) \/ Plan(c) \/ Describe(c)
    BY <1>1, <2>1, <2>4 DEF Look, Plan, Describe
  <2> QED  BY <1>3, <2>2, <2>3, <2>4 DEF Serves
<1> QED  BY <1>1, <1>2, <1>3

\* What a file is to get does not change with the base.
LEMMA FileFateRests ==
  ASSUME NEW p, site' = site, imp'.bundle = imp.bundle
  PROVE  FileVerdict(imp.bundle, p)' = FileVerdict(imp.bundle, p)
BY DEF FileVerdict, FileRefusal, Barred

\* What was heard of a file stays so, whatever the step.
LEMMA FilesRest ==
  ASSUME Orderly, FilesStay, NamesApart(imp.bundle), NEW t \in FileTasks(imp.bundle),
         HeardFile(t.path), SameRun, imp.skipped \subseteq imp'.skipped,
         Others \/ (\E c \in calls : Serves(c)) \/ (held' = held /\ imp'.touched = imp.touched)
  PROVE  HeardFile(t.path)'
<1>1. FileVerdict(imp.bundle, t.path)' = FileVerdict(imp.bundle, t.path)
  BY FileFateRests DEF SameRun
<1>2. FileVerdict(imp.bundle, t.path) = "stored" /\ Stored(t.path) => Stored(t.path)'
  BY StoredStays DEF SameRun
<1> QED  BY <1>1, <1>2 DEF HeardFile, SameRun

\* A file's request in flight is undisturbed by others' requests.
LEMMA CallsRest ==
  ASSUME Orderly, FilesStay, NamesApart(imp.bundle), NEW c \in calls, c.task.op \in FileOps, SameRun,
         Others \/ (\E d \in calls : Serves(d)) \/ (held' = held /\ imp'.touched = imp.touched)
  PROVE  FileCall(c, c.task.path)'
<1>1. FileVerdict(imp.bundle, c.task.path)' = FileVerdict(imp.bundle, c.task.path)
  BY FileFateRests DEF SameRun
<1>2. c.task \in FileTasks(imp.bundle) /\ FileCall(c, c.task.path)
  BY FileTasksAre DEF Orderly, FilesStay
<1>3. FileVerdict(imp.bundle, c.task.path) = "stored" /\ Stored(c.task.path) => Stored(c.task.path)'
  BY <1>2, StoredStays DEF SameRun
<1> QED  BY <1>1, <1>2, <1>3 DEF FileCall, SameRun

\* A file put is answered with its verdict, and stored by then.
LEMMA FilePut ==
  ASSUME Orderly, FilesStay, NEW c \in calls, PutFile(c)
  PROVE  \E d : /\ calls' = (calls \ {c}) \cup {d} /\ d.task = c.task
                /\ FileCall(d, c.task.path)'
<1> DEFINE p == c.task.path
           at == Unclaimed(imp.bundle, p)
           v == FileVerdict(imp.bundle, p)
<1>1. c.task.op \in FileOps /\ c.step = "sent" /\ DOMAIN c = {"task", "step", "k", "claim"}
  BY DEF PutFile, FileOps, Orderly
<1>2. c.k = Sent(imp.bundle[p])
  BY <1>1, FileVerdictsAre DEF FilesStay, FileCall
<1>3. imp' = imp /\ site' = site
  BY DEF PutFile, Serve
<1>4. FileVerdict(imp.bundle, p)' = v
  BY <1>3, FileFateRests
<1>5. Answer(c, v)
  BY DEF PutFile, FileVerdict
<1>6. PICK d : /\ calls' = (calls \ {c}) \cup {d} /\ d.task = c.task /\ d.step = v
  <2> DEFINE e == [c EXCEPT !.step = v, !.claim = None]
  <2>1. calls' = (calls \ {c}) \cup {e} /\ e.task = c.task /\ e.step = v
    BY <1>1, <1>5 DEF Answer, Answers
  <2> HIDE DEF e, v
  <2> QED  BY <2>1
<1>7. ASSUME v = "stored", ~imp.dry PROVE Stored(p)'
  <2>0. FileRefusal(at) = "none"
    BY <1>7 DEF FileVerdict, FileRefusal, Barred
  <2>1. held' = With(held, at, FileRow(c.k.says))
    BY <1>7, <2>0 DEF PutFile
  <2>2. c.k.says = imp.bundle[p].says
    BY <1>2 DEF Sent
  <2> QED  BY <1>3, <2>1, <2>2 DEF Stored, Here, With, FileRow
<1> QED  BY <1>3, <1>4, <1>6, <1>7 DEF FileCall

\* A stored file is in the base when its answer is heard, a refused one is named.
LEMMA FilesHeard ==
  ASSUME Orderly, FilesStay, NamesApart(imp.bundle), NEW c \in calls, Hear(c), c.task.op \in FileOps,
         ~imp'.failed
  PROVE  HeardFile(c.task.path)'
<1> DEFINE p == c.task.path
<1>0. DOMAIN imp = DOMAIN NoImport /\ DOMAIN imp.tally = DOMAIN NoTally
  BY DEF Orderly
<1>1. imp' = AfterFile(c) /\ c.step \in Verdicts
  BY DEF Hear, FileOps
<1>2. FileCall(c, p) /\ c.step # "sent"
  BY <1>1 DEF FilesStay, Verdicts
<1>3. SameRun /\ held' = held /\ imp'.touched = imp.touched
  BY <1>0, HearKeeps DEF SameRun
<1>4. FileVerdict(imp.bundle, p)' = FileVerdict(imp.bundle, p) /\ Stored(p)' = Stored(p)
  BY <1>3, FileFateRests DEF SameRun, Stored, Here
<1>5. CASE c.step = "stored"
  BY <1>2, <1>3, <1>4, <1>5 DEF FileCall, HeardFile, SameRun
<1>6. CASE c.step \in {"invalid", "unsupported"}
  <2>1. imp'.skipped = imp.skipped \cup {p}
    BY <1>0, <1>1, <1>6, BeginFields DEF AfterFile, Skipped
  <2> QED  BY <1>2, <1>4, <1>6, <2>1 DEF FileCall, HeardFile
<1>7. CASE c.step \notin {"stored", "invalid", "unsupported"}
  BY <1>0, <1>1, <1>7, BeginFields DEF AfterFile, Failed
<1> QED  BY <1>5, <1>6, <1>7

\* Every step takes every file along its way.
LEMMA FilesGoStep == Orderly /\ ArchiveInv /\ FilesGo /\ [Next]_vars => FilesGo'
<1> SUFFICES ASSUME Orderly, ArchiveInv, FilesGo, [Next]_vars PROVE FilesGo'
  OBVIOUS
<1>0. DOMAIN imp = DOMAIN NoImport /\ DOMAIN imp.tally = DOMAIN NoTally
  BY DEF Orderly
<1>1. ASSUME NEW b \in Sources, NEW dry, NEW strict, Begin(b, dry, strict) PROVE FilesGo'
  <2>1. NamesApart(b) /\ site' = site /\ imp'.bundle = b
    BY <1>1, ArchiveNames, BeginSays DEF Sources, FilesGo
  <2>2. FilesStay'
    BY <1>1, BeginSays, NobodyWaits, HeardBegun DEF FilesStay
  <2> QED  BY <2>1, <2>2 DEF FilesGo
<1>2. CASE /\ SameRun /\ imp.skipped \subseteq imp'.skipped
           /\ Running' => Running /\ (imp.failed => imp'.failed)
           /\ Running' => /\ \A c \in calls' : c.task.op \in FileOps => FileCall(c, c.task.path)'
                          /\ ~imp'.failed => \A t \in Heard' : t.op \in FileOps => HeardFile(t.path)'
  BY <1>2 DEF FilesGo, FilesStay, SameRun
<1>3. ASSUME Running => FilesStay, SameRun, imp.skipped \subseteq imp'.skipped,
             Others \/ (\E c \in calls : Serves(c)) \/ (held' = held /\ imp'.touched = imp.touched)
      PROVE  Running => /\ \A c \in calls : c.task.op \in FileOps => FileCall(c, c.task.path)'
                        /\ ~imp.failed => \A t \in Heard : t.op \in FileOps => HeardFile(t.path)'
  <2>1. NamesApart(imp.bundle)
    BY DEF FilesGo
  <2>2. \A t \in Heard : t.op \in FileOps => t \in FileTasks(imp.bundle)
    BY FileTasksAre DEF Heard
  <2> QED  BY <1>3, <2>1, <2>2, CallsRest, FilesRest DEF FilesStay
<1>4. Running => FilesStay
  BY DEF FilesGo
<1>5. CASE Others
  <2>1. /\ SameRun /\ imp'.skipped = imp.skipped /\ imp'.phase = imp.phase
        /\ imp'.failed = imp.failed /\ imp'.left = imp.left /\ calls' = calls
    BY <1>0, <1>5, OthersTouch, BeginFields DEF SameRun
  <2>2. Heard' = Heard
    BY <2>1, HeardRests DEF SameRun, InCall
  <2> QED  BY <1>2, <1>3, <1>4, <1>5, <2>1, <2>2 DEF Running
<1>6. CASE Exports \/ UNCHANGED vars
  <2>1. SameRun /\ imp' = imp /\ calls' = calls /\ held' = held
    BY <1>6 DEF Exports, Snapshot, WriteListings, WriteConcepts, CloseArchive, Cut, WriteFile,
       OutOnly, base, vars, SameRun
  <2>2. Heard' = Heard
    BY <2>1, HeardRests DEF InCall
  <2> QED  BY <1>2, <1>3, <1>4, <2>1, <2>2 DEF Running
<1>7. ASSUME NEW t \in imp.left, Send(t) PROVE FilesGo'
  <2>1. /\ SameRun /\ imp'.skipped = imp.skipped /\ imp'.phase = imp.phase
        /\ imp'.failed = imp.failed /\ imp'.touched = imp.touched /\ held' = held
    BY <1>0, <1>7, BeginFields DEF Send, ImpOnly, base, SameRun
  <2>2. PICK d : /\ calls' = calls \cup {d} /\ d.task = t /\ d.step = "sent"
                 /\ d.k = Sent(imp.bundle[t.path])
    BY <1>7, OneSent
  <2>3. FileCall(d, d.task.path)'
    BY <2>1, <2>2 DEF FileCall, SameRun
  <2> QED  BY <1>2, <1>3, <1>4, <1>7, <2>1, <2>2, <2>3, HeardSent DEF Running
<1>8. ASSUME NEW c \in calls, Serves(c) PROVE FilesGo'
  <2>1. imp' = imp /\ SameRun
    BY <1>8, OneCallMoves DEF GoesOn, SameRun
  <2>2. PICK d : /\ calls' = (calls \ {c}) \cup {d} /\ d.task = c.task
                 /\ Running /\ c.task.op \in FileOps => FileCall(d, c.task.path)'
    <3>1. CASE PutFile(c)
      BY <3>1, <1>4, <1>8, FilePut, OneCallMoves DEF GoesOn, GoesOnAs
    <3>2. CASE ~PutFile(c)
      <4>1. c.task.op \notin FileOps
        BY <1>8, <3>2 DEF Serves, Look, Write, Create, Plan, Describe, FileOps, Orderly, Verdicts
      <4> QED  BY <4>1, <1>8, OneCallMoves DEF GoesOn, GoesOnAs
    <3> QED  BY <3>1, <3>2
  <2> QED  BY <1>2, <1>3, <1>4, <1>8, <2>1, <2>2, HeardServed DEF Running
<1>9. ASSUME NEW c \in calls, Hear(c) \/ Lose(c) PROVE FilesGo'
  <2>1. /\ SameRun /\ imp'.phase = imp.phase /\ imp'.touched = imp.touched /\ held' = held
        /\ calls' = calls \ {c} /\ (imp.failed => imp'.failed)
        /\ ~imp'.failed => Hear(c)
    BY <1>0, <1>9, HearKeeps DEF SameRun
  <2>2. imp.skipped \subseteq imp'.skipped
    BY <1>9, OthersHeard, HeardSays
  <2>3. ~imp'.failed /\ Running /\ c.task.op \in FileOps => HeardFile(c.task.path)'
    BY <1>4, <2>1, FilesHeard DEF FilesGo
  <2>4. Heard' = Heard \cup {c.task}
    BY <1>9, HeardHeard
  <2> QED  BY <1>2, <1>3, <1>4, <2>1, <2>2, <2>3, <2>4 DEF Running
<1>10. CASE NextPhase \/ Abort
  <2>1. /\ SameRun /\ imp'.skipped = imp.skipped /\ imp'.failed = imp.failed
        /\ imp'.touched = imp.touched /\ held' = held /\ calls' = {}
    BY <1>0, <1>10, PhaseSays DEF SameRun
  <2>2. Running' => Running /\ Heard' = Heard
    BY <1>0, <1>10, PhaseSays, HeardPassed DEF Running
  <2> QED  BY <1>2, <1>3, <1>4, <2>1, <2>2
<1> QED
  BY <1>1, <1>5, <1>6, <1>7, <1>8, <1>9, <1>10 DEF Next, Imports, Serves

\* It holds of every behaviour of bundles no two files of which trade their names for one.
LEMMA FilesGone ==
  ASSUME \A base0 \in Bases : \A b \in base0.site.bundles : NamesApart(b)
  PROVE  Spec => [](Orderly /\ ArchiveInv /\ ConceptsGo /\ FilesGo)
<1>1. Init => FilesGo
  <2> SUFFICES ASSUME Init PROVE FilesGo
    OBVIOUS
  <2>1. PICK base0 \in Bases : site = base0.site
    BY DEF Init
  <2>2. imp.phase = "none" /\ DOMAIN imp.bundle = {}
    BY DEF Init, NoImport
  <2>3. FileTasks(imp.bundle) = {}
    <3>1. ConceptsOf(imp.bundle) = {} /\ Rest(imp.bundle) = {}
      BY <2>2 DEF ConceptsOf, Rest
    <3> QED  BY <3>1 DEF FileTasks, Attributions, Loose, LooseOf
  <2> QED  BY <2>1, <2>2, <2>3 DEF FilesGo, NamesApart, Running
<1>2. Init => Orderly /\ ArchiveInv /\ ConceptsGo
  BY Initially DEF Init, ConceptsGo, Noting, Running, NoImport
<1>3. (Orderly /\ ArchiveInv /\ ConceptsGo /\ FilesGo) /\ [Next]_vars
        => (Orderly /\ ArchiveInv /\ ConceptsGo /\ FilesGo)'
  BY OrderlyStep, ArchiveStep, ConceptsGoStep, FilesGoStep
<1> QED  BY <1>1, <1>2, <1>3, PTL DEF Spec

\* What enters the bundle is in the base, or named in a skip (FromBundle), of
\* bundles no two of whose files trade their names for one.
THEOREM NothingGoesMissing ==
  ASSUME \A base0 \in Bases : \A b \in base0.site.bundles : NamesApart(b)
  PROVE  Spec => []EntersOrIsNamed
<1>1. Orderly /\ ConceptsGo /\ FilesGo => EntersOrIsNamed
  <2> SUFFICES ASSUME Orderly, ConceptsGo, FilesGo, Imported, NEW p \in DOMAIN imp.bundle,
                      ~Hidden(p), ~IsIndex(p), ~IsLog(p)
               PROVE  LET at == Unclaimed(imp.bundle, p) IN
                      IF p \in ConceptsOf(imp.bundle)
                      THEN \/ p \in imp.skipped \cup imp.touched
                           \/ /\ Here(p) /\ held[p].says = imp.bundle[p].says
                              /\ held[p].links = imp.bundle[p].links
                      ELSE \/ p \in imp.skipped \/ at \in imp.touched
                           \/ Here(at) /\ held[at].says = imp.bundle[p].says
    BY DEF EntersOrIsNamed
  <2>1. CASE p \in ConceptsOf(imp.bundle)
    <3>1. CASE p \notin imp.touched
      <4>1. HeardConcept(p) /\ ~imp.dry
        BY <2>1, <3>1, ConceptsEnd DEF Imported
      <4>2. CASE FateOf(p) = "invalid"
        BY <4>1, <4>2 DEF HeardConcept, ConceptsGo, Noting
      <4>3. CASE FateOf(p) # "invalid"
        <5>1. Written(p)
          BY <4>1, <4>3 DEF HeardConcept
        <5> QED  BY <2>1, <5>1 DEF Written
      <4> QED  BY <4>2, <4>3
    <3> QED  BY <2>1, <3>1
  <2>2. CASE p \notin ConceptsOf(imp.bundle)
    <3>1. FilesStay /\ ~imp.failed /\ ~imp.dry /\ Heard = AllTasks(imp.bundle)
      BY HeardAtLast DEF FilesGo, Imported, Running, Orderly
    <3>2. CASE p \in ParseSkips(imp.bundle)
      BY <2>2, <3>1, <3>2 DEF FilesStay
    <3>3. ASSUME NEW t \in FileTasks(imp.bundle), t.path = p, t.op \in FileOps
          PROVE  p \in imp.skipped \/ Stored(p)
      BY <3>1, <3>3 DEF AllTasks, FileTasks, FilesStay, HeardFile
    <3>4. CASE p \in LooseOf(imp.bundle)
      <4>1. [op |-> "loose", path |-> p, of |-> p] \in Loose(imp.bundle)
        BY <3>4 DEF Loose
      <4>2. p \in imp.skipped \/ Stored(p)
        BY <3>3, <4>1 DEF FileTasks, FileOps
      <4> QED  BY <2>2, <4>2 DEF Stored
    <3>5. CASE \E t \in Attributions(imp.bundle) : t.path = p
      <4>1. PICK t \in Attributions(imp.bundle) : t.path = p
        BY <3>5
      <4>2. t.op = "attributed"
        <5>1. t \in Current("attributed", imp.bundle)
          BY DEF Current, TasksOf
        <5> QED  BY <5>1, TasksAre DEF FileOps
      <4>3. p \in imp.skipped \/ Stored(p)
        BY <3>3, <4>1, <4>2 DEF FileTasks, FileOps
      <4> QED  BY <2>2, <4>3 DEF Stored
    <3>6. p \in Rest(imp.bundle) \/ \E t \in Attributions(imp.bundle) : t.path = p
      BY <2>2 DEF Rest
    <3> QED  BY <3>2, <3>4, <3>5, <3>6 DEF ParseSkips
  <2> QED  BY <2>1, <2>2
<1> QED  BY <1>1, FilesGone, PTL

-----------------------------------------------------------------------------
(* What a run counts.                                                        *)

IndexRefusal(b, p) ==
  IF b[p].fit = "too large" THEN "too large" ELSE Barred(Front(p))
TaskVerdict(b, from, t) ==
  CASE t.op = "concept" -> Verdict(b, from, t.path)
    [] t.op = "index" -> IF IndexRefusal(b, t.path) = "none" THEN "described" ELSE "undescribed"
    [] OTHER -> FileVerdict(b, t.path)

\* What ends a run, what is a skip, and what each counter counts.
Fails(b, from, t) == TaskVerdict(b, from, t) \in {"too large", "forbidden", "missing"}
SkipsTask(b, from, t) == TaskVerdict(b, from, t) \in {"invalid", "unsupported", "undescribed"}
AsOwned(b, from, t) == t.op = "attributed" /\ Verdict(b, from, t.of) # "invalid"
Counts(b, from, x, t) ==
  CASE x = "skipped" -> SkipsTask(b, from, t)
    [] x = "attributed" -> TaskVerdict(b, from, t) = "stored" /\ AsOwned(b, from, t)
    [] x = "loose" -> TaskVerdict(b, from, t) = "stored" /\ ~AsOwned(b, from, t)
    [] OTHER -> t.op = "concept" /\ Verdict(b, from, t.path) = x
Notes(b, from, t) == /\ t.op = "concept" /\ Verdict(b, from, t.path) \in Accepted
                     /\ Claims(b[t.path]) /\ Became(b, from, t.path).claim # None
Rereads(b, from, t) == /\ t.op = "concept" /\ Verdict(b, from, t.path) \in Accepted
                       /\ b[t.path].fit = "reread"

NotedIn(b, from, T) == {t \in T : Notes(b, from, t)}
RereadIn(b, from, T) == {t \in T : Rereads(b, from, t)}
CountedIn(b, from, x, T) == {t \in T : Counts(b, from, x, t)}
SkippedIn(b, from, T) == {t \in T : SkipsTask(b, from, t)}

\* What the tasks heard of come to.
Tally(b, from, T) ==
  [x \in DOMAIN NoTally |->
     IF x = "notes"
     THEN ParseTally(b)[x] + Cardinality(NotedIn(b, from, T)) + Cardinality(RereadIn(b, from, T))
     ELSE ParseTally(b)[x] + Cardinality(CountedIn(b, from, x, T))]
Skips(b, from, T) == ParseSkips(b) \cup {t.path : t \in SkippedIn(b, from, T)}
Worth(b, from, x, t) ==
  IF x = "notes"
  THEN (IF Notes(b, from, t) THEN 1 ELSE 0) + (IF Rereads(b, from, t) THEN 1 ELSE 0)
  ELSE IF Counts(b, from, x, t) THEN 1 ELSE 0

\* Reading a bundle counts in numbers.
LEMMA ParseTallies ==
  ASSUME NEW b, BundleFits(b)
  PROVE  ParseTally(b) \in [DOMAIN NoTally -> Nat]
<1>1. IsFiniteSet(ParseNotes(b)) /\ IsFiniteSet(ParseSkips(b))
  <2>1. ParseNotes(b) \subseteq DOMAIN b /\ ParseSkips(b) \subseteq DOMAIN b
    BY DEF ParseNotes, ParseSkips, LooseOf, Rest, ConceptsOf
  <2> QED  BY <2>1, FS_Subset DEF BundleFits
<1>2. Cardinality(ParseNotes(b)) \in Nat /\ Cardinality(ParseSkips(b)) \in Nat
  BY <1>1, FS_CardinalityType
<1>3. NoTally \in [DOMAIN NoTally -> Nat]
  BY DEF NoTally
<1> QED  BY <1>2, <1>3, BeginFields DEF ParseTally

\* One more of a set.
LEMMA OneMore ==
  ASSUME NEW S, NEW t, IsFiniteSet(S), t \notin S
  PROVE  Cardinality(S) \in Nat /\ Cardinality(S \cup {t}) = Cardinality(S) + 1
BY FS_AddElement, FS_CardinalityType

\* One more request adds its worth to the tally, and its path to the skipped ones.
LEMMA TallyGrows ==
  ASSUME NEW b, NEW from, NEW T, IsFiniteSet(T), NEW t, t \notin T, BundleFits(b)
  PROVE  /\ Tally(b, from, T) \in [DOMAIN NoTally -> Nat]
         /\ \A x \in DOMAIN NoTally :
              Tally(b, from, T \cup {t})[x] = Tally(b, from, T)[x] + Worth(b, from, x, t)
         /\ Skips(b, from, T \cup {t}) =
              Skips(b, from, T) \cup (IF SkipsTask(b, from, t) THEN {t.path} ELSE {})
<1>1. ParseTally(b) \in [DOMAIN NoTally -> Nat]
  BY ParseTallies
<1>2. /\ NotedIn(b, from, T) \subseteq T /\ RereadIn(b, from, T) \subseteq T
      /\ \A x : CountedIn(b, from, x, T) \subseteq T
  BY DEF NotedIn, RereadIn, CountedIn
<1>3. /\ IsFiniteSet(NotedIn(b, from, T)) /\ IsFiniteSet(RereadIn(b, from, T))
      /\ \A x : IsFiniteSet(CountedIn(b, from, x, T))
  BY <1>2, FS_Subset
<1>4. /\ Cardinality(NotedIn(b, from, T)) \in Nat
      /\ Cardinality(NotedIn(b, from, T \cup {t})) =
           Cardinality(NotedIn(b, from, T)) + (IF Notes(b, from, t) THEN 1 ELSE 0)
  <2>1. Cardinality(NotedIn(b, from, T)) \in Nat
    BY <1>3, FS_CardinalityType
  <2>2. CASE Notes(b, from, t)
    <3>1. NotedIn(b, from, T \cup {t}) = NotedIn(b, from, T) \cup {t}
      BY <2>2 DEF NotedIn
    <3> QED  BY <1>2, <1>3, <2>2, <3>1, OneMore
  <2>3. CASE ~Notes(b, from, t)
    <3>1. NotedIn(b, from, T \cup {t}) = NotedIn(b, from, T)
      BY <2>3 DEF NotedIn
    <3> QED  BY <2>1, <2>3, <3>1
  <2> QED  BY <2>2, <2>3
<1>5. /\ Cardinality(RereadIn(b, from, T)) \in Nat
      /\ Cardinality(RereadIn(b, from, T \cup {t})) =
           Cardinality(RereadIn(b, from, T)) + (IF Rereads(b, from, t) THEN 1 ELSE 0)
  <2>1. Cardinality(RereadIn(b, from, T)) \in Nat
    BY <1>3, FS_CardinalityType
  <2>2. CASE Rereads(b, from, t)
    <3>1. RereadIn(b, from, T \cup {t}) = RereadIn(b, from, T) \cup {t}
      BY <2>2 DEF RereadIn
    <3> QED  BY <1>2, <1>3, <2>2, <3>1, OneMore
  <2>3. CASE ~Rereads(b, from, t)
    <3>1. RereadIn(b, from, T \cup {t}) = RereadIn(b, from, T)
      BY <2>3 DEF RereadIn
    <3> QED  BY <2>1, <2>3, <3>1
  <2> QED  BY <2>2, <2>3
<1>6. ASSUME NEW x
      PROVE  /\ Cardinality(CountedIn(b, from, x, T)) \in Nat
             /\ Counts(b, from, x, t) =>
                  Cardinality(CountedIn(b, from, x, T \cup {t})) = Cardinality(CountedIn(b, from, x, T)) + 1
             /\ ~Counts(b, from, x, t) =>
                  Cardinality(CountedIn(b, from, x, T \cup {t})) = Cardinality(CountedIn(b, from, x, T))
  <2>1. Cardinality(CountedIn(b, from, x, T)) \in Nat
    BY <1>3, FS_CardinalityType
  <2>2. CASE Counts(b, from, x, t)
    <3>1. CountedIn(b, from, x, T \cup {t}) = CountedIn(b, from, x, T) \cup {t}
      BY <2>2 DEF CountedIn
    <3> QED  BY <1>2, <1>3, <2>2, <3>1, OneMore
  <2>3. CASE ~Counts(b, from, x, t)
    <3>1. CountedIn(b, from, x, T \cup {t}) = CountedIn(b, from, x, T)
      BY <2>3 DEF CountedIn
    <3> QED  BY <2>1, <2>3, <3>1
  <2> QED  BY <2>2, <2>3
<1>7. Tally(b, from, T) \in [DOMAIN NoTally -> Nat]
  BY <1>1, <1>4, <1>5, <1>6 DEF Tally
<1>8. ASSUME NEW x \in DOMAIN NoTally
      PROVE  Tally(b, from, T \cup {t})[x] = Tally(b, from, T)[x] + Worth(b, from, x, t)
  <2>1. ParseTally(b)[x] \in Nat
    BY <1>1
  <2>2. CASE x = "notes"
    BY <1>4, <1>5, <2>1, <2>2 DEF Tally, Worth
  <2>3. CASE x # "notes"
    <3>1. /\ Tally(b, from, T)[x] = ParseTally(b)[x] + Cardinality(CountedIn(b, from, x, T))
          /\ Tally(b, from, T \cup {t})[x] =
               ParseTally(b)[x] + Cardinality(CountedIn(b, from, x, T \cup {t}))
      BY <2>3 DEF Tally
    <3>2. CASE Counts(b, from, x, t)
      <4>1. Worth(b, from, x, t) = 1
        BY <2>3, <3>2 DEF Worth
      <4>2. Cardinality(CountedIn(b, from, x, T \cup {t})) = Cardinality(CountedIn(b, from, x, T)) + 1
        BY <1>6, <3>2
      <4> QED  BY <1>6, <2>1, <3>1, <4>1, <4>2
    <3>3. CASE ~Counts(b, from, x, t)
      <4>1. Worth(b, from, x, t) = 0
        BY <2>3, <3>3 DEF Worth
      <4>2. Cardinality(CountedIn(b, from, x, T \cup {t})) = Cardinality(CountedIn(b, from, x, T))
        BY <1>6, <3>3
      <4> QED  BY <1>6, <2>1, <3>1, <4>1, <4>2
    <3> QED  BY <3>2, <3>3
  <2> QED  BY <2>2, <2>3
<1>9. SkippedIn(b, from, T \cup {t}) =
        SkippedIn(b, from, T) \cup (IF SkipsTask(b, from, t) THEN {t} ELSE {})
  BY DEF SkippedIn
<1> QED  BY <1>7, <1>8, <1>9 DEF Skips

\* Before any request the tally is that of reading the bundle.
LEMMA TallyStarts ==
  ASSUME NEW b, NEW from, BundleFits(b)
  PROVE  /\ \A x \in DOMAIN NoTally : Tally(b, from, {})[x] = ParseTally(b)[x]
         /\ Skips(b, from, {}) = ParseSkips(b)
<1>1. /\ NotedIn(b, from, {}) = {} /\ RereadIn(b, from, {}) = {} /\ SkippedIn(b, from, {}) = {}
      /\ \A x : CountedIn(b, from, x, {}) = {}
  BY DEF NotedIn, RereadIn, SkippedIn, CountedIn
<1>2. \A x \in DOMAIN NoTally : ParseTally(b)[x] \in Nat
  BY ParseTallies
<1> QED  BY <1>1, <1>2, FS_EmptySet DEF Tally, Skips

\* What a task is worth to each counter, by its verdict.
LEMMA WorthOfConcepts ==
  ASSUME NEW b, NEW from, NEW t, t.op = "concept", NEW x \in DOMAIN NoTally
  PROVE  Worth(b, from, x, t) =
           IF x = "notes"
           THEN IF Verdict(b, from, t.path) \in Accepted
                THEN (IF Claims(b[t.path]) /\ Became(b, from, t.path).claim # None THEN 1 ELSE 0)
                       + (IF b[t.path].fit = "reread" THEN 1 ELSE 0)
                ELSE 0
           ELSE IF x = "skipped" THEN IF Verdict(b, from, t.path) = "invalid" THEN 1 ELSE 0
           ELSE IF Verdict(b, from, t.path) = x THEN 1 ELSE 0
<1>1. TaskVerdict(b, from, t) = Verdict(b, from, t.path)
  BY DEF TaskVerdict
<1>2. Verdict(b, from, t.path) \in Accepted \cup {"too large", "missing", "forbidden", "invalid"}
  BY VerdictsAre
<1>3. CASE x = "notes"
  BY <1>3 DEF Worth, Notes, Rereads
<1>4. CASE x = "skipped"
  BY <1>1, <1>2, <1>4 DEF Worth, Counts, SkipsTask, Accepted
<1>5. CASE x \in {"attributed", "loose"}
  BY <1>1, <1>2, <1>5 DEF Worth, Counts, Accepted
<1>6. CASE x \notin {"notes", "skipped", "attributed", "loose"}
  BY <1>6 DEF Worth, Counts
<1> QED  BY <1>3, <1>4, <1>5, <1>6

\* What a request that is not a concept's is worth.
LEMMA WorthOfOthers ==
  ASSUME NEW b, NEW from, NEW t, t.op \in {"index"} \cup FileOps, NEW x \in DOMAIN NoTally
  PROVE  Worth(b, from, x, t) =
           IF x = "skipped" THEN IF SkipsTask(b, from, t) THEN 1 ELSE 0
           ELSE IF x = "attributed"
           THEN IF TaskVerdict(b, from, t) = "stored" /\ AsOwned(b, from, t) THEN 1 ELSE 0
           ELSE IF x = "loose"
           THEN IF TaskVerdict(b, from, t) = "stored" /\ ~AsOwned(b, from, t) THEN 1 ELSE 0
           ELSE 0
<1>1. t.op # "concept"
  BY DEF FileOps
<1>2. CASE x = "notes"
  BY <1>1, <1>2 DEF Worth, Notes, Rereads
<1>3. CASE x = "skipped"
  BY <1>3 DEF Worth, Counts
<1>4. CASE x = "attributed"
  BY <1>4 DEF Worth, Counts
<1>5. CASE x = "loose"
  BY <1>5 DEF Worth, Counts
<1>6. CASE x \notin {"notes", "skipped", "attributed", "loose"}
  BY <1>1, <1>6 DEF Worth, Counts
<1> QED  BY <1>2, <1>3, <1>4, <1>5, <1>6

\* Files and listings are answered with their verdicts.
IndexCall(c, p) ==
  \/ c.step = "sent"
  \/ c.step \in {"unchanged", "updated"} /\ IndexRefusal(imp.bundle, p) = "none"
  \/ c.step \notin {"unchanged", "updated"} /\ IndexRefusal(imp.bundle, p) # "none"
Answering ==
  \A c \in calls :
    /\ c.task.op \in FileOps => c.step \in {"sent", FileVerdict(imp.bundle, c.task.path)}
    /\ c.task.op = "index" => IndexCall(c, c.task.path)

\* Every step keeps the answers those the documents were to get.
LEMMA AnsweringStep == Orderly /\ Answering /\ [Next]_vars => Answering'
<1> SUFFICES ASSUME Orderly, Answering, [Next]_vars PROVE Answering'
  OBVIOUS
<1>0. DOMAIN imp = DOMAIN NoImport /\ DOMAIN imp.tally = DOMAIN NoTally
  BY DEF Orderly
<1>1. ASSUME site' = site, imp'.bundle = imp.bundle, NEW p
      PROVE  /\ FileVerdict(imp.bundle, p)' = FileVerdict(imp.bundle, p)
             /\ IndexRefusal(imp.bundle, p)' = IndexRefusal(imp.bundle, p)
  BY <1>1 DEF FileVerdict, FileRefusal, IndexRefusal, Barred
<1>2. CASE site' = site /\ imp'.bundle = imp.bundle /\ calls' \subseteq calls
  BY <1>1, <1>2 DEF Answering, IndexCall
<1>3. CASE calls' = {}
  BY <1>3 DEF Answering
<1>4. CASE Others
  BY <1>0, <1>2, <1>4, OthersTouch, BeginFields
<1>5. CASE Exports \/ UNCHANGED vars
  BY <1>2, <1>5 DEF Exports, Snapshot, WriteListings, WriteConcepts, CloseArchive, Cut, WriteFile,
     OutOnly, vars
<1>6. ASSUME NEW t \in imp.left, Send(t) PROVE Answering'
  <2>1. site' = site /\ imp'.bundle = imp.bundle
    BY <1>0, <1>6, BeginFields DEF Send, ImpOnly
  <2>2. PICK d : calls' = calls \cup {d} /\ d.step = "sent"
    BY <1>6, OneSent
  <2> QED  BY <1>1, <2>1, <2>2 DEF Answering, IndexCall
<1>7. ASSUME NEW c \in calls, Serves(c) PROVE Answering'
  <2>1. site' = site /\ imp' = imp /\ DOMAIN c = {"task", "step", "k", "claim"}
    BY <1>7, OneCallMoves DEF GoesOn, Orderly
  <2>2. PICK d : /\ calls' = (calls \ {c}) \cup {d} /\ d.task = c.task
                 /\ c.task.op \in FileOps => d.step = FileVerdict(imp.bundle, c.task.path)
                 /\ c.task.op = "index" => IndexCall(d, c.task.path)
    <3>1. CASE PutFile(c) \/ Describe(c)
      <4> DEFINE e(v) == [c EXCEPT !.step = v, !.claim = None]
      <4>1. \A v : Answer(c, v) => calls' = (calls \ {c}) \cup {e(v)}
        BY DEF Answer, Answers
      <4>2. \A v : e(v).task = c.task /\ e(v).step = v
        BY <2>1
      <4> HIDE DEF e
      <4>3. CASE PutFile(c)
        <5>1. Answer(c, FileVerdict(imp.bundle, c.task.path)) /\ c.task.op # "index"
          BY <4>3 DEF PutFile, FileVerdict
        <5> QED  BY <4>1, <4>2, <5>1
      <4>4. CASE Describe(c)
        <5>1. c.task.op = "index" /\ c.task.op \notin FileOps
          BY <4>4 DEF Describe, FileOps
        <5>2. CASE IndexRefusal(imp.bundle, c.task.path) # "none"
          <6>1. Answer(c, IndexRefusal(imp.bundle, c.task.path))
            BY <4>4, <5>2 DEF Describe, IndexRefusal
          <6>2. IndexRefusal(imp.bundle, c.task.path) \notin {"unchanged", "updated"}
            BY DEF IndexRefusal, Barred
          <6> QED  BY <4>1, <4>2, <5>1, <5>2, <6>1, <6>2 DEF IndexCall
        <5>3. CASE IndexRefusal(imp.bundle, c.task.path) = "none"
          <6>1. Answer(c, "unchanged") \/ Answer(c, "updated")
            <7>1. PICK v \in {"unchanged", "updated"} : Answer(c, v)
              BY <4>4, <5>3 DEF Describe, IndexRefusal
            <7> QED  BY <7>1
          <6> QED  BY <4>1, <4>2, <5>1, <5>3, <6>1 DEF IndexCall
        <5> QED  BY <5>2, <5>3
      <4> QED  BY <3>1, <4>3, <4>4
    <3>2. CASE ~PutFile(c) /\ ~Describe(c)
      <4>1. c.task.op = "concept"
        BY <1>7, <3>2 DEF Serves, Look, Write, Create, Plan, Orderly, Verdicts
      <4> QED  BY <4>1, <1>7, OneCallMoves DEF GoesOn, GoesOnAs, FileOps
    <3> QED  BY <3>1, <3>2
  <2> QED  BY <1>1, <2>1, <2>2 DEF Answering, IndexCall
<1>8. CASE \E c \in calls : Hear(c) \/ Lose(c)
  BY <1>0, <1>2, <1>8, HearKeeps
<1>9. CASE NextPhase \/ Abort
  BY <1>0, <1>3, <1>9, PhaseSays
<1>10. ASSUME NEW b, NEW dry, NEW strict, Begin(b, dry, strict) PROVE Answering'
  BY <1>3, <1>10, BeginSays, NobodyWaits
<1> QED
  BY <1>4, <1>5, <1>6, <1>7, <1>8, <1>9, <1>10 DEF Next, Imports, Serves

\* While nobody else writes, a run is as far as the tasks it heard of; one that
\* failed met a task that fails, or lost an answer.
Counted ==
  /\ Running => IsFiniteSet(Heard)
  /\ imp.tally \in [DOMAIN NoTally -> Nat]
  /\ Running /\ ~imp.failed /\ imp.touched = {} =>
       /\ \A x \in DOMAIN NoTally : imp.tally[x] = Tally(imp.bundle, imp.from, Heard)[x]
       /\ imp.skipped = Skips(imp.bundle, imp.from, Heard)
       /\ \A t \in Heard : ~Fails(imp.bundle, imp.from, t)
  /\ imp.failed /\ ~imp.lost /\ imp.touched = {} =>
       \E t \in AllTasks(imp.bundle) : Fails(imp.bundle, imp.from, t)

Adds(t) ==
  /\ \A x \in DOMAIN NoTally : imp'.tally[x] = imp.tally[x] + Worth(imp.bundle, imp.from, x, t)
  /\ imp'.skipped = imp.skipped \cup (IF SkipsTask(imp.bundle, imp.from, t) THEN {t.path} ELSE {})
  /\ ~Fails(imp.bundle, imp.from, t)

\* What an accepted concept adds to the tally.
LEMMA AcceptedTally ==
  ASSUME DOMAIN imp = DOMAIN NoImport, imp.tally \in [DOMAIN NoTally -> Nat], NEW c,
         c.step \in Accepted
  PROVE  \E k, r \in {0, 1} :
           /\ k = IF Claims(imp.bundle[c.task.path]) /\ c.claim # None THEN 1 ELSE 0
           /\ r = IF imp.bundle[c.task.path].fit = "reread" THEN 1 ELSE 0
           /\ AfterConcept(c).tally = [[imp.tally EXCEPT ![c.step] = @ + 1] EXCEPT !["notes"] = @ + k + r]
<1> DEFINE k == IF Claims(imp.bundle[c.task.path]) /\ c.claim # None THEN 1 ELSE 0
           r == IF imp.bundle[c.task.path].fit = "reread" THEN 1 ELSE 0
<1>1. AfterConcept(c) =
        [imp EXCEPT !.tally[c.step] = @ + 1, !.tally.notes = @ + k + r,
                    !.noted = IF Claims(imp.bundle[c.task.path]) /\ c.claim # None
                              THEN @ \cup {c.task.path} ELSE @]
  BY DEF AfterConcept, Accepted
<1>2. k \in {0, 1} /\ r \in {0, 1}
  OBVIOUS
<1> DEFINE z == IF Claims(imp.bundle[c.task.path]) /\ c.claim # None
                THEN imp.noted \cup {c.task.path} ELSE imp.noted
<1> HIDE DEF k, r
<1>4. AfterConcept(c) =
        [imp EXCEPT !.tally[c.step] = @ + 1, !.tally.notes = @ + k + r, !.noted = z]
  BY <1>1
<1> HIDE DEF z
<1>3. AfterConcept(c).tally = [[imp.tally EXCEPT ![c.step] = @ + 1] EXCEPT !["notes"] = @ + k + r]
  <2>1. DOMAIN imp.tally = DOMAIN NoTally
    OBVIOUS
  <2>2. [imp EXCEPT !.tally[c.step] = @ + 1, !.tally.notes = @ + k + r, !.noted = z].tally
          = [[imp.tally EXCEPT ![c.step] = @ + 1] EXCEPT !["notes"] = @ + k + r]
    BY <2>1, BeginFields DEF Accepted
  <2> QED  BY <1>4, <2>2
<1> QED  BY <1>2, <1>3 DEF k, r

\* An answer leaves the tally one of numbers.
LEMMA TallyTypes ==
  ASSUME DOMAIN imp = DOMAIN NoImport, imp.tally \in [DOMAIN NoTally -> Nat],
         NEW c \in calls, Hear(c) \/ Lose(c)
  PROVE  imp'.tally \in [DOMAIN NoTally -> Nat]
<1> USE BeginFields
<1>1. CASE Lose(c)
  BY <1>1 DEF Lose
<1>2. CASE Hear(c)
  <2>1. imp.tally \in [DOMAIN NoTally -> Nat] /\ Failed.tally = imp.tally
    BY DEF Failed
  <2>2. Skipped(c).tally \in [DOMAIN NoTally -> Nat]
    BY DEF Skipped
  <2>3. \A x \in DOMAIN NoTally : Tallied(c, x).tally \in [DOMAIN NoTally -> Nat]
    BY DEF Tallied
  <2>4. AfterIndex(c).tally \in [DOMAIN NoTally -> Nat]
    BY <2>1, <2>2 DEF AfterIndex
  <2>5. AfterFile(c).tally \in [DOMAIN NoTally -> Nat]
    BY <2>1, <2>2, <2>3 DEF AfterFile
  <2>6. AfterConcept(c).tally \in [DOMAIN NoTally -> Nat]
    <3>1. CASE c.step \in Accepted
      <4>1. PICK k, r \in {0, 1} :
              AfterConcept(c).tally = [[imp.tally EXCEPT ![c.step] = @ + 1] EXCEPT !["notes"] = @ + k + r]
        BY <2>1, <3>1, AcceptedTally
      <4> QED  BY <2>1, <4>1
    <3>2. CASE c.step \notin Accepted
      BY <2>1, <2>2, <3>2 DEF AfterConcept, Accepted
    <3> QED  BY <3>1, <3>2
  <2> QED  BY <1>2, <2>4, <2>5, <2>6 DEF Hear
<1> QED  BY <1>1, <1>2

\* A concept's answer counts its worth, or fails the import as foretold,
LEMMA ConceptCounts ==
  ASSUME Orderly, ConceptsGo, Counted, Running, imp.touched = {}, ~imp.failed,
         NEW c \in calls, Hear(c), c.task.op = "concept"
  PROVE  IF imp'.failed THEN Fails(imp.bundle, imp.from, c.task) ELSE Adds(c.task)
<1> DEFINE p == c.task.path
           v == Verdict(imp.bundle, imp.from, p)
<1>0. /\ imp' = AfterConcept(c) /\ DOMAIN imp = DOMAIN NoImport /\ DOMAIN imp.tally = DOMAIN NoTally
      /\ imp.tally \in [DOMAIN NoTally -> Nat] /\ c.step \in Verdicts
  BY DEF Hear, Orderly, Counted
<1>1. p \in ConceptsOf(imp.bundle) /\ c.task = ConceptTask(p)
  BY TasksAre DEF Orderly, ConceptTask
<1>2. ConceptCall(c, p)
  BY <1>1 DEF ConceptsGo, ConceptGoes
<1>3. c.step = v /\ (v \in Accepted => c.claim = Became(imp.bundle, imp.from, p).claim)
  BY <1>0, <1>2 DEF ConceptCall, Verdicts, FateOf, LeftOf
<1>4. TaskVerdict(imp.bundle, imp.from, c.task) = v
  BY DEF TaskVerdict
<1> HIDE DEF p, v
<1>5. CASE v \in Accepted
  <2> DEFINE kept == IF Claims(imp.bundle[p]) /\ c.claim # None THEN 1 ELSE 0
             reread == IF imp.bundle[p].fit = "reread" THEN 1 ELSE 0
  <2>1. ~imp'.failed /\ imp'.skipped = imp.skipped
    BY <1>0, <1>3, <1>5, HeardSays DEF Accepted
  <2>3. kept \in {0, 1} /\ reread \in {0, 1}
    OBVIOUS
  <2>4. imp'.tally = [[imp.tally EXCEPT ![v] = @ + 1] EXCEPT !["notes"] = @ + kept + reread]
    BY <1>0, <1>3, <1>5, AcceptedTally DEF p
  <2> HIDE DEF kept, reread
  <2>5. ASSUME NEW x \in DOMAIN NoTally
        PROVE  imp'.tally[x] = imp.tally[x] + Worth(imp.bundle, imp.from, x, c.task)
    <3>1. v \in DOMAIN NoTally /\ v # "notes" /\ v # "skipped" /\ v # "invalid"
      BY <1>5, BeginFields DEF Accepted
    <3>2. CASE x = "notes"
      <4>1. imp'.tally[x] = imp.tally[x] + kept + reread
        BY <1>0, <2>3, <2>4, <3>1, <3>2, BeginFields
      <4>2. Worth(imp.bundle, imp.from, x, c.task) = kept + reread
        BY <1>3, <1>5, <3>2, WorthOfConcepts DEF kept, reread, p, v
      <4>3. imp.tally[x] \in Nat
        BY <1>0
      <4> QED  BY <2>3, <4>1, <4>2, <4>3
    <3>3. CASE x = v
      <4>1. imp'.tally[x] = imp.tally[x] + 1
        BY <1>0, <2>4, <3>1, <3>3
      <4>2. Worth(imp.bundle, imp.from, x, c.task) = 1
        BY <3>1, <3>3, WorthOfConcepts DEF p, v
      <4> QED  BY <4>1, <4>2
    <3>4. CASE x # v /\ x # "notes"
      <4>1. imp'.tally[x] = imp.tally[x] /\ imp.tally[x] \in Nat
        BY <1>0, <2>4, <3>1, <3>4
      <4>2. Worth(imp.bundle, imp.from, x, c.task) = 0
        BY <3>1, <3>4, WorthOfConcepts DEF p, v
      <4> QED  BY <4>1, <4>2
    <3> QED  BY <3>2, <3>3, <3>4
  <2> QED
    BY <1>4, <1>5, <2>1, <2>5 DEF Adds, SkipsTask, Fails, Accepted
<1>6. CASE v = "invalid"
  <2>1. /\ ~imp'.failed /\ imp'.skipped = imp.skipped \cup {p}
        /\ imp'.tally = [imp.tally EXCEPT !["skipped"] = @ + 1]
    BY <1>0, <1>3, <1>6, BeginFields DEF AfterConcept, Skipped, p
  <2>2. ASSUME NEW x \in DOMAIN NoTally
        PROVE  imp'.tally[x] = imp.tally[x] + Worth(imp.bundle, imp.from, x, c.task)
    <3>1. Worth(imp.bundle, imp.from, x, c.task) = IF x = "skipped" THEN 1 ELSE 0
      BY <1>6, WorthOfConcepts, BeginFields DEF p, v, Accepted
    <3> QED  BY <1>0, <2>1, <3>1
  <2> QED
    BY <1>4, <1>6, <2>1, <2>2 DEF Adds, SkipsTask, Fails, p
<1>7. CASE v \notin Accepted \cup {"invalid"}
  <2>1. imp'.failed
    BY <1>3, <1>7, HeardSays
  <2>2. v \in {"too large", "missing", "forbidden"}
    BY <1>7, VerdictsAre DEF v
  <2> QED  BY <1>4, <2>1, <2>2 DEF Fails
<1> QED  BY <1>5, <1>6, <1>7

\* so does a file's,
LEMMA FileCounts ==
  ASSUME Orderly, ConceptsGo, Answering, Counted, Running, imp.touched = {}, ~imp.failed,
         NEW c \in calls, Hear(c), c.task.op \in FileOps
  PROVE  IF imp'.failed THEN Fails(imp.bundle, imp.from, c.task) ELSE Adds(c.task)
<1> DEFINE t == c.task
           v == FileVerdict(imp.bundle, t.path)
<1>0. /\ imp' = AfterFile(c) /\ DOMAIN imp = DOMAIN NoImport /\ DOMAIN imp.tally = DOMAIN NoTally
      /\ imp.tally \in [DOMAIN NoTally -> Nat] /\ c.step \in Verdicts
  BY DEF Hear, Orderly, Counted, FileOps
<1>1. c.step = v /\ v \in {"stored", "unsupported", "invalid", "forbidden", "missing"}
  BY <1>0, FileVerdictsAre DEF Answering, Verdicts
<1>2. TaskVerdict(imp.bundle, imp.from, t) = v
  BY DEF TaskVerdict, FileOps
<1>3. AsOwned(imp.bundle, imp.from, t) <=> t.op = "attributed" /\ t.of \notin imp.refused
  <2>1. CASE t.op = "attributed"
    <3>1. imp.phase = "attributed" /\ t \in Attributions(imp.bundle)
      BY <2>1, TasksAre DEF Orderly, Current, TasksOf, FileOps
    <3>2. t.of \in ConceptsOf(imp.bundle)
      BY <3>1 DEF Attributions
    <3>3. ConceptTask(t.of) \notin Current(imp.phase, imp.bundle)
      <4>1. ConceptTask(t.of).op = "concept"
        BY DEF ConceptTask
      <4> QED  BY <3>1, <4>1, TasksAre
    <3>4. ConceptTask(t.of) \notin imp.left /\ ~InCall(ConceptTask(t.of))
      BY <3>3 DEF Orderly, InCall
    <3>5. HeardConcept(t.of)
      BY <3>2, <3>4 DEF ConceptsGo, ConceptGoes
    <3> QED  BY <2>1, <3>5 DEF AsOwned, HeardConcept, FateOf
  <2>2. CASE t.op # "attributed"
    BY <2>2 DEF AsOwned
  <2> QED  BY <2>1, <2>2
<1>4. \A x \in DOMAIN NoTally : imp.tally[x] \in Nat
  BY <1>0
<1> HIDE DEF t, v
<1>5. CASE v = "stored"
  <2> DEFINE y == IF t.op = "attributed" /\ t.of \notin imp.refused THEN "attributed" ELSE "loose"
  <2>1. /\ ~imp'.failed /\ imp'.skipped = imp.skipped
        /\ imp'.tally = [imp.tally EXCEPT ![y] = @ + 1]
    BY <1>0, <1>1, <1>5, BeginFields DEF AfterFile, Tallied, t
  <2>2. y \in {"attributed", "loose"}
    OBVIOUS
  <2>3. ASSUME NEW x \in DOMAIN NoTally
        PROVE  Worth(imp.bundle, imp.from, x, t) = IF x = y THEN 1 ELSE 0
    <3>1. ~SkipsTask(imp.bundle, imp.from, t)
      BY <1>2, <1>5 DEF SkipsTask
    <3> QED  BY <1>2, <1>3, <1>5, <3>1, WorthOfOthers DEF t
  <2> HIDE DEF y
  <2>4. \A x \in DOMAIN NoTally : imp'.tally[x] = imp.tally[x] + Worth(imp.bundle, imp.from, x, t)
    BY <1>0, <1>4, <2>1, <2>2, <2>3
  <2> QED
    BY <1>2, <1>5, <2>1, <2>4 DEF Adds, SkipsTask, Fails, t
<1>6. CASE v \in {"invalid", "unsupported"}
  <2>1. /\ ~imp'.failed /\ imp'.skipped = imp.skipped \cup {t.path}
        /\ imp'.tally = [imp.tally EXCEPT !["skipped"] = @ + 1]
    BY <1>0, <1>1, <1>6, BeginFields DEF AfterFile, Skipped, t
  <2>2. ASSUME NEW x \in DOMAIN NoTally
        PROVE  Worth(imp.bundle, imp.from, x, t) = IF x = "skipped" THEN 1 ELSE 0
    BY <1>2, <1>6, WorthOfOthers DEF SkipsTask, t
  <2>3. \A x \in DOMAIN NoTally : imp'.tally[x] = imp.tally[x] + Worth(imp.bundle, imp.from, x, t)
    BY <1>0, <1>4, <2>1, <2>2
  <2> QED
    BY <1>2, <1>6, <2>1, <2>3 DEF Adds, SkipsTask, Fails, t
<1>7. CASE v \in {"forbidden", "missing"}
  <2>1. imp'.failed
    BY <1>0, <1>1, <1>7, BeginFields DEF AfterFile, Failed
  <2> QED  BY <1>2, <1>7, <2>1 DEF Fails, t
<1> QED  BY <1>1, <1>5, <1>6, <1>7

\* and an index's, which never fails it.
LEMMA IndexCounts ==
  ASSUME Orderly, Answering, Counted, ~imp.failed,
         NEW c \in calls, Hear(c), c.task.op = "index"
  PROVE  ~imp'.failed /\ Adds(c.task)
<1> DEFINE t == c.task
<1>0. /\ imp' = AfterIndex(c) /\ DOMAIN imp = DOMAIN NoImport /\ DOMAIN imp.tally = DOMAIN NoTally
      /\ imp.tally \in [DOMAIN NoTally -> Nat] /\ c.step \in Verdicts
  BY DEF Hear, Orderly, Counted
<1>1. IndexCall(c, t.path) /\ c.step # "sent"
  BY <1>0 DEF Answering, Verdicts
<1>2. TaskVerdict(imp.bundle, imp.from, t) =
        IF c.step \in {"unchanged", "updated"} THEN "described" ELSE "undescribed"
  BY <1>1 DEF IndexCall, TaskVerdict
<1>3. \A x \in DOMAIN NoTally : imp.tally[x] \in Nat
  BY <1>0
<1>4. ASSUME NEW x \in DOMAIN NoTally
      PROVE  Worth(imp.bundle, imp.from, x, t) =
               IF x = "skipped" /\ c.step \notin {"unchanged", "updated"} THEN 1 ELSE 0
  BY <1>2, WorthOfOthers DEF SkipsTask
<1> HIDE DEF t
<1>5. CASE c.step \in {"unchanged", "updated"}
  BY <1>0, <1>2, <1>3, <1>4, <1>5 DEF AfterIndex, Adds, SkipsTask, Fails, t
<1>6. CASE c.step \notin {"unchanged", "updated"}
  <2>1. /\ ~imp'.failed /\ imp'.skipped = imp.skipped \cup {t.path}
        /\ imp'.tally = [imp.tally EXCEPT !["skipped"] = @ + 1]
    BY <1>0, <1>6, BeginFields DEF AfterIndex, Skipped, t
  <2>2. \A x \in DOMAIN NoTally : imp'.tally[x] = imp.tally[x] + Worth(imp.bundle, imp.from, x, t)
    BY <1>0, <1>3, <1>4, <1>6, <2>1
  <2> QED
    BY <1>2, <1>6, <2>1, <2>2 DEF Adds, SkipsTask, Fails, t
<1> QED  BY <1>5, <1>6

\* What anything comes to is settled by what the caller may do.
LEMMA FatesSettled ==
  ASSUME site' = site, NEW b, NEW from
  PROVE  /\ \A T : /\ Tally(b, from, T)' = Tally(b, from, T)
                   /\ Skips(b, from, T)' = Skips(b, from, T)
         /\ \A t : Fails(b, from, t)' <=> Fails(b, from, t)
<1>1. \A p : /\ Verdict(b, from, p)' = Verdict(b, from, p)
             /\ FileVerdict(b, p)' = FileVerdict(b, p)
             /\ IndexRefusal(b, p)' = IndexRefusal(b, p)
  BY DEF Verdict, RefusalOf, FileVerdict, FileRefusal, IndexRefusal, Barred
<1>2. \A t : TaskVerdict(b, from, t)' = TaskVerdict(b, from, t)
  BY <1>1 DEF TaskVerdict
<1>3. \A T : /\ NotedIn(b, from, T)' = NotedIn(b, from, T)
             /\ RereadIn(b, from, T)' = RereadIn(b, from, T)
             /\ SkippedIn(b, from, T)' = SkippedIn(b, from, T)
  BY <1>1, <1>2 DEF NotedIn, RereadIn, SkippedIn, Notes, Rereads, SkipsTask
<1>4. \A x, T : CountedIn(b, from, x, T)' = CountedIn(b, from, x, T)
  BY <1>1, <1>2 DEF CountedIn, Counts, AsOwned, SkipsTask
<1> QED  BY <1>2, <1>3, <1>4 DEF Tally, Skips, Fails

\* What a run counted stays so while it hears nothing.
LEMMA CountRests ==
  ASSUME Counted, SameRun, imp'.tally = imp.tally, imp'.skipped = imp.skipped,
         imp'.failed = imp.failed, imp'.lost = imp.lost,
         Running' => Running /\ Heard' = Heard, imp.touched \subseteq imp'.touched
  PROVE  Counted'
<1>1. PICK b, from : b = imp.bundle /\ from = imp.from
  OBVIOUS
<1>2. imp'.bundle = b /\ imp'.from = from /\ site' = site
  BY <1>1 DEF SameRun
<1>3. /\ \A T : /\ Tally(b, from, T)' = Tally(b, from, T)
                /\ Skips(b, from, T)' = Skips(b, from, T)
      /\ \A t : Fails(b, from, t)' <=> Fails(b, from, t)
  BY <1>2, FatesSettled
<1>4. Running' => IsFiniteSet(Heard')
  BY DEF Counted
<1>5. ASSUME Running', ~imp'.failed, imp'.touched = {}
      PROVE  /\ \A x \in DOMAIN NoTally : imp'.tally[x] = Tally(imp.bundle, imp.from, Heard)'[x]
             /\ imp'.skipped = Skips(imp.bundle, imp.from, Heard)'
             /\ \A t \in Heard' : ~Fails(imp.bundle, imp.from, t)'
  <2>1. /\ \A x \in DOMAIN NoTally : imp.tally[x] = Tally(b, from, Heard)[x]
        /\ imp.skipped = Skips(b, from, Heard)
        /\ \A t \in Heard : ~Fails(b, from, t)
        /\ Heard' = Heard
    BY <1>1, <1>5 DEF Counted
  <2>2. /\ Tally(imp.bundle, imp.from, Heard)' = Tally(b, from, Heard)
        /\ Skips(imp.bundle, imp.from, Heard)' = Skips(b, from, Heard)
        /\ \A t : Fails(imp.bundle, imp.from, t)' <=> Fails(b, from, t)
    BY <1>2, <1>3, <2>1
  <2> QED  BY <2>1, <2>2
<1>6. ASSUME imp'.failed, ~imp'.lost, imp'.touched = {}
      PROVE  \E t \in AllTasks(imp'.bundle) : Fails(imp.bundle, imp.from, t)'
  <2>1. \E t \in AllTasks(b) : Fails(b, from, t)
    BY <1>1, <1>6 DEF Counted
  <2> QED  BY <1>2, <1>3, <2>1
<1> QED  BY <1>4, <1>5, <1>6 DEF Counted

\* A task more, and what it is worth.
LEMMA CountedHeard ==
  ASSUME Orderly, ConceptsGo, Answering, RowsFit, Counted, NEW c \in calls, Hear(c) \/ Lose(c)
  PROVE  Counted'
<1>0. DOMAIN imp = DOMAIN NoImport /\ DOMAIN imp.tally = DOMAIN NoTally
  BY DEF Orderly
<1>1. /\ imp'.bundle = imp.bundle /\ imp'.from = imp.from /\ imp'.dry = imp.dry /\ site' = site
      /\ imp'.phase = imp.phase /\ imp'.touched = imp.touched
      /\ imp.failed => imp'.failed
      /\ IF Lose(c) THEN imp'.failed ELSE imp'.lost = imp.lost
  BY <1>0, HearKeeps
<1>2. imp'.tally \in [DOMAIN NoTally -> Nat]
  BY <1>0, TallyTypes DEF Counted
<1>3. c.task \notin Heard /\ Heard' = Heard \cup {c.task}
  BY HeardHeard
<1>4. Running /\ IsFiniteSet(Heard)
  BY NobodyWaits DEF Orderly, Running, Counted, Phases
<1>5. IsFiniteSet(Heard')
  BY <1>3, <1>4, FS_AddElement
<1>6. PICK b, from : b = imp.bundle /\ from = imp.from
  OBVIOUS
<1>7. BundleFits(b)
  BY <1>6 DEF RowsFit
<1>8. /\ \A T : /\ Tally(b, from, T)' = Tally(b, from, T)
                /\ Skips(b, from, T)' = Skips(b, from, T)
      /\ \A t : Fails(b, from, t)' <=> Fails(b, from, t)
  BY <1>1, FatesSettled
<1>9. ASSUME Hear(c), ~imp.failed, imp.touched = {}
      PROVE  IF imp'.failed THEN Fails(b, from, c.task)
             ELSE /\ \A x \in DOMAIN NoTally : imp'.tally[x] = imp.tally[x] + Worth(b, from, x, c.task)
                  /\ imp'.skipped = imp.skipped \cup (IF SkipsTask(b, from, c.task) THEN {c.task.path} ELSE {})
                  /\ ~Fails(b, from, c.task)
  <2>1. c.task.op \in {"concept", "index"} \cup FileOps
    BY TasksAre DEF Orderly
  <2>2. CASE c.task.op = "concept"
    BY <1>4, <1>6, <1>9, <2>2, ConceptCounts DEF Adds
  <2>3. CASE c.task.op = "index"
    BY <1>4, <1>6, <1>9, <2>3, IndexCounts DEF Adds
  <2>4. CASE c.task.op \in FileOps
    BY <1>4, <1>6, <1>9, <2>4, FileCounts DEF Adds
  <2> QED  BY <2>1, <2>2, <2>3, <2>4
<1>10. c.task \in AllTasks(b)
  BY <1>6, EarlyIs DEF Orderly
<1>11. ASSUME Running', ~imp'.failed, imp'.touched = {}
       PROVE  /\ \A x \in DOMAIN NoTally : imp'.tally[x] = Tally(imp.bundle, imp.from, Heard)'[x]
              /\ imp'.skipped = Skips(imp.bundle, imp.from, Heard)'
              /\ \A t \in Heard' : ~Fails(imp.bundle, imp.from, t)'
  <2>1. Hear(c) /\ ~imp.failed /\ imp.touched = {}
    BY <1>1, <1>11
  <2>2. /\ \A x \in DOMAIN NoTally : imp.tally[x] = Tally(b, from, Heard)[x]
        /\ imp.skipped = Skips(b, from, Heard)
        /\ \A t \in Heard : ~Fails(b, from, t)
    BY <1>4, <1>6, <2>1 DEF Counted
  <2>3. /\ \A x \in DOMAIN NoTally :
             Tally(b, from, Heard \cup {c.task})[x] = Tally(b, from, Heard)[x] + Worth(b, from, x, c.task)
        /\ Skips(b, from, Heard \cup {c.task}) =
             Skips(b, from, Heard) \cup (IF SkipsTask(b, from, c.task) THEN {c.task.path} ELSE {})
    <3>1. PICK T, t : T = Heard /\ t = c.task
      OBVIOUS
    <3>2. /\ \A x \in DOMAIN NoTally : Tally(b, from, T \cup {t})[x] = Tally(b, from, T)[x] + Worth(b, from, x, t)
          /\ Skips(b, from, T \cup {t}) = Skips(b, from, T) \cup (IF SkipsTask(b, from, t) THEN {t.path} ELSE {})
      <4>1. IsFiniteSet(T) /\ t \notin T
        BY <1>3, <1>4, <3>1
      <4> QED  BY <1>7, <4>1, TallyGrows
    <3> QED  BY <3>1, <3>2
  <2>4. /\ Tally(imp.bundle, imp.from, Heard)' = Tally(b, from, Heard \cup {c.task})
        /\ Skips(imp.bundle, imp.from, Heard)' = Skips(b, from, Heard \cup {c.task})
        /\ \A t : Fails(imp.bundle, imp.from, t)' <=> Fails(b, from, t)
    BY <1>1, <1>3, <1>6, <1>8
  <2> QED
    BY <1>3, <1>9, <1>11, <2>1, <2>2, <2>3, <2>4
<1>12. ASSUME imp'.failed, ~imp'.lost, imp'.touched = {}
       PROVE  \E t \in AllTasks(imp'.bundle) : Fails(imp.bundle, imp.from, t)'
  <2>1. ~Lose(c)
    BY <1>0, <1>12, BeginFields DEF Lose
  <2>2. \E t \in AllTasks(b) : Fails(b, from, t)
    <3>1. CASE imp.failed
      BY <1>1, <1>6, <1>12, <2>1, <3>1 DEF Counted
    <3>2. CASE ~imp.failed
      BY <1>1, <1>9, <1>10, <1>12, <2>1, <3>2
    <3> QED  BY <3>1, <3>2
  <2> QED  BY <1>1, <1>6, <1>8, <2>2
<1> QED  BY <1>2, <1>5, <1>11, <1>12 DEF Counted

\* An import that begins has counted what reading the bundle counts.
LEMMA CountedBegun ==
  ASSUME Orderly, RowsFit, ArchiveInv, NEW b \in Sources, NEW dry, NEW strict, Begin(b, dry, strict)
  PROVE  Counted'
<1>1. /\ imp'.bundle = b /\ imp'.from = held /\ imp'.tally = ParseTally(b)
      /\ imp'.skipped = ParseSkips(b) /\ imp'.failed = FALSE /\ site' = site
  BY BeginSays
<1>2. Heard' = {}
  BY HeardBegun
<1>3. BundleFits(b)
  BY ArchiveFits DEF Sources, RowsFit
<1>4. ParseTally(b) \in [DOMAIN NoTally -> Nat] /\ IsFiniteSet({})
  BY <1>3, ParseTallies, FS_EmptySet
<1>5. PICK from : from = held
  OBVIOUS
<1>6. /\ \A x \in DOMAIN NoTally : Tally(b, from, {})[x] = ParseTally(b)[x]
      /\ Skips(b, from, {}) = ParseSkips(b)
  BY <1>3, TallyStarts
<1>7. /\ Tally(b, from, {})' = Tally(b, from, {}) /\ Skips(b, from, {})' = Skips(b, from, {})
  BY <1>1, FatesSettled
<1>8. /\ Tally(imp.bundle, imp.from, Heard)' = Tally(b, from, {})
      /\ Skips(imp.bundle, imp.from, Heard)' = Skips(b, from, {})
  BY <1>1, <1>2, <1>5, <1>7
<1> QED
  BY <1>1, <1>2, <1>4, <1>6, <1>8 DEF Counted

\* Every step keeps the tally that of the answers heard.
LEMMA CountedStep ==
  Orderly /\ ConceptsGo /\ Answering /\ ArchiveInv /\ Counted /\ [Next]_vars => Counted'
<1> SUFFICES ASSUME Orderly, ConceptsGo, Answering, ArchiveInv, Counted, [Next]_vars
             PROVE  Counted'
  OBVIOUS
<1>0. DOMAIN imp = DOMAIN NoImport /\ DOMAIN imp.tally = DOMAIN NoTally /\ RowsFit
  BY DEF Orderly, ArchiveInv
<1>1. CASE Others
  <2>1. PICK p : imp' = imp \/ imp' = [imp EXCEPT !.touched = @ \cup {p}]
    BY <1>0, <1>1, OthersTouch
  <2>2. /\ imp'.phase = imp.phase /\ imp'.left = imp.left /\ imp'.bundle = imp.bundle
        /\ imp'.from = imp.from /\ imp'.dry = imp.dry /\ imp'.tally = imp.tally
        /\ imp'.skipped = imp.skipped /\ imp'.failed = imp.failed /\ imp'.lost = imp.lost
        /\ imp.touched \subseteq imp'.touched
    BY <1>0, <2>1, BeginFields
  <2>3. site' = site /\ calls' = calls
    BY <1>0, <1>1, OthersTouch
  <2>4. Heard' = Heard
    BY <2>2, <2>3, HeardRests DEF InCall
  <2> QED  BY <2>2, <2>3, <2>4, CountRests DEF SameRun, Running
<1>2. CASE Exports \/ UNCHANGED vars
  <2>1. imp' = imp /\ calls' = calls /\ site' = site
    BY <1>2 DEF Exports, Snapshot, WriteListings, WriteConcepts, CloseArchive, Cut, WriteFile,
       OutOnly, vars
  <2>2. Heard' = Heard
    BY <2>1, HeardRests DEF InCall
  <2> QED  BY <2>1, <2>2, CountRests DEF SameRun, Running
<1>3. ASSUME NEW b \in Sources, NEW dry, NEW strict, Begin(b, dry, strict) PROVE Counted'
  BY <1>0, <1>3, CountedBegun
<1>4. ASSUME NEW t \in imp.left, Send(t) PROVE Counted'
  <2>1. imp' = [imp EXCEPT !.left = @ \ {t}] /\ site' = site
    BY <1>4 DEF Send, ImpOnly
  <2>2. /\ imp'.phase = imp.phase /\ imp'.bundle = imp.bundle
        /\ imp'.from = imp.from /\ imp'.dry = imp.dry /\ imp'.tally = imp.tally
        /\ imp'.skipped = imp.skipped /\ imp'.failed = imp.failed /\ imp'.lost = imp.lost
        /\ imp'.touched = imp.touched
    BY <1>0, <2>1, BeginFields
  <2>3. Heard' = Heard
    BY <1>4, HeardSent
  <2> QED  BY <2>1, <2>2, <2>3, CountRests DEF SameRun, Running
<1>5. ASSUME NEW c \in calls, Serves(c) PROVE Counted'
  <2>1. imp' = imp /\ site' = site
    BY <1>5, OneCallMoves DEF GoesOn
  <2>2. Heard' = Heard
    BY <1>5, HeardServed
  <2> QED  BY <2>1, <2>2, CountRests DEF SameRun, Running
<1>6. ASSUME NEW c \in calls, Hear(c) \/ Lose(c) PROVE Counted'
  BY <1>0, <1>6, CountedHeard
<1>7. CASE NextPhase \/ Abort
  <2>1. /\ imp'.bundle = imp.bundle /\ imp'.from = imp.from /\ imp'.dry = imp.dry
        /\ imp'.tally = imp.tally /\ imp'.skipped = imp.skipped /\ imp'.failed = imp.failed
        /\ imp'.lost = imp.lost /\ imp'.touched = imp.touched /\ site' = site
        /\ imp.failed => imp'.phase = "aborted"
        /\ ~imp.failed => imp.phase \in {"concepts", "attributed", "loose", "indexes"}
    BY <1>0, <1>7, PhaseSays
  <2>2. Running' => Running /\ Heard' = Heard
    <3> SUFFICES ASSUME Running' PROVE Running /\ Heard' = Heard
      OBVIOUS
    <3>1. ~imp.failed
      BY <2>1 DEF Running
    <3> QED  BY <1>7, <2>1, <3>1, HeardPassed DEF Running
  <2> QED  BY <2>1, <2>2, CountRests DEF SameRun
<1> QED
  BY <1>1, <1>2, <1>3, <1>4, <1>5, <1>6, <1>7 DEF Next, Imports, Serves

\* What a dry run foretold is what all the tasks of its bundle come to.
Foreseen ==
  LET b == foretold.bundle
      from == foretold.from
  IN /\ foretold.phase \in {"none", "done", "aborted"}
     /\ foretold.phase = "done" =>
          /\ foretold.tally \in [DOMAIN NoTally -> Nat]
          /\ \A x \in DOMAIN NoTally : foretold.tally[x] = Tally(b, from, AllTasks(b))[x]
          /\ foretold.skipped = Skips(b, from, AllTasks(b))
          /\ \A t \in AllTasks(b) : ~Fails(b, from, t)
     /\ foretold.phase = "aborted" => \E t \in AllTasks(b) : Fails(b, from, t)

\* What was foretold stands while no other dry run ends.
LEMMA ForetoldStays ==
  ASSUME Foreseen, foretold' = foretold, site' = site
  PROVE  Foreseen'
<1>1. PICK b, from : b = foretold.bundle /\ from = foretold.from
  OBVIOUS
<1>2. foretold'.bundle = b /\ foretold'.from = from
  BY <1>1
<1>3. /\ Tally(b, from, AllTasks(b))' = Tally(b, from, AllTasks(b))
      /\ Skips(b, from, AllTasks(b))' = Skips(b, from, AllTasks(b))
      /\ \A t : Fails(b, from, t)' <=> Fails(b, from, t)
  BY FatesSettled
<1> QED  BY <1>1, <1>2, <1>3 DEF Foreseen

\* A dry run that ends foretells the tally of all its requests.
LEMMA Foretelling ==
  ASSUME Orderly, Counted, Foreseen, NextPhase \/ Abort
  PROVE  Foreseen'
<1>0. DOMAIN imp = DOMAIN NoImport
  BY DEF Orderly
<1>1. site' = site
  BY <1>0, PhaseSays
<1>2. CASE foretold' = foretold
  BY <1>1, <1>2, ForetoldStays
<1>3. CASE foretold' # foretold
  <2>1. PICK phase \in {"done", "aborted"} : Foretell(phase) /\
             IF phase = "done" THEN NextPhase /\ imp.phase = "indexes" ELSE Abort
    BY <1>3 DEF NextPhase, Abort
  <2>2. /\ imp.dry /\ ~imp.lost /\ imp.touched = {}
        /\ foretold' = [phase |-> phase, bundle |-> imp.bundle, from |-> imp.from,
                        skipped |-> imp.skipped, tally |-> imp.tally]
    BY <1>3, <2>1 DEF Foretell
  <2>3. PICK b, from : b = imp.bundle /\ from = imp.from
    OBVIOUS
  <2>4. /\ foretold'.phase = phase /\ foretold'.bundle = b /\ foretold'.from = from
        /\ foretold'.skipped = imp.skipped /\ foretold'.tally = imp.tally
    BY <2>2, <2>3
  <2>5. /\ Tally(b, from, AllTasks(b))' = Tally(b, from, AllTasks(b))
        /\ Skips(b, from, AllTasks(b))' = Skips(b, from, AllTasks(b))
        /\ \A t : Fails(b, from, t)' <=> Fails(b, from, t)
    BY <1>1, FatesSettled
  <2>6. CASE phase = "done"
    <3>1. imp.phase = "indexes" /\ imp.left = {} /\ calls = {} /\ ~imp.failed
      BY <2>1, <2>6 DEF NextPhase, Over
    <3>2. Heard = Early("indexes", b) \cup Current("indexes", b)
      BY <2>3, <3>1 DEF Heard, InCall
    <3>3. Heard = AllTasks(b)
      BY <3>2, EarlyIs DEF NextOf
    <3>4. /\ imp.tally \in [DOMAIN NoTally -> Nat]
          /\ \A x \in DOMAIN NoTally : imp.tally[x] = Tally(b, from, AllTasks(b))[x]
          /\ imp.skipped = Skips(b, from, AllTasks(b))
          /\ \A t \in AllTasks(b) : ~Fails(b, from, t)
      BY <2>2, <2>3, <3>1, <3>3 DEF Counted, Running
    <3> QED  BY <2>4, <2>5, <2>6, <3>4 DEF Foreseen
  <2>7. CASE phase = "aborted"
    <3>1. \E t \in AllTasks(b) : Fails(b, from, t)
      BY <2>1, <2>2, <2>3, <2>7 DEF Abort, Counted
    <3> QED  BY <2>4, <2>5, <2>7, <3>1 DEF Foreseen
  <2> QED  BY <2>6, <2>7
<1> QED  BY <1>2, <1>3

\* Every step keeps what dry runs foretold.
LEMMA ForeseenStep == Orderly /\ Counted /\ Foreseen /\ [Next]_vars => Foreseen'
<1> SUFFICES ASSUME Orderly, Counted, Foreseen, [Next]_vars PROVE Foreseen'
  OBVIOUS
<1>0. DOMAIN imp = DOMAIN NoImport /\ DOMAIN imp.tally = DOMAIN NoTally
  BY DEF Orderly
<1>1. CASE Others
  BY <1>0, <1>1, OthersTouch, ForetoldStays
<1>2. CASE Exports \/ UNCHANGED vars
  <2>1. foretold' = foretold /\ site' = site
    BY <1>2 DEF Exports, Snapshot, WriteListings, WriteConcepts, CloseArchive, Cut, WriteFile,
       OutOnly, vars
  <2> QED  BY <2>1, ForetoldStays
<1>3. ASSUME NEW b, NEW dry, NEW strict, Begin(b, dry, strict) PROVE Foreseen'
  BY <1>3, BeginSays, ForetoldStays
<1>4. ASSUME NEW t \in imp.left, Send(t) PROVE Foreseen'
  BY <1>4, ForetoldStays DEF Send, ImpOnly
<1>5. ASSUME NEW c \in calls, Serves(c) PROVE Foreseen'
  BY <1>5, OneCallMoves, ForetoldStays DEF GoesOn
<1>6. ASSUME NEW c \in calls, Hear(c) \/ Lose(c) PROVE Foreseen'
  BY <1>0, <1>6, HearKeeps, ForetoldStays
<1>7. CASE NextPhase \/ Abort
  BY <1>7, Foretelling
<1> QED
  BY <1>1, <1>2, <1>3, <1>4, <1>5, <1>6, <1>7 DEF Next, Imports, Serves

\* Nothing is counted, answered or foretold at the start.
LEMMA NothingCounted == Init => Counted /\ Answering /\ Foreseen
<1> SUFFICES ASSUME Init PROVE Counted /\ Answering /\ Foreseen
  OBVIOUS
<1>1. imp = NoImport /\ calls = {} /\ foretold = NoForecast
  BY DEF Init
<1>2. ~Running /\ ~imp.failed
  BY <1>1 DEF NoImport, Running
<1>3. imp.tally \in [DOMAIN NoTally -> Nat]
  BY <1>1 DEF NoImport, NoTally
<1> QED  BY <1>1, <1>2, <1>3 DEF Counted, Answering, Foreseen, NoForecast

\* It all holds of every behaviour.
LEMMA Foretold ==
  Spec => [](Orderly /\ ArchiveInv /\ ConceptsGo /\ Answering /\ Counted /\ Foreseen)
<1>1. Init => Counted /\ Answering /\ Foreseen
  BY NothingCounted
<1>2. /\ Orderly /\ ArchiveInv /\ ConceptsGo /\ Answering /\ Counted /\ Foreseen
      /\ [Next]_vars
      => Answering' /\ Counted' /\ Foreseen'
  BY AnsweringStep, CountedStep, ForeseenStep
<1> QED  BY <1>1, <1>2, Archived, ConceptsGone, PTL DEF Spec

\* What a dry run answers is what the import comes to (dryRunImport: "the ones the
\* import itself would meet"): each task has one verdict, which the bundle, the base as
\* it was found and what the caller may do settle; a run that ends well has heard them
\* all and counted each once, whatever the order, and one that fails met one that fails.
THEOREM DryRunsForesee == Spec => []DryRunForesees
<1>1. Orderly /\ Counted /\ Foreseen => DryRunForesees
  <2> SUFFICES ASSUME Orderly, Counted, Foreseen,
                      imp.phase \in {"done", "aborted"}, ~imp.lost, imp.touched = {},
                      foretold.phase # "none", foretold.bundle = imp.bundle, foretold.from = imp.from
               PROVE  /\ imp.phase = foretold.phase
                      /\ imp.phase = "done" => imp.tally = foretold.tally /\ imp.skipped = foretold.skipped
    BY DEF DryRunForesees
  <2>1. CASE imp.phase = "done"
    <3>1. Heard = AllTasks(imp.bundle) /\ ~imp.failed
      BY <2>1, HeardAtLast DEF Orderly
    <3>2. /\ imp.tally \in [DOMAIN NoTally -> Nat]
          /\ \A x \in DOMAIN NoTally : imp.tally[x] = Tally(imp.bundle, imp.from, AllTasks(imp.bundle))[x]
          /\ imp.skipped = Skips(imp.bundle, imp.from, AllTasks(imp.bundle))
          /\ \A t \in AllTasks(imp.bundle) : ~Fails(imp.bundle, imp.from, t)
      BY <2>1, <3>1 DEF Counted, Running
    <3>3. foretold.phase = "done"
      BY <3>2 DEF Foreseen
    <3>4. /\ foretold.tally \in [DOMAIN NoTally -> Nat]
          /\ \A x \in DOMAIN NoTally : foretold.tally[x] = imp.tally[x]
          /\ foretold.skipped = imp.skipped
      BY <3>2, <3>3 DEF Foreseen
    <3> QED  BY <2>1, <3>2, <3>3, <3>4
  <2>2. CASE imp.phase = "aborted"
    <3>1. \E t \in AllTasks(imp.bundle) : Fails(imp.bundle, imp.from, t)
      BY <2>2 DEF Counted, Orderly
    <3> QED  BY <2>2, <3>1 DEF Foreseen
  <2> QED  BY <2>1, <2>2
<1> QED  BY <1>1, Foretold, PTL

-----------------------------------------------------------------------------
(* A base's own archive, handed back.                                        *)

\* What a concept claims was seen before the row was written.
PastRow(row, now) == /\ row.claim.at \in 0 .. now
                     /\ row.claim # None => row.claim.by # row.by \/ row.claim.at # row.at
PastRows(rows, now) == \A p \in DOMAIN rows : IsMarkdown(p) => PastRow(rows[p], now)
PastBundle(b, now) == \A p \in ConceptsOf(b) : ClaimIn(b[p]).at \in 0 .. now
ClaimsPast ==
  /\ PastRows(held, clock)
  /\ out.phase \in Archiving => PastRows(out.snap, clock)
  /\ \A b \in site.bundles \cup {imp.bundle} : PastBundle(b, clock)
  /\ \A c \in calls :
       /\ c.task.op = "concept" => c.k.claim.at \in 0 .. clock /\ DOMAIN c.k = {"says", "links", "claim"}
       /\ c.step = "sent" => c.k = Sent(imp.bundle[c.task.path])

\* A row stamped now keeps every claim in the past.
LEMMA StampPast ==
  ASSUME clock \in Nat, PastRows(held, clock), NEW p, NEW k, NEW who, k.claim.at \in 0 .. clock,
         Stamped(p, k, who)
  PROVE  PastRows(held', clock') /\ clock' = clock + 1
<1> DEFINE row == [says |-> k.says, links |-> k.links, claim |-> k.claim,
                   by |-> who, at |-> clock + 1, confirmed |-> FALSE]
<1>1. row.claim = k.claim /\ row.at = clock + 1
  OBVIOUS
<1>2. PastRow(row, clock + 1)
  BY <1>1 DEF PastRow
<1>3. held' = With(held, p, row) /\ clock' = clock + 1
  BY DEF Stamped
<1> HIDE DEF row
<1>4. \A q \in DOMAIN held : IsMarkdown(q) => PastRow(held[q], clock + 1)
  BY DEF PastRows, PastRow
<1> QED  BY <1>2, <1>3, <1>4 DEF PastRows, With

\* So does a file, which claims nothing.
LEMMA FilePast ==
  ASSUME PastRows(held, clock), NEW p, ~IsMarkdown(p), NEW row,
         held' = With(held, p, row), clock' = clock
  PROVE  PastRows(held', clock')
BY DEF PastRows, With

\* What a call sends is the bundle's claim or none.
LEMMA ServedPast ==
  ASSUME Orderly, ClaimsPast, NEW c \in calls, Serves(c)
  PROVE  \E d : /\ calls' = (calls \ {c}) \cup {d} /\ d.task = c.task /\ d.step # "sent"
                /\ c.task.op = "concept" => /\ d.k.claim \in {c.k.claim, None}
                                            /\ DOMAIN d.k = DOMAIN c.k
<1>0. DOMAIN c = {"task", "step", "k", "claim"}
  BY DEF Orderly
<1> DEFINE As(d) == /\ calls' = (calls \ {c}) \cup {d} /\ d.task = c.task /\ d.step # "sent"
                    /\ c.task.op = "concept" => /\ d.k.claim \in {c.k.claim, None}
                                                /\ DOMAIN d.k = DOMAIN c.k
<1> SUFFICES \E d : As(d)
  OBVIOUS
<1>1. ASSUME NEW v, v # "sent", NEW claim, Answers(c, v, claim) PROVE \E d : As(d)
  <2>1. As([c EXCEPT !.step = v, !.claim = claim])
    BY <1>0, <1>1 DEF Answers
  <2> QED  BY <2>1
<1>2. ASSUME NEW v, v # "sent", NEW k, k.claim \in {c.k.claim, None}, DOMAIN k = DOMAIN c.k, Goes(c, v, k)
      PROVE  \E d : As(d)
  <2>1. As([c EXCEPT !.step = v, !.k = k])
    BY <1>0, <1>2 DEF Goes
  <2> QED  BY <2>1
<1> HIDE DEF As
<1>3. ASSUME NEW v, v # "sent", Answer(c, v) PROVE \E d : As(d)
  BY <1>1, <1>3 DEF Answer
<1>4. \A p : Refusal(c) # "sent" /\ FileRefusal(p) # "sent" /\ Barred(p) # "sent" /\ PlanRefusal(c) # "sent"
  BY DEF Refusal, PlanRefusal, FileRefusal, Barred
<1>5. ASSUME c.task.op = "concept", NEW old
      PROVE  Settled(c.k, old).claim \in {c.k.claim, None} /\ DOMAIN Settled(c.k, old) = DOMAIN c.k
  BY <1>5 DEF Settled, ClaimsPast
<1>6. CASE Look(c)
  <2> DEFINE k == Settled(c.k, held[c.task.path])
  <2>1. k.claim \in {c.k.claim, None} /\ DOMAIN k = DOMAIN c.k
    BY <1>5, <1>6 DEF Look
  <2>2. \/ \E v : v # "sent" /\ Answer(c, v)
        \/ Answers(c, "unchanged", held[c.task.path].claim)
        \/ Goes(c, "create", c.k) \/ Goes(c, "write", k) \/ Goes(c, "rewrite", k)
    BY <1>4, <1>6 DEF Look
  <2> HIDE DEF k
  <2> QED  BY <1>1, <1>2, <1>3, <2>1, <2>2
<1>7. CASE Write(c)
  BY <1>1, <1>2, <1>3, <1>7 DEF Write
<1>8. CASE Create(c)
  BY <1>1, <1>2, <1>3, <1>4, <1>8 DEF Create
<1>9. CASE Plan(c)
  BY <1>1, <1>3, <1>4, <1>9 DEF Plan
<1>10. CASE PutFile(c)
  BY <1>3, <1>4, <1>10 DEF PutFile
<1>11. CASE Describe(c)
  BY <1>3, <1>4, <1>11 DEF Describe
<1> QED
  BY <1>6, <1>7, <1>8, <1>9, <1>10, <1>11 DEF Serves

\* What an archive says was seen or claimed is in the past.
LEMMA ArchivePast ==
  ASSUME ArchiveInv, ClaimsPast, out.phase = "complete"
  PROVE  PastBundle(out.archive, clock)
<1> SUFFICES ASSUME NEW p \in ConceptsOf(out.archive)
             PROVE  ClaimIn(out.archive[p]).at \in 0 .. clock
  BY DEF PastBundle
<1>1. p \in DOMAIN out.archive /\ IsMarkdown(p) /\ ~IsIndex(p) /\ ~IsLog(p)
  BY DEF ConceptsOf, Addressable
<1>2. p \in DOMAIN out.snap /\ out.archive[p] = Document(out.snap[p])
  BY <1>1, ArchivePath
<1>3. out.snap[p].at \in 0 .. clock /\ out.snap[p].claim.at \in 0 .. clock
  BY <1>1, <1>2 DEF ArchiveInv, Remaining, Archiving, Fits, RowFits, ClaimsPast, PastRows, PastRow
<1>4. ClaimIn(out.archive[p]) \in {out.snap[p].claim, Observed(out.snap[p])}
  BY <1>2 DEF Document, ClaimIn
<1> QED  BY <1>3, <1>4 DEF Observed

\* Every step keeps the base's claims in the past,
LEMMA HeldPast ==
  ASSUME Orderly, RowsFit, ClaimsPast, [Next]_vars
  PROVE  PastRows(held', clock')
<1>0. clock \in Nat /\ PastRows(held, clock)
  BY DEF RowsFit, ClaimsPast
<1>1. ASSUME NEW p \in site.contested, Edit(p) \/ Confirm(p) \/ Delete(p) \/ Upload(p)
      PROVE  PastRows(held', clock')
  <2>1. CASE Edit(p)
    <3> DEFINE k == [says |-> "theirs", links |-> IF Here(p) THEN held[p].links ELSE << >>, claim |-> None]
    <3>1. k.claim.at \in 0 .. clock
      BY <1>0 DEF None
    <3>2. Stamped(p, k, "them")
      BY <2>1 DEF Edit
    <3> HIDE DEF k
    <3> QED  BY <1>0, <3>1, <3>2, StampPast
  <2>2. CASE Confirm(p)
    <3>1. clock' = clock /\ p \in DOMAIN held /\ held' = [held EXCEPT ![p].confirmed = TRUE]
      BY <2>2 DEF Confirm, Here
    <3>2. DOMAIN held' = DOMAIN held /\ \A q \in DOMAIN held : q # p => held'[q] = held[q]
      BY <3>1
    <3>3. held'[p] = [held[p] EXCEPT !.confirmed = TRUE]
      BY <3>1
    <3>4. DOMAIN held[p] = {"says", "links", "claim", "by", "at", "confirmed"}
      BY <3>1 DEF RowsFit, Fits, RowFits
    <3>5. held'[p].claim = held[p].claim /\ held'[p].by = held[p].by /\ held'[p].at = held[p].at
      BY <3>3, <3>4
    <3> QED  BY <1>0, <3>1, <3>2, <3>5 DEF PastRows, PastRow
  <2>3. CASE Delete(p)
    BY <1>0, <2>3 DEF Delete, Without, PastRows
  <2>4. CASE Upload(p)
    BY <1>0, <2>4, FilePast DEF Upload
  <2> QED  BY <1>1, <2>1, <2>2, <2>3, <2>4
<1>2. CASE \E x \in blobs : Sweep(x)
  BY <1>0, <1>2 DEF Sweep
<1>3. CASE Exports \/ UNCHANGED vars
  BY <1>0, <1>3 DEF Exports, Snapshot, WriteListings, WriteConcepts, CloseArchive, Cut, WriteFile,
     OutOnly, base, vars
<1>4. ASSUME NEW c \in calls, Serves(c) PROVE PastRows(held', clock')
  <2>1. CASE Look(c) \/ Plan(c) \/ Describe(c)
    BY <1>0, <2>1 DEF Look, Plan, Describe
  <2>2. CASE Write(c) \/ Create(c)
    <3>1. c.task.op = "concept"
      BY <2>2 DEF Write, Create, Orderly, Verdicts
    <3>2. UNCHANGED <<held, clock>> \/ Stamped(c.task.path, c.k, "me")
      BY <2>2 DEF Write, Create
    <3>3. c.k.claim.at \in 0 .. clock
      BY <3>1 DEF ClaimsPast
    <3> QED  BY <1>0, <3>2, <3>3, StampPast
  <2>3. CASE PutFile(c)
    <3> DEFINE p == Unclaimed(imp.bundle, c.task.path)
    <3>1. clock' = clock
      BY <2>3 DEF PutFile
    <3>2. held' = held \/ (FileRefusal(p) = "none" /\ held' = With(held, p, FileRow(c.k.says)))
      BY <2>3 DEF PutFile
    <3>3. FileRefusal(p) = "none" => ~IsMarkdown(p)
      BY DEF FileRefusal
    <3> QED  BY <1>0, <3>1, <3>2, <3>3, FilePast
  <2> QED  BY <1>4, <2>1, <2>2, <2>3 DEF Serves
<1>5. CASE \/ \E b \in Sources, dry \in BOOLEAN, strict \in Stricts : Begin(b, dry, strict)
           \/ \E t \in imp.left : Send(t)
           \/ \E c \in calls : Hear(c) \/ Lose(c)
           \/ NextPhase \/ Abort
  BY <1>0, <1>5 DEF Begin, Send, Hear, Lose, NextPhase, Abort, ImpOnly, base
<1> QED
  BY <1>1, <1>2, <1>3, <1>4, <1>5 DEF Next, Others, Imports, Serves

\* and those of the requests in flight.
LEMMA CallsPast ==
  ASSUME Orderly, ClaimsPast, clock \in Nat, clock' \in {clock, clock + 1},
         site' = site, [Next]_vars
  PROVE  \A c \in calls' :
           /\ c.task.op = "concept" => /\ c.k.claim.at \in 0 .. clock'
                                       /\ DOMAIN c.k = {"says", "links", "claim"}
           /\ c.step = "sent" => c.k = Sent(imp'.bundle[c.task.path])
<1>0. DOMAIN imp = DOMAIN NoImport /\ DOMAIN imp.tally = DOMAIN NoTally
  BY DEF Orderly
<1>1. 0 .. clock \subseteq 0 .. clock'
  OBVIOUS
<1>2. CASE imp'.bundle = imp.bundle /\ calls' \subseteq calls
  BY <1>1, <1>2 DEF ClaimsPast
<1>3. CASE calls' = {}
  BY <1>3
<1>4. CASE Others
  BY <1>0, <1>2, <1>4, OthersTouch, BeginFields
<1>5. CASE Exports \/ UNCHANGED vars
  BY <1>2, <1>5 DEF Exports, Snapshot, WriteListings, WriteConcepts, CloseArchive, Cut, WriteFile,
     OutOnly, vars
<1>6. ASSUME NEW t \in imp.left, Send(t)
      PROVE  \A c \in calls' :
               /\ c.task.op = "concept" => /\ c.k.claim.at \in 0 .. clock'
                                           /\ DOMAIN c.k = {"says", "links", "claim"}
               /\ c.step = "sent" => c.k = Sent(imp'.bundle[c.task.path])
  <2>1. imp'.bundle = imp.bundle
    BY <1>0, <1>6, BeginFields DEF Send
  <2>2. PICK d : /\ calls' = calls \cup {d} /\ d.task = t /\ d.step = "sent"
                 /\ d.k = Sent(imp.bundle[t.path])
    BY <1>6, OneSent
  <2>3. t.op = "concept" => t.path \in ConceptsOf(imp.bundle)
    BY <1>6, TasksAre DEF Orderly
  <2>4. t.op = "concept" => d.k.claim.at \in 0 .. clock /\ DOMAIN d.k = {"says", "links", "claim"}
    BY <2>2, <2>3 DEF ClaimsPast, PastBundle, Sent
  <2> QED  BY <1>1, <2>1, <2>2, <2>4 DEF ClaimsPast
<1>7. ASSUME NEW c \in calls, Serves(c)
      PROVE  \A d \in calls' :
               /\ d.task.op = "concept" => /\ d.k.claim.at \in 0 .. clock'
                                           /\ DOMAIN d.k = {"says", "links", "claim"}
               /\ d.step = "sent" => d.k = Sent(imp'.bundle[d.task.path])
  <2>1. imp' = imp
    BY <1>7, OneCallMoves DEF GoesOn
  <2>2. PICK d : /\ calls' = (calls \ {c}) \cup {d} /\ d.task = c.task /\ d.step # "sent"
                 /\ c.task.op = "concept" => /\ d.k.claim \in {c.k.claim, None}
                                             /\ DOMAIN d.k = DOMAIN c.k
    BY <1>7, ServedPast
  <2>3. None.at \in 0 .. clock
    BY DEF None
  <2>4. d.task.op = "concept" => d.k.claim.at \in 0 .. clock /\ DOMAIN d.k = {"says", "links", "claim"}
    BY <2>2, <2>3 DEF ClaimsPast
  <2> QED  BY <1>1, <2>1, <2>2, <2>4 DEF ClaimsPast
<1>8. CASE \E c \in calls : Hear(c) \/ Lose(c)
  BY <1>0, <1>2, <1>8, HearKeeps
<1>9. CASE NextPhase \/ Abort
  BY <1>0, <1>3, <1>9, PhaseSays
<1>10. CASE \E b, dry, strict : Begin(b, dry, strict)
  BY <1>3, <1>10, BeginSays, NobodyWaits
<1> QED
  BY <1>4, <1>5, <1>6, <1>7, <1>8, <1>9, <1>10 DEF Next, Imports, Serves

\* A snapshot is what was held when it was taken, for as long as it is read.
LEMMA SnapKept ==
  ASSUME Orderly, OutFits, [Next]_vars
  PROVE  out'.phase \in Archiving =>
           out'.snap = held \/ (out.phase \in Archiving /\ out'.snap = out.snap)
<1>0. DOMAIN out = DOMAIN NoArchive
  BY DEF OutFits
<1>1. CASE Exports
  <2>1. ASSUME NEW prefix, NEW withFiles, Snapshot(prefix, withFiles) PROVE out'.snap = held
    <3>1. PICK files : out' = [NoArchive EXCEPT !.phase = "snapshot", !.prefix = prefix,
                                 !.snap = held, !.left = ConceptsUnder(held, prefix), !.files = files]
      BY <2>1 DEF Snapshot
    <3> QED  BY <3>1, OutFields
  <2>2. CASE WriteListings
    BY <1>0, <2>2, OutFields DEF WriteListings, Archiving
  <2>3. CASE WriteConcepts
    BY <1>0, <2>3, OutFields DEF WriteConcepts, Archiving
  <2>4. ASSUME NEW p, WriteFile(p) PROVE out.phase \in Archiving /\ out'.snap = out.snap
    BY <1>0, <2>4, OutFields DEF WriteFile, Archiving
  <2>5. CASE CloseArchive \/ Cut
    BY <1>0, <2>5, OutFields DEF CloseArchive, Cut, Archiving
  <2> QED  BY <1>1, <2>1, <2>2, <2>3, <2>4, <2>5 DEF Exports
<1>2. CASE ~Exports
  <2>1. out' = out
    BY <1>2, OneCallMoves DEF Next, Others, Edit, Confirm, Delete, Upload, Theirs, Sweep,
       Imports, Serves, GoesOn, Begin, Send, Hear, Lose, NextPhase, Abort, ImpOnly, vars
  <2> QED  BY <2>1
<1> QED  BY <1>1, <1>2

\* Every step keeps all claims in the past.
LEMMA ClaimsPastStep == Orderly /\ ArchiveInv /\ ClaimsPast /\ [Next]_vars => ClaimsPast'
<1> SUFFICES ASSUME Orderly, ArchiveInv, ClaimsPast, [Next]_vars PROVE ClaimsPast'
  OBVIOUS
<1>0. RowsFit /\ OutFits /\ clock \in Nat
  BY DEF ArchiveInv, RowsFit
<1>1. clock' \in {clock, clock + 1}
  BY <1>0, HeldStep
<1>2. site' = site /\ imp'.bundle \in {imp.bundle} \cup Sources
  BY SameSite
<1>3. PastRows(held', clock')
  BY <1>0, HeldPast
<1>4. \A rows : PastRows(rows, clock) => PastRows(rows, clock')
  BY <1>0, <1>1 DEF PastRows, PastRow
<1>5. out'.phase \in Archiving => PastRows(out'.snap, clock')
  <2>1. PastRows(held, clock) /\ (out.phase \in Archiving => PastRows(out.snap, clock))
    BY DEF ClaimsPast
  <2> QED  BY <1>0, <1>4, <2>1, SnapKept
<1>6. \A b : PastBundle(b, clock) => PastBundle(b, clock')
  BY <1>0, <1>1 DEF PastBundle
<1>7. \A b \in site'.bundles \cup {imp'.bundle} : PastBundle(b, clock')
  <2>1. \A b \in {imp.bundle} \cup Sources : PastBundle(b, clock)
    BY ArchivePast DEF Sources, ClaimsPast
  <2> QED  BY <1>2, <1>6, <2>1 DEF Sources
<1>8. \A c \in calls' :
        /\ c.task.op = "concept" => /\ c.k.claim.at \in 0 .. clock'
                                    /\ DOMAIN c.k = {"says", "links", "claim"}
        /\ c.step = "sent" => c.k = Sent(imp'.bundle[c.task.path])
  BY <1>0, <1>1, <1>2, CallsPast
<1> QED  BY <1>3, <1>5, <1>7, <1>8 DEF ClaimsPast

\* Whatever holds files can keep them.
FilesKept ==
  out.phase \in Archiving /\ ~site.files =>
    /\ out.files = {}
    /\ out.phase # "snapshot" =>
         \A p \in DOMAIN out.archive : IsIndex(p) \/ IsLog(p) \/ IsMarkdown(p)

\* Every step keeps files out of the archive of a base that holds none.
LEMMA FilesKeptStep == Orderly /\ ArchiveInv /\ FilesKept /\ [Next]_vars => FilesKept'
<1> SUFFICES ASSUME Orderly, ArchiveInv, FilesKept, [Next]_vars, ~site.files, out'.phase \in Archiving
             PROVE  /\ out'.files = {}
                    /\ out'.phase # "snapshot" =>
                         \A p \in DOMAIN out'.archive : IsIndex(p) \/ IsLog(p) \/ IsMarkdown(p)
  BY SameSite DEF FilesKept
<1>0. DOMAIN out = DOMAIN NoArchive
  BY DEF ArchiveInv, OutFits
<1>1. ASSUME NEW prefix, NEW withFiles, Snapshot(prefix, withFiles)
      PROVE  out'.files = {} /\ out'.phase = "snapshot"
  <2>1. out' = [NoArchive EXCEPT !.phase = "snapshot", !.prefix = prefix,
                                 !.snap = held, !.left = ConceptsUnder(held, prefix), !.files = {}]
    BY <1>1 DEF Snapshot
  <2> QED  BY <2>1, OutFields
<1>2. CASE WriteListings
  <2>1. /\ out'.files = out.files /\ out'.archive = Listings(out.left) /\ out.files = {}
        /\ out.left = Carried
    BY <1>0, <1>2, OutFields DEF WriteListings, FilesKept, Archiving, ArchiveInv, Remaining
  <2>2. \A p \in Carried : p \in Seq(Seq(STRING))
    BY <1>2, CarriedAre DEF WriteListings, Archiving
  <2>3. \A p \in DOMAIN Listings(Carried) : IsIndex(p) \/ IsLog(p)
    BY <2>2, ListingsSay
  <2> QED  BY <2>1, <2>3
<1>3. CASE WriteConcepts
  <2>1. PICK ps \in SUBSET out.left :
          out' = [out EXCEPT !.left = @ \ ps, !.archive =
                    [p \in DOMAIN out.archive \cup ps |->
                       IF p \in ps THEN Document(RowOf(p)) ELSE out.archive[p]]]
    BY <1>3 DEF WriteConcepts
  <2>2. /\ out'.files = out.files /\ DOMAIN out'.archive = DOMAIN out.archive \cup ps
        /\ out.phase = "listed"
    BY <1>0, <1>3, <2>1, OutFields DEF WriteConcepts
  <2>3. \A p \in out.left : IsMarkdown(p)
    BY <2>2, CarriedAre DEF ArchiveInv, Remaining, Archiving
  <2> QED  BY <2>2, <2>3 DEF FilesKept, Archiving
<1>4. ASSUME NEW p \in out.files, WriteFile(p) PROVE FALSE
  BY <1>4 DEF WriteFile, FilesKept, Archiving
<1>5. CASE CloseArchive \/ Cut
  <2>1. /\ out'.files = out.files /\ out'.archive = out.archive
        /\ out.phase \in Archiving /\ out'.phase = "complete" /\ out.phase = "listed"
    BY <1>0, <1>5, OutFields DEF CloseArchive, Cut, Archiving
  <2> QED  BY <2>1 DEF FilesKept
<1>6. CASE ~Exports
  <2>1. out' = out
    BY <1>6, OneCallMoves DEF Next, Others, Edit, Confirm, Delete, Upload, Theirs, Sweep,
       Imports, Serves, GoesOn, Begin, Send, Hear, Lose, NextPhase, Abort, ImpOnly, vars
  <2> QED  BY <2>1 DEF FilesKept
<1> QED  BY <1>1, <1>2, <1>3, <1>4, <1>5, <1>6 DEF Exports

\* Nothing but what is touched or imported is disturbed by a run.
Stands(q) ==
  \/ q \in imp.touched \/ AsFound(q) \/ q \in ConceptsOf(imp.bundle)
  \/ \E t \in FileTasks(imp.bundle) :
       q = Unclaimed(imp.bundle, t.path) /\ Here(q) /\ held[q] = FileRow(imp.bundle[t.path].says)
Elsewhere == Running => \A q : Stands(q)

\* A path left alone stands as it stood.
LEMMA StandsStill ==
  ASSUME NEW q, Stands(q), SameAt(q), imp'.bundle = imp.bundle, imp'.from = imp.from,
         imp.touched \subseteq imp'.touched
  PROVE  Stands(q)'
BY DEF Stands, SameAt, AsFound, Here

\* A request served disturbs no path but the one it is of.
LEMMA ServedStands ==
  ASSUME Orderly, ClaimsPast, NEW c \in calls, Serves(c), NEW q, Stands(q)
  PROVE  Stands(q)'
<1>0. imp' = imp /\ c.task \in Current(imp.phase, imp.bundle)
  BY OneCallMoves DEF GoesOn, Orderly
<1>1. CASE SameAt(q)
  BY <1>0, <1>1, StandsStill
<1>2. CASE Write(c) \/ Create(c)
  <2>1. c.task.op = "concept"
    BY <1>2 DEF Write, Create, Orderly, Verdicts
  <2>2. c.task.path \in ConceptsOf(imp.bundle)
    BY <1>0, <2>1, TasksAre
  <2>3. CASE q = c.task.path
    BY <1>0, <2>2, <2>3 DEF Stands
  <2>4. CASE q # c.task.path
    <3>1. SameAt(q)
      BY <1>2, <2>4 DEF Write, Create, Stamped, With, SameAt
    <3> QED  BY <1>1, <3>1
  <2> QED  BY <2>3, <2>4
<1>3. CASE PutFile(c)
  <2> DEFINE p == Unclaimed(imp.bundle, c.task.path)
  <2>1. c.task.op \in FileOps /\ c.k = Sent(imp.bundle[c.task.path])
    BY <1>3 DEF PutFile, FileOps, ClaimsPast
  <2>2. c.task \in FileTasks(imp.bundle)
    BY <1>0, <2>1, FileTasksAre
  <2>3. held' = held \/ held' = With(held, p, FileRow(imp.bundle[c.task.path].says))
    BY <1>3, <2>1 DEF PutFile, Sent
  <2>4. CASE held' = held \/ q # p
    <3>1. SameAt(q)
      BY <2>3, <2>4 DEF With, SameAt
    <3> QED  BY <1>1, <3>1
  <2>5. CASE held' # held /\ q = p
    <3>1. q \in DOMAIN held' /\ held'[q] = FileRow(imp.bundle[c.task.path].says)
      BY <2>3, <2>5 DEF With
    <3> QED  BY <1>0, <2>2, <2>5, <3>1 DEF Stands, Here
  <2> QED  BY <2>4, <2>5
<1>4. CASE Look(c) \/ Plan(c) \/ Describe(c)
  <2>1. SameAt(q)
    BY <1>4 DEF Look, Plan, Describe, SameAt
  <2> QED  BY <1>1, <2>1
<1> QED  BY <1>2, <1>3, <1>4 DEF Serves

\* Every step leaves what nobody touched, nor imports, as the import found it.
LEMMA ElsewhereStep == Orderly /\ ClaimsPast /\ Elsewhere /\ [Next]_vars => Elsewhere'
<1> SUFFICES ASSUME Orderly, ClaimsPast, Elsewhere, [Next]_vars, Running', NEW q PROVE Stands(q)'
  BY DEF Elsewhere
<1>0. DOMAIN imp = DOMAIN NoImport /\ DOMAIN imp.tally = DOMAIN NoTally
  BY DEF Orderly
<1>1. ASSUME imp'.phase = imp.phase PROVE Stands(q)
  BY <1>1 DEF Elsewhere, Running
<1>2. CASE Others
  <2>1. ASSUME NEW p, Edit(p) \/ Confirm(p) \/ Delete(p) \/ Upload(p) PROVE Stands(q)'
    <3>1. imp' = [imp EXCEPT !.touched = @ \cup {p}]
      BY <2>1 DEF Edit, Confirm, Delete, Upload, Theirs
    <3>2. /\ imp'.touched = imp.touched \cup {p} /\ imp'.bundle = imp.bundle
          /\ imp'.from = imp.from /\ imp'.phase = imp.phase
      BY <1>0, <3>1, BeginFields
    <3>3. CASE q = p
      BY <3>2, <3>3 DEF Stands
    <3>4. CASE q # p
      <4>1. SameAt(q)
        BY <2>1, <3>4 DEF Edit, Confirm, Delete, Upload, Stamped, With, Without, SameAt
      <4> QED  BY <1>1, <3>2, <4>1, StandsStill
    <3> QED  BY <3>3, <3>4
  <2>2. ASSUME NEW x, Sweep(x) PROVE Stands(q)'
    BY <1>1, <2>2, StandsStill DEF Sweep, SameAt
  <2> QED  BY <1>2, <2>1, <2>2 DEF Others
<1>3. CASE Exports \/ UNCHANGED vars
  <2>1. imp' = imp /\ held' = held
    BY <1>3 DEF Exports, Snapshot, WriteListings, WriteConcepts, CloseArchive, Cut, WriteFile,
       OutOnly, base, vars
  <2> QED  BY <1>1, <2>1, StandsStill DEF SameAt
<1>4. ASSUME NEW b, NEW dry, NEW strict, Begin(b, dry, strict) PROVE Stands(q)'
  <2>1. imp'.from = held /\ held' = held
    BY <1>4, BeginSays
  <2> QED  BY <2>1 DEF Stands, AsFound
<1>5. ASSUME NEW t \in imp.left, Send(t) PROVE Stands(q)'
  <2>1. /\ imp'.bundle = imp.bundle /\ imp'.from = imp.from /\ imp'.touched = imp.touched
        /\ imp'.phase = imp.phase /\ held' = held
    BY <1>0, <1>5, BeginFields DEF Send, ImpOnly, base
  <2> QED  BY <1>1, <2>1, StandsStill DEF SameAt
<1>6. ASSUME NEW c \in calls, Serves(c) PROVE Stands(q)'
  <2>1. imp' = imp
    BY <1>6, OneCallMoves DEF GoesOn
  <2> QED  BY <1>1, <1>6, <2>1, ServedStands
<1>7. ASSUME NEW c \in calls, Hear(c) \/ Lose(c) PROVE Stands(q)'
  BY <1>0, <1>1, <1>7, HearKeeps, StandsStill DEF SameAt
<1>8. CASE NextPhase \/ Abort
  <2>1. /\ imp'.bundle = imp.bundle /\ imp'.from = imp.from /\ imp'.touched = imp.touched
        /\ held' = held
        /\ imp.failed => imp'.phase = "aborted"
    BY <1>0, <1>8, PhaseSays
  <2>2. ~imp.failed /\ imp.phase \in {"concepts", "attributed", "loose", "indexes"}
    BY <1>0, <1>8, <2>1, PhaseSays DEF Running
  <2>3. Stands(q)
    BY <2>2 DEF Elsewhere, Running
  <2> QED  BY <2>1, <2>3, StandsStill DEF SameAt
<1> QED
  BY <1>2, <1>3, <1>4, <1>5, <1>6, <1>7, <1>8 DEF Next, Imports, Serves

\* Of its own archive a base can only say that it is as it is, or that the
\* caller may not write it.
LEMMA OwnVerdict ==
  ASSUME ArchiveInv, ClaimsPast, out.phase = "complete", NEW p \in ConceptsOf(out.archive)
  PROVE  /\ p \in DOMAIN out.snap
         /\ Verdict(out.archive, out.snap, p) \in {"unchanged", "forbidden", "missing"}
         /\ Claims(out.archive[p]) => Became(out.archive, out.snap, p).claim = None
<1> DEFINE row == out.snap[p]
           doc == out.archive[p]
<1>1. p \in DOMAIN out.archive /\ IsMarkdown(p) /\ ~IsIndex(p) /\ ~IsLog(p)
  BY DEF ConceptsOf, Addressable
<1>2. p \in DOMAIN out.snap /\ doc = Document(row)
  BY <1>1, ArchivePath
<1>3. /\ doc.says = row.says /\ doc.links = row.links /\ doc.claim = row.claim
      /\ doc.trust = Observed(row) /\ doc.fit = "ok"
  BY <1>2 DEF Document
<1>4. row.claim # None => row.claim # Observed(row)
  BY <1>1, <1>2 DEF ClaimsPast, Archiving, PastRows, PastRow, Observed
<1>5. Became(out.archive, out.snap, p).claim =
        IF IsObservation(ClaimIn(doc), row) THEN None ELSE ClaimIn(doc)
  BY <1>2, SettledKeeps
<1>6. Became(out.archive, out.snap, p).claim = row.claim
  BY <1>3, <1>4, <1>5 DEF IsObservation, ClaimIn
<1>7. SameDocument(Became(out.archive, out.snap, p), row)
  BY <1>3, <1>6, SettledKeeps DEF SameDocument
<1>8. RefusalOf(out.archive, p) \in {"none", "forbidden", "missing"}
  BY <1>3 DEF RefusalOf, Barred
<1> QED
  BY <1>2, <1>3, <1>6, <1>7, <1>8 DEF Verdict, Claims

\* An index and a log are named as documents are.
LEMMA GeneratedAreMarkdown ==
  ASSUME NEW p, IsIndex(p) \/ IsLog(p)
  PROVE  IsMarkdown(p)
BY DEF IsIndex, IsLog, IsMarkdown, Last

\* A file of the base's own archive goes back to its own path, as it was.
LEMMA OwnFiles ==
  ASSUME ArchiveInv, FilesKept, out.phase = "complete", NEW t \in FileTasks(out.archive)
  PROVE  /\ Unclaimed(out.archive, t.path) = t.path /\ t.path \in DOMAIN out.snap
         /\ out.snap[t.path] = FileRow(out.archive[t.path].says)
         /\ FileVerdict(out.archive, t.path) \in {"stored", "forbidden", "missing"}
<1>1. t.path \in DOMAIN out.archive /\ ~IsMarkdown(t.path)
  <2>1. CASE t \in Attributions(out.archive)
    <3>1. \E c \in ConceptsOf(out.archive) :
            t.path \in LinkedFiles(out.archive, c) \cup FilesBeneath(out.archive, c)
      BY <2>1 DEF Attributions
    <3> QED  BY <3>1 DEF LinkedFiles, FilesBeneath, Attachable
  <2>2. CASE t \in Loose(out.archive)
    <3>1. t.path \in LooseOf(out.archive)
      BY <2>2 DEF Loose
    <3>2. t.path \in Rest(out.archive)
      BY <3>1 DEF LooseOf
    <3>3. /\ t.path \in DOMAIN out.archive /\ ~IsIndex(t.path) /\ ~IsLog(t.path)
          /\ t.path \notin ConceptsOf(out.archive)
      BY <3>2 DEF Rest
    <3> QED  BY <3>3, ArchivePath
  <2> QED  BY <2>1, <2>2 DEF FileTasks
<1>2. ~IsIndex(t.path) /\ ~IsLog(t.path)
  BY <1>1, GeneratedAreMarkdown
<1>3. /\ t.path \in DOMAIN out.snap /\ Addressable(t.path)
      /\ out.archive[t.path] = FileDocument(out.snap[t.path])
  BY <1>1, <1>2, ArchivePath
<1>4. out.archive[t.path].says = out.snap[t.path].says
  BY <1>3 DEF FileDocument
<1>5. out.snap[t.path] = FileRow(out.snap[t.path].says)
  BY <1>1, <1>3 DEF ArchiveInv, Remaining, Archiving, Fits, RowFits
<1>6. site.files
  BY <1>1, <1>2 DEF FilesKept, Archiving
<1>7. Unclaimed(out.archive, t.path) = t.path
  BY <1>1 DEF Unclaimed
<1>8. FileVerdict(out.archive, t.path) \in {"stored", "forbidden", "missing"}
  BY <1>1, <1>3, <1>6, <1>7 DEF FileVerdict, FileRefusal, Barred
<1> QED  BY <1>3, <1>4, <1>5, <1>7, <1>8

\* All that a base's own archive could bring was there.
LEMMA OwnTally ==
  ASSUME ArchiveInv, ClaimsPast, FilesKept, out.phase = "complete", NEW x \in {"created", "updated"}
  PROVE  Tally(out.archive, out.snap, AllTasks(out.archive))[x] = 0
<1>1. CountedIn(out.archive, out.snap, x, AllTasks(out.archive)) = {}
  <2> SUFFICES ASSUME NEW t \in AllTasks(out.archive) PROVE ~Counts(out.archive, out.snap, x, t)
    BY DEF CountedIn
  <2>1. CASE t \in Concepts(out.archive)
    <3>1. t.path \in ConceptsOf(out.archive)
      BY <2>1 DEF Concepts
    <3>2. Verdict(out.archive, out.snap, t.path) \in {"unchanged", "forbidden", "missing"}
      BY <3>1, OwnVerdict
    <3> QED  BY <3>2 DEF Counts
  <2>2. CASE t \notin Concepts(out.archive)
    <3>1. t.op # "concept"
      <4>1. CASE t \in Attributions(out.archive)
        <5>1. t \in Current("attributed", out.archive)
          BY <4>1 DEF Current, TasksOf
        <5> QED  BY <5>1, TasksAre
      <4>2. CASE t \in Loose(out.archive) \cup Indexes(out.archive)
        BY <4>2 DEF Loose, Indexes
      <4> QED  BY <2>2, <4>1, <4>2 DEF AllTasks
    <3> QED  BY <3>1 DEF Counts
  <2> QED  BY <2>1, <2>2
<1>2. x \in DOMAIN NoTally /\ x \notin {"notes", "skipped"} /\ NoTally[x] = 0
  BY DEF NoTally
<1>3. ParseTally(out.archive)[x] = 0
  BY <1>2 DEF ParseTally
<1> QED  BY <1>1, <1>2, <1>3, FS_EmptySet DEF Tally

\* All that is skipped of the base's own archive are its indexes.
LEMMA OwnSkips ==
  ASSUME ArchiveInv, ClaimsPast, FilesKept, out.phase = "complete",
         NEW p \in Skips(out.archive, out.snap, AllTasks(out.archive))
  PROVE  IsIndex(p)
<1>1. p \notin ParseSkips(out.archive)
  <2> SUFFICES ASSUME p \in ParseSkips(out.archive) PROVE FALSE
    OBVIOUS
  <2>1. p \in Rest(out.archive) /\ p \notin LooseOf(out.archive)
    BY DEF ParseSkips
  <2>2. p \in DOMAIN out.archive /\ ~IsIndex(p) /\ ~IsLog(p)
    BY <2>1 DEF Rest
  <2>3. Addressable(p) /\ out.archive[p] \in {Document(out.snap[p]), FileDocument(out.snap[p])}
    BY <2>2, ArchivePath
  <2>4. out.archive[p].fit = "ok"
    BY <2>3 DEF Document, FileDocument
  <2> QED  BY <2>1, <2>3, <2>4 DEF LooseOf
<1>2. PICK t \in AllTasks(out.archive) : t.path = p /\ SkipsTask(out.archive, out.snap, t)
  BY <1>1 DEF Skips, SkippedIn
<1>3. CASE t \in Concepts(out.archive)
  <2>1. t.op = "concept" /\ t.path \in ConceptsOf(out.archive)
    BY <1>3 DEF Concepts
  <2>2. TaskVerdict(out.archive, out.snap, t) \in {"unchanged", "forbidden", "missing"}
    BY <2>1, OwnVerdict DEF TaskVerdict
  <2> QED  BY <1>2, <2>2 DEF SkipsTask
<1>4. CASE t \in FileTasks(out.archive)
  <2>1. t.op \in FileOps
    <3>1. CASE t \in Attributions(out.archive)
      <4>1. t \in Current("attributed", out.archive)
        BY <3>1 DEF Current, TasksOf
      <4>2. \E c \in ConceptsOf(out.archive) : \E q : t = [op |-> "attributed", path |-> q, of |-> c]
        BY <3>1 DEF Attributions
      <4> QED  BY <4>2 DEF FileOps
    <3>2. CASE t \in Loose(out.archive)
      BY <3>2 DEF Loose, FileOps
    <3> QED  BY <1>4, <3>1, <3>2 DEF FileTasks
  <2>2. TaskVerdict(out.archive, out.snap, t) \in {"stored", "forbidden", "missing"}
    BY <1>4, <2>1, OwnFiles DEF TaskVerdict, FileOps
  <2> QED  BY <1>2, <2>2 DEF SkipsTask
<1>5. CASE t \in Indexes(out.archive)
  BY <1>2, <1>5 DEF Indexes, IndexesOf
<1> QED  BY <1>3, <1>4, <1>5 DEF AllTasks, FileTasks

\* What bundles claim to have seen was seen before the base was set up, and no
\* concept it starts with claims what it was itself seen to be.
OldClaims(b) ==
  /\ PastRows(b.held, 1)
  /\ \A bundle \in b.site.bundles : PastBundle(bundle, 1)

\* What is needed of a base's own archive holds of every behaviour.
LEMMA OwnArchives ==
  ASSUME \A b \in Bases : OldClaims(b)
  PROVE  Spec => [](/\ Orderly /\ ArchiveInv /\ ConceptsGo /\ Answering /\ Counted
                    /\ ClaimsPast /\ FilesKept /\ Elsewhere)
<1>1. Init => ClaimsPast /\ FilesKept /\ Elsewhere
  <2> SUFFICES ASSUME Init PROVE ClaimsPast /\ FilesKept /\ Elsewhere
    OBVIOUS
  <2>1. PICK b \in Bases : /\ held = b.held /\ site = b.site /\ clock = 1
    BY DEF Init
  <2>2. imp = NoImport /\ calls = {} /\ out = NoArchive
    BY DEF Init
  <2>3. PastRows(held, clock) /\ \A bundle \in site.bundles : PastBundle(bundle, clock)
    BY <2>1 DEF OldClaims
  <2>4. PastBundle(imp.bundle, clock)
    <3>1. DOMAIN imp.bundle = {}
      BY <2>2 DEF NoImport
    <3> QED  BY <3>1 DEF PastBundle, ConceptsOf
  <2>5. out.phase = "none" /\ imp.phase = "none"
    BY <2>2 DEF NoArchive, NoImport
  <2> QED  BY <2>2, <2>3, <2>4, <2>5 DEF ClaimsPast, FilesKept, Elsewhere, Archiving, Running
<1>2. /\ Orderly /\ ArchiveInv /\ ClaimsPast /\ FilesKept /\ Elsewhere /\ [Next]_vars
      => ClaimsPast' /\ FilesKept' /\ Elsewhere'
  BY ClaimsPastStep, FilesKeptStep, ElsewhereStep
<1> QED  BY <1>1, <1>2, Archived, Foretold, PTL DEF Spec

\* A base's own archive, handed back to the base as it was archived, changes nothing and
\* raises no claim: what it says was observed is settled against the very row it was
\* written from, a claim of older date stays beside it, and its files are the files
\* that are there.
THEOREM OwnArchivesComeHome ==
  ASSUME \A b \in Bases : OldClaims(b)
  PROVE  Spec => []OwnArchiveIsUnchanged
<1>1. Orderly /\ ArchiveInv /\ ConceptsGo /\ Counted /\ ClaimsPast /\ FilesKept /\ Elsewhere
        => OwnArchiveIsUnchanged
  <2> SUFFICES ASSUME Orderly, ArchiveInv, ConceptsGo, Counted, ClaimsPast, FilesKept, Elsewhere,
                      imp.phase = "done", ~imp.dry, imp.touched = {}, out.phase = "complete",
                      imp.bundle = out.archive, imp.from = out.snap
               PROVE  /\ held = out.snap
                      /\ imp.tally.created = 0 /\ imp.tally.updated = 0
                      /\ imp.noted = {} /\ imp.skipped \cap DOMAIN held = {}
    BY DEF OwnArchiveIsUnchanged, Imported
  <2>1. Running /\ ~imp.failed /\ Heard = AllTasks(out.archive)
    BY HeardAtLast DEF Orderly, Running
  <2>2. ASSUME NEW p \in ConceptsOf(out.archive) PROVE AsFound(p) /\ p \notin imp.noted
    <3>1. HeardConcept(p)
      BY ConceptsEnd
    <3>2. /\ FateOf(p) \in {"unchanged", "forbidden", "missing"}
          /\ Claims(imp.bundle[p]) => LeftOf(p).claim = None
      BY OwnVerdict DEF FateOf, LeftOf
    <3> QED  BY <3>1, <3>2 DEF HeardConcept
  <2>3. ASSUME NEW q PROVE AsFound(q)
    <3>1. CASE q \in ConceptsOf(imp.bundle)
      BY <2>2, <3>1
    <3>2. CASE \E t \in FileTasks(imp.bundle) :
                 /\ q = Unclaimed(imp.bundle, t.path) /\ Here(q)
                 /\ held[q] = FileRow(imp.bundle[t.path].says)
      <4>1. PICK t \in FileTasks(imp.bundle) :
                 /\ q = Unclaimed(imp.bundle, t.path) /\ Here(q)
                 /\ held[q] = FileRow(imp.bundle[t.path].says)
        BY <3>2
      <4>2. /\ Unclaimed(out.archive, t.path) = t.path /\ t.path \in DOMAIN out.snap
            /\ out.snap[t.path] = FileRow(out.archive[t.path].says)
        BY OwnFiles
      <4> QED  BY <4>1, <4>2 DEF AsFound, Here
    <3>3. Stands(q)
      BY <2>1 DEF Elsewhere
    <3> QED  BY <3>1, <3>2, <3>3 DEF Stands
  <2>4. held = out.snap
    <3>1. /\ held = [q \in DOMAIN held |-> held[q]]
          /\ out.snap = [q \in DOMAIN out.snap |-> out.snap[q]]
      BY DEF ArchiveInv, RowsFit, Remaining, Archiving, Fits
    <3>2. DOMAIN held = DOMAIN out.snap
      BY <2>3 DEF AsFound
    <3>3. \A q \in DOMAIN held : held[q] = out.snap[q]
      BY <2>3 DEF AsFound
    <3> QED  BY <3>1, <3>2, <3>3
  <2>5. imp.tally.created = 0 /\ imp.tally.updated = 0
    <3>1. \A x \in {"created", "updated"} : imp.tally[x] = 0
      <4> TAKE x \in {"created", "updated"}
      <4>1. x \in DOMAIN NoTally
        BY BeginFields
      <4>2. imp.tally[x] = Tally(out.archive, out.snap, AllTasks(out.archive))[x]
        BY <2>1, <4>1 DEF Counted
      <4> QED  BY <4>2, OwnTally
    <3> QED  BY <3>1
  <2>6. imp.noted = {}
    BY <2>2 DEF ConceptsGo, Noting
  <2>7. imp.skipped \cap DOMAIN held = {}
    <3>1. imp.skipped = Skips(out.archive, out.snap, AllTasks(out.archive))
      BY <2>1 DEF Counted
    <3>2. \A p \in imp.skipped : IsIndex(p)
      BY <3>1, OwnSkips
    <3>3. \A p \in DOMAIN held : ~IsIndex(p)
      BY DEF ArchiveInv, RowsFit, Fits, PathFits, Addressable
    <3> QED  BY <3>2, <3>3
  <2> QED  BY <2>4, <2>5, <2>6, <2>7
<1> QED  BY <1>1, OwnArchives, PTL

-----------------------------------------------------------------------------
(* Types, and the requests in flight.                                        *)

FewCalls ==
  /\ IsFiniteSet(calls) /\ Cardinality(calls) <= Workers
  /\ out.phase \in {"none", "snapshot", "listed", "complete", "truncated"}

\* No step sends more than the workers there are.
LEMMA FewCallsStep == Orderly /\ OutFits /\ FewCalls /\ [Next]_vars => FewCalls'
<1> SUFFICES ASSUME Orderly, OutFits, FewCalls, [Next]_vars PROVE FewCalls'
  OBVIOUS
<1>0. /\ DOMAIN imp = DOMAIN NoImport /\ DOMAIN imp.tally = DOMAIN NoTally
      /\ DOMAIN out = DOMAIN NoArchive
      /\ Workers \in Nat /\ Workers > 0 /\ Cardinality(calls) \in Nat
  BY TransferAssumption, FS_CardinalityType DEF Orderly, OutFits, FewCalls
<1>1. out'.phase \in {"none", "snapshot", "listed", "complete", "truncated"}
  <2>1. CASE Exports
    <3>1. ASSUME NEW prefix, NEW withFiles, Snapshot(prefix, withFiles) PROVE out'.phase = "snapshot"
      <4>1. PICK files : out' = [NoArchive EXCEPT !.phase = "snapshot", !.prefix = prefix,
                                   !.snap = held, !.left = ConceptsUnder(held, prefix), !.files = files]
        BY <3>1 DEF Snapshot
      <4> QED  BY <4>1, OutFields
    <3>2. CASE WriteListings
      BY <1>0, <3>2, OutFields DEF WriteListings
    <3>3. CASE WriteConcepts
      BY <1>0, <3>3, OutFields DEF WriteConcepts
    <3>4. ASSUME NEW p, WriteFile(p) PROVE out'.phase \in {"listed", "truncated"}
      BY <1>0, <3>4, OutFields DEF WriteFile
    <3>5. CASE CloseArchive \/ Cut
      BY <1>0, <3>5, OutFields DEF CloseArchive, Cut
    <3> QED  BY <2>1, <3>1, <3>2, <3>3, <3>4, <3>5 DEF Exports
  <2>2. CASE ~Exports
    <3>1. out' = out
      BY <2>2, OneCallMoves DEF Next, Others, Edit, Confirm, Delete, Upload, Theirs, Sweep,
         Imports, Serves, GoesOn, Begin, Send, Hear, Lose, NextPhase, Abort, ImpOnly, vars
    <3> QED  BY <3>1 DEF FewCalls
  <2> QED  BY <2>1, <2>2
<1>2. IsFiniteSet(calls') /\ Cardinality(calls') <= Workers
  <2>1. CASE calls' = calls
    BY <2>1 DEF FewCalls
  <2>2. CASE calls' = {}
    BY <1>0, <2>2, FS_EmptySet
  <2>3. ASSUME NEW t \in imp.left, Send(t) PROVE IsFiniteSet(calls') /\ Cardinality(calls') <= Workers
    <3>1. PICK d : calls' = calls \cup {d}
      BY <2>3, OneSent
    <3>2. Cardinality(calls) < Workers
      BY <1>0, <2>3 DEF Send
    <3>3. IsFiniteSet(calls') /\ (Cardinality(calls') = Cardinality(calls) \/ Cardinality(calls') = Cardinality(calls) + 1)
      BY <3>1, FS_AddElement DEF FewCalls
    <3> QED  BY <1>0, <3>2, <3>3
  <2>4. ASSUME NEW c \in calls, Serves(c) PROVE IsFiniteSet(calls') /\ Cardinality(calls') <= Workers
    <3>1. PICK d : calls' = (calls \ {c}) \cup {d}
      BY <2>4, OneCallMoves DEF GoesOn, GoesOnAs
    <3>2. IsFiniteSet(calls \ {c}) /\ Cardinality(calls \ {c}) = Cardinality(calls) - 1
      BY FS_RemoveElement DEF FewCalls
    <3>3. /\ IsFiniteSet(calls')
          /\ \/ Cardinality(calls') = Cardinality(calls \ {c})
             \/ Cardinality(calls') = Cardinality(calls \ {c}) + 1
      BY <3>1, <3>2, FS_AddElement
    <3> QED  BY <1>0, <3>2, <3>3 DEF FewCalls
  <2>5. ASSUME NEW c \in calls, Hear(c) \/ Lose(c) PROVE IsFiniteSet(calls') /\ Cardinality(calls') <= Workers
    <3>1. calls' = calls \ {c}
      BY <1>0, <2>5, HearKeeps
    <3>2. IsFiniteSet(calls \ {c}) /\ Cardinality(calls \ {c}) = Cardinality(calls) - 1
      BY FS_RemoveElement DEF FewCalls
    <3> QED  BY <1>0, <3>1, <3>2 DEF FewCalls
  <2>6. CASE NextPhase \/ Abort
    BY <1>0, <2>2, <2>6, PhaseSays
  <2>7. CASE \E b, dry, strict : Begin(b, dry, strict)
    BY <2>1, <2>7, BeginSays
  <2>8. CASE Others
    BY <1>0, <2>1, <2>8, OthersTouch
  <2>9. CASE Exports \/ UNCHANGED vars
    <3>1. calls' = calls
      BY <2>9 DEF Exports, Snapshot, WriteListings, WriteConcepts, CloseArchive, Cut, WriteFile,
         OutOnly, vars
    <3> QED  BY <2>1, <3>1
  <2> QED
    BY <2>3, <2>4, <2>5, <2>6, <2>7, <2>8, <2>9 DEF Next, Imports, Serves
<1> QED  BY <1>1, <1>2 DEF FewCalls

\* Rows have their fields and were written by now, and an import never has more
\* than importWorkers requests in flight (eachConcurrently).
THEOREM TypeCorrect == Spec => []TypeOK
<1>1. Init => FewCalls
  <2> SUFFICES ASSUME Init PROVE FewCalls
    OBVIOUS
  <2>1. calls = {} /\ out = NoArchive
    BY DEF Init
  <2> QED  BY <2>1, FS_EmptySet, TransferAssumption DEF FewCalls, NoArchive
<1>2. Orderly /\ ArchiveInv /\ FewCalls /\ [Next]_vars => FewCalls'
  BY FewCallsStep DEF ArchiveInv
<1>3. Orderly /\ ArchiveInv /\ FewCalls => TypeOK
  <2> SUFFICES ASSUME Orderly, ArchiveInv, FewCalls PROVE TypeOK
    OBVIOUS
  <2>1. ASSUME NEW p \in DOMAIN held
        PROVE  /\ DOMAIN held[p] = {"says", "links", "claim", "by", "at", "confirmed"}
               /\ held[p].at \in 0 .. clock
    <3>1. RowFits(p, held[p], clock) /\ clock \in Nat
      BY DEF ArchiveInv, RowsFit, Fits
    <3>2. CASE IsMarkdown(p)
      BY <3>1, <3>2 DEF RowFits
    <3>3. CASE ~IsMarkdown(p)
      <4>1. held[p] = FileRow(held[p].says)
        BY <3>1, <3>3 DEF RowFits
      <4>2. held[p].at = 0
        BY <4>1 DEF FileRow
      <4> QED  BY <3>1, <4>2 DEF RowFits
    <3> QED  BY <3>2, <3>3
  <2> QED  BY <2>1 DEF TypeOK, FewCalls, Orderly, Phases
<1> QED  BY <1>1, <1>2, <1>3, Archived, PTL DEF Spec
=============================================================================
