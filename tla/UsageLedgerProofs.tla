-------------------------- MODULE UsageLedgerProofs --------------------------
(* That an observation is never written twice and never lost without a trace, *)
(* that the totals keep up with the raw rows, and that an orderly shutdown     *)
(* leaves nothing behind: for any number of requests, addresses and failures.   *)
EXTENDS UsageLedger, FiniteSetTheorems, TLAPS

-----------------------------------------------------------------------------
(* The inductive invariant.                                                 *)

\* The caps count something.
FiniteBuffers == IsFiniteSet(buffer) /\ IsFiniteSet(missBuffer)

\* What a request at each step can be for; a move goes somewhere else.
Fit(step, j) ==
  /\ step = "read" => j.op \in {"fetch", "search", "report"}
  /\ step = "record" => j.op \in {"fetch", "search"}
  /\ step = "report" => j.op = "report"
  /\ step = "purge" => j.op = "purge"
  /\ step = "move" => j.op = "move"
  /\ step \in {"usage", "events", "commit"} => j.op \in {"purge", "move"}
  /\ j.op = "purge" => j.to = None
  /\ j.op = "move" => j.to \in Addresses \ j.ids
JobsFit == \A c \in Clients : Fit(pc[c], job[c])

\* What a flush still carries at each of its steps.
FlushFits ==
  /\ flush.at \notin {"misses", "events"} => flush.events = {}
  /\ flush.at # "misses" => flush.misses = {}
  /\ flush.at # "report" => flush.drops = {}

\* An observation is buffered once, and in the buffer of its kind.
BufferedOnce ==
  /\ buffer \cap flush.events = {} /\ missBuffer \cap flush.misses = {}
  /\ \A o \in buffer \cup flush.events : o.event # "miss"
  /\ \A o \in missBuffer \cup flush.misses : o.event = "miss"

\* The last flush begins when nobody is left to record, unless it was cut.
Shutdown ==
  /\ mode \in {"stopping", "closed"} => \A c \in Clients : pc[c] = "idle"
  /\ flush.last => mode \in {"stopping", "cut"}
  /\ flush.last /\ mode = "stopping" => buffer = {} /\ missBuffer = {}

UsageInv ==
  /\ TypeOK /\ FiniteBuffers /\ JobsFit /\ FlushFits /\ BufferedOnce /\ Shutdown
  /\ LossesAreVisible /\ CountedAtMostOnce /\ TotalsCoverEvents /\ CleanShutdown
-----------------------------------------------------------------------------
(* Types.                                                                   *)

\* What an idle request and an idle flush carry.
LEMMA EmptyTypes == NoJob \in Jobs /\ NoFlush \in Flushes /\ Fit("idle", NoJob)
BY DEF NoJob, NoFlush, Jobs, Flushes, Fit

\* A later moment has more observations to speak of.
LEMMA ObservationsGrow ==
  ASSUME seen \in Nat, seen' \in {seen, seen + 1}
  PROVE  Observations \subseteq Observations' /\ Jobs \subseteq Jobs' /\ Flushes \subseteq Flushes'
<1>1. 0 .. seen \subseteq 0 .. seen'
  OBVIOUS
<1>2. Observations \subseteq Observations'
  BY <1>1 DEF Observations
<1> QED
  BY <1>2 DEF Jobs, Flushes

\* The observations of one moment are no more than the addresses observed.
LEMMA SeenSize ==
  ASSUME NEW n, NEW ids \in SUBSET Addresses, NEW kind
  PROVE  /\ IsFiniteSet(Seen(n, ids, kind))
         /\ Cardinality(Seen(n, ids, kind)) <= Cardinality(ids)
<1> DEFINE f == [a \in ids |-> [n |-> n, id |-> a, event |-> kind]]
<1>1. IsFiniteSet(ids)
  BY FS_Subset, UsageAssumption
<1>2. f \in Surjection(ids, Seen(n, ids, kind))
  BY DEF Seen, Surjection
<1> QED
  BY <1>1, <1>2, FS_Surjection

\* What a read records was never seen before, and is of its own kind.
LEMMA SeenType ==
  ASSUME seen \in Nat, seen' = seen + 1, NEW ids \in SUBSET Addresses,
         NEW kind \in {"fetch", "search", "report"}
  PROVE  /\ Seen(seen + 1, ids, kind) \subseteq Observations'
         /\ Seen(seen + 1, ids, kind) \cap Observations = {}
         /\ \A o \in Seen(seen + 1, ids, kind) : o.event = kind
BY DEF Seen, Observations

\* A search that found nothing is one new observation.
LEMMA MissType ==
  ASSUME seen \in Nat, seen' = seen + 1
  PROVE  /\ Miss(seen + 1) \in Observations' /\ Miss(seen + 1) \notin Observations
         /\ Miss(seen + 1).event = "miss"
BY DEF Miss, Observations

-----------------------------------------------------------------------------
(* Requests: what moves nothing but themselves.                              *)

\* A step that leaves the observations alone keeps everything, if its request
\* stays one that fits and nobody starts one after the listener is closed.
LEMMA ControlStep ==
  ASSUME UsageInv, NEW c \in Clients, NEW step \in Steps, NEW j \in Jobs, Fit(step, j),
         pc' = [pc EXCEPT ![c] = step], job' = [job EXCEPT ![c] = j],
         pc[c] # "idle" \/ mode = "up",
         lock' \in [Addresses -> Clients \cup {None}],
         budget' \in 0 .. MaxRequests,
         UNCHANGED <<tables, memory, flush, mode, seen, failures, pruned, history>>
  PROVE  UsageInv'
<1> USE DEF UsageInv, tables, memory, history
<1>1. Observations' = Observations /\ Jobs' = Jobs /\ Flushes' = Flushes
  BY DEF Observations, Jobs, Flushes
<1>2. TypeOK'
  BY <1>1 DEF TypeOK
<1>3. JobsFit'
  BY DEF TypeOK, JobsFit
<1>4. Shutdown' /\ CleanShutdown'
  <2>1. mode \in {"stopping", "closed"} => FALSE
    BY DEF Shutdown
  <2> QED
    BY <2>1 DEF Shutdown, CleanShutdown
<1>5. FiniteBuffers' /\ FlushFits' /\ BufferedOnce'
  BY DEF FiniteBuffers, FlushFits, BufferedOnce
<1>6. LossesAreVisible' /\ CountedAtMostOnce' /\ TotalsCoverEvents'
  BY DEF LossesAreVisible, CountedAtMostOnce, TotalsCoverEvents, Waiting, Losses
<1> QED
  BY <1>2, <1>3, <1>4, <1>5, <1>6

\* An answered request holds nothing of the ledger.
LEMMA FinishStep ==
  ASSUME UsageInv, NEW c \in Clients, pc[c] # "idle", Finish(c),
         UNCHANGED <<tables, memory, flush, mode, seen, bounds, history>>
  PROVE  UsageInv'
<1>1. lock' \in [Addresses -> Clients \cup {None}] /\ budget' \in 0 .. MaxRequests
  BY DEF UsageInv, TypeOK, Finish, bounds
<1> QED
  BY <1>1, EmptyTypes, ControlStep DEF Finish, Go, Steps, bounds

\* An admitted request has recorded nothing yet.
LEMMA RequestStep ==
  ASSUME UsageInv, NEW c \in Clients, Request(c)
  PROVE  UsageInv'
<1>1. ASSUME NEW step \in Steps, NEW j \in Jobs, Fit(step, j), Admit(c, step, j)
      PROVE  UsageInv'
  <2>1. lock' \in [Addresses -> Clients \cup {None}] /\ budget' \in 0 .. MaxRequests
    BY <1>1, UsageAssumption DEF UsageInv, TypeOK, Admit
  <2> QED
    BY <1>1, <2>1, ControlStep DEF Admit, Go
<1> USE DEF Steps, Jobs, Fit, NoJob
<1>2. CASE RequestFetch(c)
  BY <1>1, <1>2 DEF RequestFetch
<1>3. CASE RequestSearch(c)
  BY <1>1, <1>3 DEF RequestSearch
<1>4. CASE RequestReport(c)
  BY <1>1, <1>4 DEF RequestReport
<1>5. CASE RequestPurge(c)
  BY <1>1, <1>5 DEF RequestPurge
<1>6. CASE RequestMove(c)
  BY <1>1, <1>6 DEF RequestMove
<1> QED
  BY <1>2, <1>3, <1>4, <1>5, <1>6 DEF Request

\* Reading, locking and the statements before the commit.
LEMMA ReadStep ==
  ASSUME UsageInv, NEW c \in Clients,
         Read(c) \/ PurgeLock(c) \/ MoveRow(c) \/ TakeUsage(c) \/ TakeEvents(c) \/ Abort(c)
  PROVE  UsageInv'
<1>1. /\ lock \in [Addresses -> Clients \cup {None}] /\ budget \in 0 .. MaxRequests
      /\ job[c] \in Jobs /\ Fit(pc[c], job[c])
      /\ totals \in [Addresses -> SUBSET Observations]
      /\ events \in [Addresses -> SUBSET Observations]
      /\ job \in [Clients -> Jobs]
  BY DEF UsageInv, TypeOK, JobsFit
<1>2. ASSUME NEW step \in Steps, Fit(step, job[c]), pc[c] # "idle", Go(c, step),
             UNCHANGED job, lock' \in [Addresses -> Clients \cup {None}],
             UNCHANGED <<tables, memory, flush, mode, seen, bounds, history>>
      PROVE  UsageInv'
  <2>1. job' = [job EXCEPT ![c] = job[c]]
    BY <1>1, <1>2
  <2> QED
    BY <1>1, <1>2, <2>1, ControlStep DEF Go, bounds
<1>3. ASSUME NEW step \in Steps, NEW j \in Jobs, Fit(step, j), pc[c] # "idle",
             Go(c, step), job' = [job EXCEPT ![c] = j], UNCHANGED lock,
             UNCHANGED <<tables, memory, flush, mode, seen, bounds, history>>
      PROVE  UsageInv'
  BY <1>1, <1>3, ControlStep DEF Go, bounds
<1>4. CASE Read(c)
  <2> DEFINE found == {a \in job[c].ids : rows[a] = "live"}
             j == [job[c] EXCEPT !.ids = found]
             step == CASE job[c].op = "report" -> "report"
                       [] found = {} -> "miss" [] OTHER -> "record"
  <2>1. CASE found = {} /\ job[c].op # "search"
    BY <1>4, <2>1, FinishStep DEF Read
  <2>2. CASE ~ (found = {} /\ job[c].op # "search")
    <3>1. /\ Go(c, step) /\ job' = [job EXCEPT ![c].ids = found] /\ UNCHANGED lock
          /\ pc[c] = "read"
          /\ UNCHANGED <<tables, memory, flush, mode, seen, bounds, history>>
      BY <1>4, <2>2 DEF Read
    <3>2. j \in Jobs /\ j.op = job[c].op
      BY <1>1 DEF Jobs
    <3>3. step \in Steps /\ Fit(step, j)
      BY <1>1, <2>2, <3>1, <3>2 DEF Fit, Steps
    <3>4. job' = [job EXCEPT ![c] = j]
      BY <3>1
    <3> HIDE DEF step, j
    <3> QED
      BY <1>3, <3>1, <3>2, <3>3, <3>4
  <2> QED
    BY <2>1, <2>2
<1>5. CASE PurgeLock(c)
  <2>1. CASE Finish(c)
    BY <1>5, <2>1, FinishStep DEF PurgeLock
  <2>2. CASE ~Finish(c)
    BY <1>1, <1>2, <1>5, <2>2 DEF PurgeLock, Hold, Fit, Steps
  <2> QED
    BY <2>1, <2>2
<1>6. CASE MoveRow(c)
  <2>1. CASE Finish(c)
    BY <1>6, <2>1, FinishStep DEF MoveRow
  <2>2. CASE ~Finish(c)
    BY <1>1, <1>2, <1>6, <2>2 DEF MoveRow, Hold, Fit, Steps
  <2> QED
    BY <2>1, <2>2
<1>7. CASE TakeUsage(c)
  <2>1. CASE KeyTaken(c)
    BY <1>7, <2>1, FinishStep DEF TakeUsage
  <2>2. CASE ~KeyTaken(c)
    <3>1. PICK a \in job[c].ids : job' = [job EXCEPT ![c].counted = totals[a]]
      BY <1>7, <2>2 DEF TakeUsage
    <3> DEFINE j == [job[c] EXCEPT !.counted = totals[a]]
    <3>2. j \in Jobs /\ Fit("events", j)
      BY <1>1, <1>7 DEF Jobs, Fit, TakeUsage
    <3>3. job' = [job EXCEPT ![c] = j]
      BY <3>1
    <3> HIDE DEF j
    <3> QED
      BY <1>3, <1>7, <2>2, <3>2, <3>3 DEF TakeUsage, Steps
  <2> QED
    BY <2>1, <2>2
<1>8. CASE TakeEvents(c)
  <2>1. PICK a \in job[c].ids : job' = [job EXCEPT ![c].taken = events[a]]
    BY <1>8 DEF TakeEvents
  <2> DEFINE j == [job[c] EXCEPT !.taken = events[a]]
  <2>2. j \in Jobs /\ Fit("commit", j)
    BY <1>1, <1>8 DEF Jobs, Fit, TakeEvents
  <2>3. job' = [job EXCEPT ![c] = j]
    BY <2>1
  <2> HIDE DEF j
  <2> QED
    BY <1>3, <1>8, <2>2, <2>3 DEF TakeEvents, Steps
<1>9. CASE Abort(c)
  BY <1>9, FinishStep DEF Abort
<1> QED
  BY <1>4, <1>5, <1>6, <1>7, <1>8, <1>9

-----------------------------------------------------------------------------
(* Requests: what they record.                                              *)

\* A request that has ended, or goes on to its last step, is well formed.
LEMMA Landing ==
  ASSUME UsageInv, NEW c \in Clients, seen' \in {seen, seen + 1},
         \/ Finish(c)
         \/ \E step \in {"miss", "prune"} : Go(c, step) /\ UNCHANGED <<job, lock>>
  PROVE  /\ pc' \in [Clients -> Steps] /\ job' \in [Clients -> Jobs']
         /\ lock' \in [Addresses -> Clients \cup {None}]
         /\ JobsFit'
<1>1. Jobs \subseteq Jobs'
  BY ObservationsGrow DEF UsageInv, TypeOK
<1>2. /\ pc \in [Clients -> Steps] /\ job \in [Clients -> Jobs] /\ JobsFit
      /\ lock \in [Addresses -> Clients \cup {None}]
  BY DEF UsageInv, TypeOK
<1>3. CASE Finish(c)
  BY <1>1, <1>2, <1>3, EmptyTypes DEF Finish, Go, Steps, JobsFit
<1>4. CASE \E step \in {"miss", "prune"} : Go(c, step) /\ UNCHANGED <<job, lock>>
  <2>1. PICK step \in {"miss", "prune"} : Go(c, step) /\ UNCHANGED <<job, lock>>
    BY <1>4
  <2>2. \A d \in Clients : Fit(pc[d], job[d])
    BY <1>2 DEF JobsFit
  <2>3. pc' = [pc EXCEPT ![c] = step]
    BY <2>1 DEF Go
  <2>4. Fit(step, job[c])
    BY <2>2 DEF Fit
  <2> QED
    BY <1>1, <1>2, <2>1, <2>2, <2>3, <2>4 DEF JobsFit, Steps
<1> QED
  BY <1>3, <1>4

\* Nobody records once the listener is closed and the requests are answered.
LEMMA Recording ==
  ASSUME UsageInv, NEW c \in Clients, pc[c] # "idle", UNCHANGED <<mode, flush>>
  PROVE  Shutdown' /\ CleanShutdown' /\ FlushFits'
<1>1. mode \notin {"stopping", "closed"}
  BY DEF UsageInv, Shutdown
<1> QED
  BY <1>1 DEF UsageInv, Shutdown, CleanShutdown, FlushFits

\* What was typed at a moment is typed at the next.
LEMMA Typed ==
  ASSUME UsageInv, seen' \in {seen, seen + 1}
  PROVE  /\ totals \in [Addresses -> SUBSET Observations']
         /\ events \in [Addresses -> SUBSET Observations']
         /\ missRows \in SUBSET Observations' /\ reported \in SUBSET Observations'
         /\ buffer \in SUBSET Observations' /\ missBuffer \in SUBSET Observations'
         /\ dropped \in SUBSET Observations' /\ flush \in Flushes' /\ seen' \in Nat
         /\ made \in SUBSET Observations' /\ written \in SUBSET Observations'
         /\ gone \in SUBSET Observations' /\ erased \in SUBSET Observations'
<1>1. Observations \subseteq Observations' /\ Flushes \subseteq Flushes'
  BY ObservationsGrow DEF UsageInv, TypeOK
<1> QED
  BY <1>1 DEF UsageInv, TypeOK

\* A read buffers what it saw or counts all of it as dropped.
LEMMA RecordEventsStep ==
  ASSUME UsageInv, NEW c \in Clients, RecordEvents(c)
  PROVE  UsageInv'
<1> DEFINE new == Seen(seen + 1, job[c].ids, job[c].op)
<1>1. /\ seen \in Nat /\ seen' = seen + 1 /\ made' = made \cup new
      /\ pc[c] = "record" /\ job[c].ids \in SUBSET Addresses
      /\ job[c].op \in {"fetch", "search"}
      /\ UNCHANGED <<tables, missBuffer, flush, mode, bounds, written, gone, erased>>
  BY DEF RecordEvents, Observe, UsageInv, TypeOK, JobsFit, Fit, Jobs
<1>2. /\ new \subseteq Observations' /\ new \cap Observations = {}
      /\ \A o \in new : o.event # "miss"
  BY <1>1, SeenType
<1>3. IsFiniteSet(new) /\ Cardinality(new) <= Cardinality(job[c].ids)
  BY <1>1, SeenSize
<1>4. \/ Fits(job[c].ids) /\ buffer' = buffer \cup new /\ UNCHANGED dropped
      \/ dropped' = dropped \cup new /\ UNCHANGED buffer
  BY DEF RecordEvents
<1>5. /\ pc' \in [Clients -> Steps] /\ job' \in [Clients -> Jobs']
      /\ lock' \in [Addresses -> Clients \cup {None}] /\ JobsFit'
  BY <1>1, Landing DEF RecordEvents
<1> HIDE DEF new
<1>6. IsFiniteSet(buffer') /\ Cardinality(buffer') <= BufferMax
  <2>1. CASE UNCHANGED buffer
    BY <2>1 DEF UsageInv, TypeOK, FiniteBuffers
  <2>2. CASE Fits(job[c].ids) /\ buffer' = buffer \cup new
    <3>1. IsFiniteSet(buffer) /\ IsFiniteSet(job[c].ids)
      BY <1>1, FS_Subset, UsageAssumption DEF UsageInv, FiniteBuffers
    <3>2. IsFiniteSet(buffer \cap new)
      BY <3>1, FS_Subset
    <3>3. /\ IsFiniteSet(buffer \cup new)
          /\ Cardinality(buffer \cup new)
               = Cardinality(buffer) + Cardinality(new) - Cardinality(buffer \cap new)
      BY <1>3, <3>1, FS_Union
    <3>4. /\ Cardinality(buffer) \in Nat /\ Cardinality(new) \in Nat
          /\ Cardinality(buffer \cap new) \in Nat /\ Cardinality(job[c].ids) \in Nat
      BY <1>3, <3>1, <3>2, FS_CardinalityType
    <3> QED
      BY <1>3, <2>2, <3>3, <3>4, UsageAssumption DEF Fits
  <2> QED
    BY <1>4, <2>1, <2>2
<1>7. TypeOK'
  <2>1. buffer' \in SUBSET Observations' /\ dropped' \in SUBSET Observations'
    BY <1>1, <1>2, <1>4, Typed
  <2> QED
    BY <1>1, <1>2, <1>5, <1>6, <2>1, Typed DEF UsageInv, TypeOK, tables, bounds
<1>8. FiniteBuffers' /\ BufferedOnce'
  <2>1. flush.events \subseteq Observations
    BY DEF UsageInv, TypeOK, Flushes
  <2> QED
    BY <1>1, <1>2, <1>4, <1>6, <2>1 DEF UsageInv, FiniteBuffers, BufferedOnce
<1>9. LossesAreVisible' /\ CountedAtMostOnce' /\ TotalsCoverEvents'
  <2>1. written \subseteq Observations
    BY DEF UsageInv, TypeOK
  <2>2. LossesAreVisible'
    BY <1>1, <1>4 DEF UsageInv, LossesAreVisible, Waiting, Losses, tables
  <2>3. CountedAtMostOnce'
    BY <1>1, <1>2, <1>4, <2>1 DEF UsageInv, CountedAtMostOnce, Waiting
  <2> QED
    BY <1>1, <2>2, <2>3 DEF UsageInv, TotalsCoverEvents, tables
<1> QED
  BY <1>1, <1>5, <1>7, <1>8, <1>9, Recording DEF UsageInv

\* A miss is buffered or counted as dropped.
LEMMA RecordMissStep ==
  ASSUME UsageInv, NEW c \in Clients, RecordMiss(c)
  PROVE  UsageInv'
<1> DEFINE new == Miss(seen + 1)
<1>1. /\ seen \in Nat /\ seen' = seen + 1 /\ made' = made \cup {new}
      /\ pc[c] = "miss" /\ Finish(c)
      /\ UNCHANGED <<tables, buffer, flush, mode, bounds, written, gone, erased>>
  BY DEF RecordMiss, Observe, UsageInv, TypeOK
<1>2. new \in Observations' /\ new \notin Observations /\ new.event = "miss"
  BY <1>1, MissType
<1>3. \/ /\ Cardinality(missBuffer) < BufferMax
         /\ missBuffer' = missBuffer \cup {new} /\ UNCHANGED dropped
      \/ dropped' = dropped \cup {new} /\ UNCHANGED missBuffer
  <2>1. Cardinality(missBuffer) \in Nat
    BY FS_CardinalityType DEF UsageInv, FiniteBuffers
  <2> QED
    BY <2>1, UsageAssumption DEF RecordMiss
<1>4. /\ pc' \in [Clients -> Steps] /\ job' \in [Clients -> Jobs']
      /\ lock' \in [Addresses -> Clients \cup {None}] /\ JobsFit'
  BY <1>1, Landing
<1> HIDE DEF new
<1>5. IsFiniteSet(missBuffer') /\ Cardinality(missBuffer') <= BufferMax
  <2>1. Cardinality(missBuffer) \in Nat /\ IsFiniteSet(missBuffer)
        /\ Cardinality(missBuffer) <= BufferMax
    BY FS_CardinalityType DEF UsageInv, FiniteBuffers, TypeOK
  <2> QED
    BY <1>3, <2>1, FS_AddElement, UsageAssumption
<1>6. TypeOK'
  <2>1. missBuffer' \in SUBSET Observations' /\ dropped' \in SUBSET Observations'
    BY <1>1, <1>2, <1>3, Typed
  <2> QED
    BY <1>1, <1>2, <1>4, <1>5, <2>1, Typed DEF UsageInv, TypeOK, tables, bounds
<1>7. FiniteBuffers' /\ BufferedOnce'
  <2>1. flush.misses \subseteq Observations
    BY DEF UsageInv, TypeOK, Flushes
  <2> QED
    BY <1>1, <1>2, <1>3, <1>5, <2>1 DEF UsageInv, FiniteBuffers, BufferedOnce
<1>8. LossesAreVisible' /\ CountedAtMostOnce' /\ TotalsCoverEvents'
  <2>1. written \subseteq Observations
    BY DEF UsageInv, TypeOK
  <2>2. LossesAreVisible'
    BY <1>1, <1>3 DEF UsageInv, LossesAreVisible, Waiting, Losses, tables
  <2>3. CountedAtMostOnce'
    BY <1>1, <1>2, <1>3, <2>1 DEF UsageInv, CountedAtMostOnce, Waiting
  <2> QED
    BY <1>1, <2>2, <2>3 DEF UsageInv, TotalsCoverEvents, tables
<1> QED
  BY <1>1, <1>4, <1>6, <1>7, <1>8, Recording DEF UsageInv

\* One statement writes the raw rows and the totals together.
LEMMA CountedStep ==
  ASSUME UsageInv, seen' \in {seen, seen + 1}, NEW batch \in SUBSET Observations',
         Counted(batch), UNCHANGED erased
  PROVE  /\ totals' \in [Addresses -> SUBSET Observations']
         /\ events' \in [Addresses -> SUBSET Observations']
         /\ written' = written \cup batch
         /\ TotalsCoverEvents'
<1>1. /\ totals \in [Addresses -> SUBSET Observations']
      /\ events \in [Addresses -> SUBSET Observations']
  BY Typed
<1>2. /\ totals' = [a \in Addresses |-> totals[a] \cup {o \in batch : o.id = a}]
      /\ events' = [a \in Addresses |-> events[a] \cup {o \in batch : o.id = a}]
      /\ written' = written \cup batch
  BY DEF Counted
<1>3. TotalsCoverEvents'
  <2>1. SUFFICES ASSUME NEW a \in Addresses, NEW o \in events'[a]
                 PROVE  o \in erased \/ \E b \in Addresses : o \in totals'[b]
    BY DEF TotalsCoverEvents
  <2>2. CASE o \in events[a]
    <3>1. o \in erased \/ \E b \in Addresses : o \in totals[b]
      BY <2>2 DEF UsageInv, TotalsCoverEvents
    <3> QED
      BY <1>2, <3>1
  <2>3. CASE o \notin events[a]
    BY <1>2, <2>1, <2>3
  <2> QED
    BY <2>2, <2>3
<1> QED
  BY <1>1, <1>2, <1>3

\* A report writes its event and its total in one transaction.
LEMMA RecordOutcomeStep ==
  ASSUME UsageInv, NEW c \in Clients, RecordOutcome(c)
  PROVE  UsageInv'
<1> DEFINE new == Seen(seen + 1, job[c].ids, job[c].op)
<1>1. /\ seen \in Nat /\ seen' = seen + 1 /\ made' = made \cup new
      /\ pc[c] = "report" /\ job[c].ids \in SUBSET Addresses
      /\ job[c].op = "report" /\ Counted(new)
      /\ UNCHANGED <<rows, missRows, reported, memory, flush, mode, bounds, gone, erased>>
  BY DEF RecordOutcome, Observe, UsageInv, TypeOK, JobsFit, Fit, Jobs
<1>2. new \subseteq Observations' /\ new \cap Observations = {}
  BY <1>1, SeenType
<1>3. /\ pc' \in [Clients -> Steps] /\ job' \in [Clients -> Jobs']
      /\ lock' \in [Addresses -> Clients \cup {None}] /\ JobsFit'
  BY <1>1, Landing DEF RecordOutcome
<1> HIDE DEF new
<1>4. /\ totals' \in [Addresses -> SUBSET Observations']
      /\ events' \in [Addresses -> SUBSET Observations']
      /\ written' = written \cup new
      /\ TotalsCoverEvents'
  BY <1>1, <1>2, CountedStep
<1>5. TypeOK'
  BY <1>1, <1>2, <1>3, <1>4, Typed DEF UsageInv, TypeOK, memory, bounds
<1>6. FiniteBuffers' /\ BufferedOnce'
  BY <1>1 DEF UsageInv, FiniteBuffers, BufferedOnce, memory
<1>7. LossesAreVisible' /\ CountedAtMostOnce'
  <2>1. Waiting \subseteq Observations
    BY DEF UsageInv, TypeOK, Waiting, Flushes
  <2> QED
    BY <1>1, <1>2, <1>4, <2>1
    DEF UsageInv, LossesAreVisible, CountedAtMostOnce, Waiting, Losses, memory
<1> QED
  BY <1>1, <1>3, <1>4, <1>5, <1>6, <1>7, Recording DEF UsageInv

\* Pruning takes raw rows away and nothing else.
LEMMA PruneStep ==
  ASSUME UsageInv, PruneIfDue, UNCHANGED <<seen, erased>>
  PROVE  /\ events' \in [Addresses -> SUBSET Observations]
         /\ pruned' \in BOOLEAN /\ UNCHANGED <<rows, totals, missRows, reported>>
         /\ TotalsCoverEvents'
<1>1. events' \in [Addresses -> SUBSET Observations]
  BY DEF PruneIfDue, Prune, UsageInv, TypeOK, tables
<1>2. \A a \in Addresses : events'[a] \subseteq events[a]
  BY DEF PruneIfDue, Prune, UsageInv, TypeOK, tables
<1>3. pruned' \in BOOLEAN /\ UNCHANGED <<rows, totals, missRows, reported>>
  BY DEF PruneIfDue, Prune, UsageInv, TypeOK, tables
<1>4. TotalsCoverEvents'
  BY <1>2, <1>3 DEF UsageInv, TotalsCoverEvents
<1> QED
  BY <1>1, <1>3, <1>4

\* Pruning old raw rows takes nothing from the totals.
LEMMA PruneAfterReportStep ==
  ASSUME UsageInv, NEW c \in Clients, PruneAfterReport(c)
  PROVE  UsageInv'
<1>1. /\ pc[c] = "prune" /\ Finish(c) /\ PruneIfDue
      /\ UNCHANGED <<memory, flush, mode, seen, budget, failures, history>>
  BY DEF PruneAfterReport
<1>2. Observations' = Observations /\ Jobs' = Jobs /\ Flushes' = Flushes
  BY <1>1 DEF Observations, Jobs, Flushes
<1>3. /\ pc' \in [Clients -> Steps] /\ job' \in [Clients -> Jobs']
      /\ lock' \in [Addresses -> Clients \cup {None}] /\ JobsFit'
  BY <1>1, Landing
<1>4. /\ events' \in [Addresses -> SUBSET Observations]
      /\ pruned' \in BOOLEAN /\ UNCHANGED <<rows, totals, missRows, reported>>
      /\ TotalsCoverEvents'
  BY <1>1, PruneStep DEF history
<1>5. TypeOK'
  BY <1>1, <1>2, <1>3, <1>4 DEF UsageInv, TypeOK, memory, history
<1>6. FiniteBuffers' /\ BufferedOnce' /\ LossesAreVisible' /\ CountedAtMostOnce'
  BY <1>1, <1>4 DEF UsageInv, FiniteBuffers, BufferedOnce, LossesAreVisible,
                    CountedAtMostOnce, Waiting, Losses, memory, history
<1> QED
  BY <1>1, <1>3, <1>4, <1>5, <1>6, Recording DEF UsageInv

\* A move carries what it took to its destination, a purge erases it.
LEMMA CommitStep ==
  ASSUME UsageInv, NEW c \in Clients, Commit(c)
  PROVE  UsageInv'
<1>1. PICK a \in job[c].ids :
        /\ rows' = [x \in Addresses |->
             CASE x = a -> "absent" [] x = job[c].to -> "live" [] OTHER -> rows[x]]
        /\ totals' = [x \in Addresses |->
             CASE x = a         -> totals[x] \ job[c].counted
               [] x = job[c].to -> totals[x] \cup (job[c].counted \cap totals[a])
               [] OTHER         -> totals[x]]
        /\ events' = [x \in Addresses |->
             CASE x = a         -> events[x] \ job[c].taken
               [] x = job[c].to -> events[x] \cup (job[c].taken \cap events[a])
               [] OTHER         -> events[x]]
  BY DEF Commit
<1>2. /\ erased' = IF job[c].op = "purge" THEN erased \cup job[c].counted ELSE erased
      /\ pc[c] = "commit" /\ Finish(c)
      /\ UNCHANGED <<missRows, reported, memory, flush, mode, seen, bounds, made, written, gone>>
  BY DEF Commit
<1>3. /\ job[c] \in Jobs /\ job[c].op \in {"purge", "move"} /\ a \in Addresses
      /\ job[c].op = "purge" => job[c].to = None
      /\ job[c].op = "move" => job[c].to \in Addresses \ job[c].ids
      /\ totals \in [Addresses -> SUBSET Observations]
      /\ events \in [Addresses -> SUBSET Observations]
      /\ rows \in [Addresses -> {"absent", "live", "deleted"}]
      /\ None \notin Addresses
  BY <1>2, UsageAssumption DEF UsageInv, TypeOK, JobsFit, Fit, Jobs
<1>4. Observations' = Observations /\ Jobs' = Jobs /\ Flushes' = Flushes
  BY <1>2 DEF Observations, Jobs, Flushes
<1>5. /\ totals' \in [Addresses -> SUBSET Observations]
      /\ events' \in [Addresses -> SUBSET Observations]
      /\ rows' \in [Addresses -> {"absent", "live", "deleted"}]
  BY <1>1, <1>3
<1>6. /\ pc' \in [Clients -> Steps] /\ job' \in [Clients -> Jobs']
      /\ lock' \in [Addresses -> Clients \cup {None}] /\ JobsFit'
  BY <1>2, Landing
<1>7. TypeOK'
  <2>1. erased' \in SUBSET Observations
    BY <1>2, <1>3 DEF Jobs, UsageInv, TypeOK
  <2> QED
    BY <1>2, <1>4, <1>5, <1>6, <2>1 DEF UsageInv, TypeOK, memory, bounds
<1>8. TotalsCoverEvents'
  <2>1. SUFFICES ASSUME NEW x \in Addresses, NEW o \in events'[x]
                 PROVE  o \in erased' \/ \E b \in Addresses : o \in totals'[b]
    BY DEF TotalsCoverEvents
  <2>2. \E y \in Addresses : o \in events[y]
    BY <1>1, <1>3, <2>1
  <2>3. o \in erased \/ \E b \in Addresses : o \in totals[b]
    BY <2>2 DEF UsageInv, TotalsCoverEvents
  <2>4. ASSUME NEW b \in Addresses, o \in totals[b], o \notin erased'
        PROVE  \E d \in Addresses : o \in totals'[d]
    <3>1. CASE b # a
      <4>1. o \in totals'[b]
        BY <1>1, <2>4, <3>1
      <4> QED
        BY <4>1
    <3>2. CASE b = a /\ o \notin job[c].counted
      <4>1. o \in totals'[a]
        BY <1>1, <1>3, <2>4, <3>2
      <4> QED
        BY <1>3, <4>1
    <3>3. CASE b = a /\ o \in job[c].counted
      <4>1. job[c].op = "move" /\ job[c].to \in Addresses /\ job[c].to # a
        BY <1>1, <1>2, <1>3, <2>4, <3>3
      <4>2. o \in totals'[job[c].to]
        BY <1>1, <2>4, <3>3, <4>1
      <4> QED
        BY <4>1, <4>2
    <3> QED
      BY <3>1, <3>2, <3>3
  <2> QED
    BY <1>2, <2>3, <2>4
<1>9. FiniteBuffers' /\ BufferedOnce' /\ LossesAreVisible' /\ CountedAtMostOnce'
  BY <1>2 DEF UsageInv, FiniteBuffers, BufferedOnce, LossesAreVisible,
              CountedAtMostOnce, Waiting, Losses, memory
<1> QED
  BY <1>2, <1>6, <1>7, <1>8, <1>9, Recording DEF UsageInv

\* A concept made or deleted leaves what was recorded of it.
LEMMA ChangeStep ==
  ASSUME UsageInv, NEW a \in Addresses, Create(a) \/ SoftDelete(a)
  PROVE  UsageInv'
<1>1. \E from \in SUBSET {"absent", "live", "deleted"}, to \in {"live", "deleted"} :
        Change(a, from, to)
  BY DEF Create, SoftDelete
<1>2. /\ rows' \in [Addresses -> {"absent", "live", "deleted"}]
      /\ UNCHANGED <<totals, events, missRows, reported, lock, memory, flush, mode, pc, job,
                     seen, failures, pruned, history>>
  BY <1>1 DEF Change, UsageInv, TypeOK
<1>3. budget' \in 0 .. MaxRequests
  BY UsageAssumption DEF Create, SoftDelete, UsageInv, TypeOK
<1>4. Observations' = Observations /\ Jobs' = Jobs /\ Flushes' = Flushes
  BY <1>2 DEF Observations, Jobs, Flushes
<1>5. TypeOK'
  BY <1>2, <1>3, <1>4 DEF UsageInv, TypeOK, memory, history
<1>6. FiniteBuffers' /\ JobsFit' /\ FlushFits' /\ BufferedOnce' /\ Shutdown' /\ CleanShutdown'
  BY <1>2 DEF UsageInv, FiniteBuffers, JobsFit, FlushFits, BufferedOnce, Shutdown,
              CleanShutdown, Waiting, memory
<1>7. LossesAreVisible' /\ CountedAtMostOnce' /\ TotalsCoverEvents'
  BY <1>2 DEF UsageInv, LossesAreVisible, CountedAtMostOnce, TotalsCoverEvents, Waiting,
              Losses, memory, history
<1> QED
  BY <1>5, <1>6, <1>7 DEF UsageInv

-----------------------------------------------------------------------------
(* The flush loop and the process.                                           *)

\* What a step of the flush leaves alone.
LEMMA FlushAside ==
  ASSUME UsageInv, UNCHANGED <<pc, job, seen>>
  PROVE  /\ Observations' = Observations /\ Jobs' = Jobs /\ Flushes' = Flushes
         /\ JobsFit'
BY DEF Observations, Jobs, Flushes, UsageInv, JobsFit

\* A flush takes both buffers, and what it took is in its hands.
LEMMA FlushTakeStep ==
  ASSUME UsageInv, FlushTake
  PROVE  UsageInv'
<1>1. /\ flush.at = "idle" /\ mode \notin {"closed", "exited"}
      /\ flush' = [at |-> "misses", last |-> mode \in {"stopping", "cut"}, prune |-> FALSE,
                   events |-> buffer, misses |-> missBuffer, drops |-> {}]
      /\ buffer' = {} /\ missBuffer' = {}
      /\ UNCHANGED <<tables, lock, dropped, mode, pc, job, seen, bounds, history>>
  BY DEF FlushTake, NoFlush, Serving, Ended
<1>2. Observations' = Observations /\ Jobs' = Jobs /\ Flushes' = Flushes /\ JobsFit'
  BY <1>1, FlushAside
<1>3. IsFiniteSet({}) /\ Cardinality({}) = 0
  BY FS_EmptySet
<1>4. flush.events = {} /\ flush.misses = {} /\ flush.drops = {}
  BY <1>1 DEF UsageInv, FlushFits
<1>5. TypeOK'
  <2>1. flush' \in Flushes
    BY <1>1 DEF UsageInv, TypeOK, Flushes
  <2> QED
    BY <1>1, <1>2, <1>3, <2>1, UsageAssumption DEF UsageInv, TypeOK, tables, bounds, history
<1>6. FiniteBuffers' /\ FlushFits' /\ BufferedOnce'
  BY <1>1, <1>3 DEF UsageInv, FiniteBuffers, FlushFits, BufferedOnce
<1>7. Shutdown' /\ CleanShutdown'
  BY <1>1 DEF UsageInv, Shutdown, CleanShutdown
<1>8. LossesAreVisible' /\ CountedAtMostOnce' /\ TotalsCoverEvents'
  BY <1>1, <1>4 DEF UsageInv, LossesAreVisible, CountedAtMostOnce, TotalsCoverEvents,
                    Waiting, Losses, tables, history
<1> QED
  BY <1>2, <1>5, <1>6, <1>7, <1>8 DEF UsageInv

\* The misses are written, or lost and counted, or both.
LEMMA FlushMissesStep ==
  ASSUME UsageInv, FlushMisses
  PROVE  UsageInv'
<1>1. /\ flush.at = "misses"
      /\ flush' = [flush EXCEPT !.at = "events", !.misses = {}]
      /\ UNCHANGED <<rows, totals, events, reported, lock, buffer, missBuffer, mode, pc, job,
                     seen, budget, pruned, made, gone, erased>>
  BY DEF FlushMisses
<1>2. \/ MissesWritten /\ UNCHANGED <<dropped, failures>>
      \/ /\ Failing /\ dropped' = dropped \cup flush.misses
         /\ MissesWritten \/ UNCHANGED <<missRows, written>>
  BY DEF FlushMisses
<1>3. Observations' = Observations /\ Jobs' = Jobs /\ Flushes' = Flushes /\ JobsFit'
  BY <1>1, FlushAside
<1>4. /\ flush \in Flushes /\ flush' \in Flushes
      /\ flush'.at = "events" /\ flush'.misses = {} /\ flush'.last = flush.last
      /\ flush'.events = flush.events /\ flush'.drops = flush.drops
  BY <1>1 DEF UsageInv, TypeOK, Flushes
<1>5. TypeOK'
  <2>1. /\ missRows' \in SUBSET Observations /\ written' \in SUBSET Observations
        /\ dropped' \in SUBSET Observations /\ failures' \in 0 .. MaxFailures
    BY <1>2, <1>4, UsageAssumption DEF MissesWritten, Failing, UsageInv, TypeOK, Flushes
  <2> QED
    BY <1>1, <1>3, <1>4, <2>1 DEF UsageInv, TypeOK
<1>6. FiniteBuffers' /\ FlushFits' /\ BufferedOnce' /\ Shutdown'
  BY <1>1, <1>4 DEF UsageInv, FiniteBuffers, FlushFits, BufferedOnce, Shutdown
<1>7. LossesAreVisible' /\ CountedAtMostOnce' /\ TotalsCoverEvents' /\ CleanShutdown'
  <2>1. /\ written \subseteq written' /\ written' \subseteq written \cup flush.misses
        /\ dropped \subseteq dropped' /\ flush.misses \subseteq written' \cup dropped'
    BY <1>2 DEF MissesWritten
  <2>2. flush.misses \cap (buffer \cup missBuffer \cup flush.events) = {}
    BY DEF UsageInv, BufferedOnce
  <2> QED
    BY <1>1, <1>4, <2>1, <2>2
    DEF UsageInv, LossesAreVisible, CountedAtMostOnce, TotalsCoverEvents, CleanShutdown,
        Waiting, Losses
<1> QED
  BY <1>3, <1>5, <1>6, <1>7 DEF UsageInv

\* The events and their totals are written together, or counted as lost, or both.
LEMMA FlushEventsStep ==
  ASSUME UsageInv, FlushEvents
  PROVE  UsageInv'
<1>1. /\ flush.at = "events"
      /\ \E prune \in BOOLEAN :
           flush' = [flush EXCEPT !.at = "drops", !.events = {}, !.prune = prune]
      /\ UNCHANGED <<rows, missRows, reported, lock, buffer, missBuffer, mode, pc, job, seen,
                     budget, pruned, made, gone, erased>>
  <2>1. flush.prune \in BOOLEAN /\ flush = [flush EXCEPT !.prune = flush.prune]
    BY DEF UsageInv, TypeOK, Flushes
  <2>2. (flush.events # {}) \in BOOLEAN
    OBVIOUS
  <2>3. [flush EXCEPT !.at = "drops", !.events = {}] =
        [flush EXCEPT !.at = "drops", !.events = {}, !.prune = flush.prune]
    BY DEF UsageInv, TypeOK, Flushes
  <2> QED
    BY <2>1, <2>2, <2>3 DEF FlushEvents, CountDropped
<1>2. \/ Counted(flush.events) /\ UNCHANGED <<dropped, failures>>
      \/ /\ Failing /\ dropped' = dropped \cup flush.events
         /\ Counted(flush.events) \/ UNCHANGED <<totals, events, written>>
  BY DEF FlushEvents, CountDropped
<1>3. Observations' = Observations /\ Jobs' = Jobs /\ Flushes' = Flushes /\ JobsFit'
  BY <1>1, FlushAside
<1>4. /\ flush \in Flushes /\ flush' \in Flushes
      /\ flush'.at = "drops" /\ flush'.events = {} /\ flush'.last = flush.last
      /\ flush'.misses = flush.misses /\ flush'.drops = flush.drops
  BY <1>1 DEF UsageInv, TypeOK, Flushes
<1>5. /\ totals' \in [Addresses -> SUBSET Observations]
      /\ events' \in [Addresses -> SUBSET Observations]
      /\ written \subseteq written' /\ written' \subseteq written \cup flush.events
      /\ dropped \subseteq dropped' /\ flush.events \subseteq written' \cup dropped'
      /\ TotalsCoverEvents'
  <2>1. CASE Counted(flush.events)
    <3>1. flush.events \in SUBSET Observations'
      BY <1>3, <1>4 DEF Flushes
    <3> QED
      BY <1>1, <1>2, <1>3, <2>1, <3>1, CountedStep
  <2>2. CASE UNCHANGED <<totals, events, written>>
    BY <1>1, <1>2, <2>2 DEF UsageInv, TypeOK, TotalsCoverEvents, Counted
  <2> QED
    BY <1>2, <2>1, <2>2
<1>6. TypeOK'
  <2>1. /\ written' \in SUBSET Observations
        /\ dropped' \in SUBSET Observations /\ failures' \in 0 .. MaxFailures
    BY <1>2, <1>4, <1>5, UsageAssumption DEF Failing, UsageInv, TypeOK, Flushes
  <2> QED
    BY <1>1, <1>3, <1>4, <1>5, <2>1 DEF UsageInv, TypeOK
<1>7. FiniteBuffers' /\ FlushFits' /\ BufferedOnce' /\ Shutdown'
  BY <1>1, <1>4 DEF UsageInv, FiniteBuffers, FlushFits, BufferedOnce, Shutdown
<1>8. LossesAreVisible' /\ CountedAtMostOnce' /\ CleanShutdown'
  <2>1. flush.events \cap (buffer \cup missBuffer \cup flush.misses) = {}
    BY DEF UsageInv, BufferedOnce
  <2> QED
    BY <1>1, <1>4, <1>5, <2>1
    DEF UsageInv, LossesAreVisible, CountedAtMostOnce, CleanShutdown, Waiting, Losses
<1> QED
  BY <1>3, <1>5, <1>6, <1>7, <1>8 DEF UsageInv

\* A flush that is over carries nothing, and what closed the store was the last.
LEMMA Ending ==
  ASSUME UsageInv, FlushEnd \/ AfterDrops, flush.at \in {"drops", "report", "prune"},
         UNCHANGED <<buffer, missBuffer, pc, seen>>
  PROVE  /\ flush' \in Flushes /\ flush'.drops = {} /\ flush'.events = {} /\ flush'.misses = {}
         /\ mode' \in {"up", "draining", "stopping", "cut", "closed", "exited"}
         /\ FlushFits' /\ Shutdown' /\ CleanShutdown'
<1>1. flush \in Flushes /\ flush.events = {} /\ flush.misses = {}
  BY DEF UsageInv, TypeOK, FlushFits
<1>2. CASE FlushEnd
  <2>1. flush' = NoFlush /\ NoFlush.events = {} /\ NoFlush.misses = {} /\ NoFlush.drops = {}
        /\ NoFlush.last = FALSE
    BY <1>2 DEF FlushEnd, NoFlush
  <2>2. mode' = IF ~flush.last THEN mode ELSE IF mode = "cut" THEN "exited" ELSE "closed"
    BY <1>2 DEF FlushEnd
  <2>3. mode' = "closed" => Waiting' = {} /\ \A c \in Clients : pc'[c] = "idle"
    <3>1. CASE mode = "closed" /\ ~flush.last
      BY <1>1, <2>1, <3>1 DEF UsageInv, CleanShutdown, Waiting
    <3>2. CASE flush.last /\ mode = "stopping"
      BY <2>1, <3>2 DEF UsageInv, Shutdown, Waiting
    <3> QED
      BY <2>2, <3>1, <3>2 DEF UsageInv, Shutdown
  <2>4. mode' = "stopping" => \A c \in Clients : pc'[c] = "idle"
    BY <2>2 DEF UsageInv, Shutdown
  <2> QED
    BY <2>1, <2>2, <2>3, <2>4, EmptyTypes
    DEF UsageInv, TypeOK, Flushes, FlushFits, Shutdown, CleanShutdown
<1>3. CASE flush' = [flush EXCEPT !.at = "prune", !.drops = {}] /\ UNCHANGED mode
  <2>1. /\ flush' \in Flushes /\ flush'.drops = {} /\ flush'.events = {}
        /\ flush'.misses = {} /\ flush'.last = flush.last
    BY <1>1, <1>3 DEF Flushes
  <2> QED
    BY <1>1, <1>3, <2>1
    DEF UsageInv, TypeOK, FlushFits, Shutdown, CleanShutdown, Waiting
<1> QED
  BY <1>2, <1>3 DEF AfterDrops

\* The loss counters move into the flush that will report them.
LEMMA TakeDropsStep ==
  ASSUME UsageInv, TakeDrops
  PROVE  UsageInv'
<1>1. /\ flush.at = "drops"
      /\ UNCHANGED <<tables, lock, buffer, missBuffer, pc, job, seen, bounds, history>>
  BY DEF TakeDrops
<1>2. Observations' = Observations /\ Jobs' = Jobs /\ Flushes' = Flushes /\ JobsFit'
  BY <1>1, FlushAside
<1>3. flush \in Flushes /\ flush.events = {} /\ flush.misses = {} /\ flush.drops = {}
  BY <1>1 DEF UsageInv, TypeOK, FlushFits
<1>4. /\ flush' \in Flushes /\ flush'.events = {} /\ flush'.misses = {}
      /\ mode' \in {"up", "draining", "stopping", "cut", "closed", "exited"}
      /\ dropped' \in SUBSET Observations /\ dropped \subseteq dropped' \cup flush'.drops
      /\ FlushFits' /\ Shutdown' /\ CleanShutdown'
  <2>1. CASE dropped = {}
    BY <1>1, <2>1, Ending DEF TakeDrops, UsageInv, TypeOK
  <2>2. CASE dropped # {}
    <3>1. /\ flush' = [flush EXCEPT !.at = "report", !.drops = dropped]
          /\ dropped' = {} /\ UNCHANGED mode
      BY <2>2 DEF TakeDrops
    <3>2. /\ flush' \in Flushes /\ flush'.events = {} /\ flush'.misses = {}
          /\ flush'.drops = dropped /\ flush'.at = "report" /\ flush'.last = flush.last
      BY <1>3, <3>1 DEF Flushes, UsageInv, TypeOK
    <3> QED
      BY <1>1, <1>3, <3>1, <3>2
      DEF UsageInv, TypeOK, FlushFits, Shutdown, CleanShutdown, Waiting
  <2> QED
    BY <2>1, <2>2
<1>5. TypeOK'
  BY <1>1, <1>2, <1>4 DEF UsageInv, TypeOK, tables, bounds, history
<1>6. FiniteBuffers' /\ BufferedOnce'
  BY <1>1, <1>4 DEF UsageInv, FiniteBuffers, BufferedOnce
<1>7. LossesAreVisible' /\ CountedAtMostOnce' /\ TotalsCoverEvents'
  BY <1>1, <1>3, <1>4
  DEF UsageInv, LossesAreVisible, CountedAtMostOnce, TotalsCoverEvents, Waiting, Losses,
      tables, history
<1> QED
  BY <1>2, <1>4, <1>5, <1>6, <1>7 DEF UsageInv

\* What was taken is reported, or put back, or both.
LEMMA ReportStep ==
  ASSUME UsageInv, ReportDrops \/ ReportFails
  PROVE  UsageInv'
<1>1. /\ flush.at = "report" /\ AfterDrops
      /\ UNCHANGED <<rows, totals, events, missRows, lock, buffer, missBuffer, pc, job, seen,
                     budget, pruned, history>>
      /\ failures' \in 0 .. MaxFailures
      /\ dropped' \in {dropped, dropped \cup flush.drops}
      /\ reported' \in {reported, reported \cup flush.drops}
      /\ dropped' = dropped \cup flush.drops \/ reported' = reported \cup flush.drops
  BY UsageAssumption DEF ReportDrops, ReportFails, Failing, PutDropsBack, UsageInv, TypeOK,
     memory, bounds
<1>2. Observations' = Observations /\ Jobs' = Jobs /\ Flushes' = Flushes /\ JobsFit'
  BY <1>1, FlushAside
<1>3. flush \in Flushes /\ flush.events = {} /\ flush.misses = {}
  BY <1>1 DEF UsageInv, TypeOK, FlushFits
<1>4. /\ flush' \in Flushes /\ flush'.drops = {} /\ flush'.events = {} /\ flush'.misses = {}
      /\ mode' \in {"up", "draining", "stopping", "cut", "closed", "exited"}
      /\ FlushFits' /\ Shutdown' /\ CleanShutdown'
  BY <1>1, Ending
<1>5. TypeOK'
  <2>1. dropped' \in SUBSET Observations /\ reported' \in SUBSET Observations
    BY <1>1, <1>3 DEF UsageInv, TypeOK, Flushes
  <2> QED
    BY <1>1, <1>2, <1>4, <2>1 DEF UsageInv, TypeOK, history
<1>6. FiniteBuffers' /\ BufferedOnce'
  BY <1>1, <1>4 DEF UsageInv, FiniteBuffers, BufferedOnce
<1>7. LossesAreVisible' /\ CountedAtMostOnce' /\ TotalsCoverEvents'
  BY <1>1, <1>3, <1>4
  DEF UsageInv, LossesAreVisible, CountedAtMostOnce, TotalsCoverEvents, Waiting, Losses, history
<1> QED
  BY <1>2, <1>4, <1>5, <1>6, <1>7 DEF UsageInv

\* The end of a flush.
LEMMA PruneAfterFlushStep ==
  ASSUME UsageInv, PruneAfterFlush
  PROVE  UsageInv'
<1>1. /\ flush.at = "prune" /\ PruneIfDue /\ FlushEnd
      /\ UNCHANGED <<lock, memory, pc, job, seen, budget, failures, history>>
  BY DEF PruneAfterFlush
<1>2. Observations' = Observations /\ Jobs' = Jobs /\ Flushes' = Flushes /\ JobsFit'
  BY <1>1, FlushAside
<1>3. flush \in Flushes /\ flush.events = {} /\ flush.misses = {} /\ flush.drops = {}
  BY <1>1 DEF UsageInv, TypeOK, FlushFits
<1>4. /\ flush' \in Flushes /\ flush'.drops = {} /\ flush'.events = {} /\ flush'.misses = {}
      /\ mode' \in {"up", "draining", "stopping", "cut", "closed", "exited"}
      /\ FlushFits' /\ Shutdown' /\ CleanShutdown'
  BY <1>1, Ending DEF memory
<1>5. /\ events' \in [Addresses -> SUBSET Observations]
      /\ pruned' \in BOOLEAN /\ UNCHANGED <<rows, totals, missRows, reported>>
      /\ TotalsCoverEvents'
  BY <1>1, PruneStep DEF history
<1>6. TypeOK'
  BY <1>1, <1>2, <1>4, <1>5 DEF UsageInv, TypeOK, memory, history
<1>7. FiniteBuffers' /\ BufferedOnce' /\ LossesAreVisible' /\ CountedAtMostOnce'
  BY <1>1, <1>3, <1>4, <1>5
  DEF UsageInv, FiniteBuffers, BufferedOnce, LossesAreVisible, CountedAtMostOnce, Waiting,
      Losses, memory, history
<1> QED
  BY <1>2, <1>4, <1>5, <1>6, <1>7 DEF UsageInv

\* The signals, and the two ways a drain ends.
LEMMA ModeStep ==
  ASSUME UsageInv, Stop \/ Close \/ CutDrain
  PROVE  UsageInv'
<1>1. /\ UNCHANGED <<tables, lock, memory, flush, pc, job, seen, bounds, history>>
      /\ mode' \in {"draining", "stopping", "cut"} /\ mode \in {"up", "draining"}
      /\ mode' = "stopping" => \A c \in Clients : pc[c] = "idle"
  BY DEF Stop, Close, CutDrain, Drained
<1>2. Observations' = Observations /\ Jobs' = Jobs /\ Flushes' = Flushes /\ JobsFit'
  BY <1>1, FlushAside
<1>3. TypeOK'
  BY <1>1, <1>2 DEF UsageInv, TypeOK, tables, memory, bounds, history
<1>4. Shutdown' /\ CleanShutdown'
  BY <1>1 DEF UsageInv, Shutdown, CleanShutdown
<1>5. FiniteBuffers' /\ FlushFits' /\ BufferedOnce'
  BY <1>1 DEF UsageInv, FiniteBuffers, FlushFits, BufferedOnce, memory
<1>6. LossesAreVisible' /\ CountedAtMostOnce' /\ TotalsCoverEvents'
  BY <1>1 DEF UsageInv, LossesAreVisible, CountedAtMostOnce, TotalsCoverEvents, Waiting,
              Losses, tables, memory, history
<1> QED
  BY <1>2, <1>3, <1>4, <1>5, <1>6 DEF UsageInv

\* A killed process takes its memory, and the model remembers what was in it.
LEMMA DieStep ==
  ASSUME UsageInv, Die
  PROVE  UsageInv'
<1>1. /\ gone' = gone \cup Waiting \cup Losses
      /\ buffer' = {} /\ missBuffer' = {} /\ dropped' = {}
      /\ flush' = NoFlush /\ mode' = "up" /\ pruned' = FALSE
      /\ pc' = [c \in Clients |-> "idle"] /\ job' = [c \in Clients |-> NoJob]
      /\ lock' = [a \in Addresses |-> None]
      /\ UNCHANGED <<tables, seen, budget, failures, made, written, erased>>
  BY DEF Die
<1>2. Observations' = Observations /\ Jobs' = Jobs /\ Flushes' = Flushes
  BY <1>1 DEF Observations, Jobs, Flushes
<1>3. IsFiniteSet({}) /\ Cardinality({}) = 0
  BY FS_EmptySet
<1>4. TypeOK'
  <2>1. gone' \in SUBSET Observations
    BY <1>1 DEF UsageInv, TypeOK, Waiting, Losses, Flushes
  <2>2. pc' \in [Clients -> Steps] /\ job' \in [Clients -> Jobs] /\ flush' \in Flushes
    BY <1>1, EmptyTypes DEF Steps
  <2>3. lock' \in [Addresses -> Clients \cup {None}]
    BY <1>1
  <2>4. Cardinality(buffer') <= BufferMax /\ Cardinality(missBuffer') <= BufferMax
    BY <1>1, <1>3, UsageAssumption
  <2>5. /\ mode' \in {"up", "draining", "stopping", "cut", "closed", "exited"}
        /\ buffer' \in SUBSET Observations /\ missBuffer' \in SUBSET Observations
        /\ dropped' \in SUBSET Observations /\ pruned' \in BOOLEAN
    BY <1>1
  <2> QED
    BY <1>1, <1>2, <2>1, <2>2, <2>3, <2>4, <2>5 DEF UsageInv, TypeOK, tables
<1>5. FiniteBuffers' /\ JobsFit' /\ FlushFits' /\ BufferedOnce' /\ Shutdown' /\ CleanShutdown'
  BY <1>1, <1>3, EmptyTypes
  DEF FiniteBuffers, JobsFit, FlushFits, BufferedOnce, Shutdown, CleanShutdown, NoFlush
<1>6. LossesAreVisible' /\ CountedAtMostOnce' /\ TotalsCoverEvents'
  BY <1>1 DEF UsageInv, LossesAreVisible, CountedAtMostOnce, TotalsCoverEvents, Waiting,
              Losses, tables, NoFlush
<1> QED
  BY <1>4, <1>5, <1>6 DEF UsageInv

-----------------------------------------------------------------------------
(* The theorems.                                                            *)

\* Nothing has been seen.
LEMMA Initially == Init => UsageInv
<1> SUFFICES ASSUME Init PROVE UsageInv
  OBVIOUS
<1>1. IsFiniteSet({}) /\ Cardinality({}) = 0
  BY FS_EmptySet
<1>2. /\ totals \in [Addresses -> SUBSET Observations]
      /\ events = totals
  BY DEF Init, Seen, Observations
<1>3. TypeOK
  <2>1. /\ lock \in [Addresses -> Clients \cup {None}] /\ job \in [Clients -> Jobs]
        /\ pc \in [Clients -> Steps] /\ flush \in Flushes
    BY EmptyTypes DEF Init, Steps
  <2>2. /\ Cardinality(buffer) <= BufferMax /\ Cardinality(missBuffer) <= BufferMax
        /\ seen \in Nat /\ budget \in 0 .. MaxRequests /\ failures \in 0 .. MaxFailures
    BY <1>1, UsageAssumption DEF Init
  <2>3. /\ rows \in [Addresses -> {"absent", "live", "deleted"}]
        /\ missRows = {} /\ reported = {} /\ buffer = {} /\ missBuffer = {} /\ dropped = {}
        /\ made = {} /\ written = {} /\ gone = {} /\ erased = {}
        /\ mode = "up" /\ pruned = FALSE
    BY DEF Init
  <2> QED
    BY <1>2, <2>1, <2>2, <2>3 DEF TypeOK
<1>4. FiniteBuffers /\ JobsFit /\ FlushFits /\ BufferedOnce /\ Shutdown /\ CleanShutdown
  BY <1>1, EmptyTypes
  DEF Init, FiniteBuffers, JobsFit, FlushFits, BufferedOnce, Shutdown, CleanShutdown, NoFlush
<1>5. LossesAreVisible /\ CountedAtMostOnce /\ TotalsCoverEvents
  BY <1>2 DEF Init, LossesAreVisible, CountedAtMostOnce, TotalsCoverEvents, Waiting, NoFlush
<1> QED
  BY <1>3, <1>4, <1>5 DEF UsageInv

\* A step that changes nothing keeps everything.
LEMMA Idle == UsageInv /\ UNCHANGED vars => UsageInv'
<1> SUFFICES ASSUME UsageInv, UNCHANGED vars PROVE UsageInv'
  OBVIOUS
<1> USE DEF vars, tables, memory, bounds, history
<1>1. Observations' = Observations /\ Jobs' = Jobs /\ Flushes' = Flushes /\ JobsFit'
  BY FlushAside
<1>2. TypeOK'
  BY <1>1 DEF UsageInv, TypeOK
<1>3. /\ FiniteBuffers' /\ FlushFits' /\ BufferedOnce' /\ Shutdown' /\ CleanShutdown'
      /\ LossesAreVisible' /\ CountedAtMostOnce' /\ TotalsCoverEvents'
  BY DEF UsageInv, FiniteBuffers, FlushFits, BufferedOnce, Shutdown, CleanShutdown,
         LossesAreVisible, CountedAtMostOnce, TotalsCoverEvents, Waiting, Losses
<1> QED
  BY <1>1, <1>2, <1>3 DEF UsageInv

\* The invariant is inductive.
LEMMA Inductive == Spec => []UsageInv
<1>1. ASSUME UsageInv, [Next]_vars PROVE UsageInv'
  <2>1. ASSUME NEW c \in Clients, Request(c) \/ Step(c) \/ Abort(c) PROVE UsageInv'
    BY <1>1, <2>1, RequestStep, ReadStep, RecordEventsStep, RecordMissStep, RecordOutcomeStep,
       PruneAfterReportStep, CommitStep DEF Step
  <2>2. ASSUME FlushStep PROVE UsageInv'
    BY <1>1, <2>2, FlushTakeStep, FlushMissesStep, FlushEventsStep, TakeDropsStep, ReportStep,
       PruneAfterFlushStep DEF FlushStep
  <2> QED
    BY <1>1, <2>1, <2>2, ChangeStep, ModeStep, DieStep, Idle DEF Next
<1> QED
  BY <1>1, Initially, PTL DEF Spec

(* Every variable keeps its type, and no buffer outgrows its cap               *)
(* (usageBufferMax).                                                         *)
THEOREM TypeCorrect == Spec => []TypeOK
<1>1. UsageInv => TypeOK
  BY DEF UsageInv
<1> QED
  BY <1>1, Inductive, PTL

(* Whatever fails and whenever the flush runs, an observation is written,      *)
(* waiting or counted as lost, unless the process died with it (record,         *)
(* flushUsage, countDropped, recordDrops).                                     *)
THEOREM NothingIsLostSilently == Spec => []LossesAreVisible
<1>1. UsageInv => LossesAreVisible
  BY DEF UsageInv
<1> QED
  BY <1>1, Inductive, PTL

(* What the database may already have run is never sent again (the batch of a  *)
(* flush is taken out of the buffer, and a failed one is not put back).         *)
THEOREM NothingIsCountedTwice == Spec => []CountedAtMostOnce
<1>1. UsageInv => CountedAtMostOnce
  BY DEF UsageInv
<1> QED
  BY <1>1, Inductive, PTL

(* However flushes, reports, pruning and moves interleave, a raw row is counted *)
(* by a total somewhere, or by one a purge erased (writeEvents, Move, Purge).    *)
THEOREM TotalsKeepUp == Spec => []TotalsCoverEvents
<1>1. UsageInv => TotalsCoverEvents
  BY DEF UsageInv
<1> QED
  BY <1>1, Inductive, PTL

(* A store that was closed in order has nothing waiting and nobody to record    *)
(* (serve's drain, then Store.Close's last flush).                             *)
THEOREM ShutdownIsClean == Spec => []CleanShutdown
<1>1. UsageInv => CleanShutdown
  BY DEF UsageInv
<1> QED
  BY <1>1, Inductive, PTL

=============================================================================
