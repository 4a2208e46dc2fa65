---------------------------- MODULE UsageLedger ----------------------------
(***************************************************************************)
(* What the server observes of its readers (internal/store/usage.go), and    *)
(* the writes that destroy and rename what was read (Store.Purge, Store.Move).*)
(*                                                                         *)
(* Reads buffer their observations in memory; a background loop takes the    *)
(* buffers and writes them, an observation it cannot write is counted as a   *)
(* loss, and the loss is written by a later flush.  A shutdown drains the    *)
(* requests and flushes once more; a killed process takes its memory along.  *)
(*                                                                         *)
(* An observation is a token, so a running total is the set it counts; the   *)
(* totals of an address, one row per kind of event, are kept together.        *)
(***************************************************************************)
EXTENDS Integers, FiniteSets

CONSTANTS
  Clients,      \* concurrent requests in flight
  Addresses,    \* concept ids
  None,         \* no holder, no address
  BufferMax,    \* usageBufferMax
  MaxRequests,  \* bound: requests admitted in a behaviour
  MaxFailures,  \* bound: statements of the flush that answer with an error
  MayDie        \* whether the process may be killed

ASSUME UsageAssumption ==
  /\ None \notin Clients \cup Addresses /\ IsFiniteSet(Addresses)
  /\ BufferMax \in Nat /\ MaxRequests \in Nat /\ MaxFailures \in Nat
  /\ MayDie \in BOOLEAN

VARIABLES
  rows,      \* the object row at each address
  totals,    \* knowledge_usage: what each address's totals count, {} for no row
  events,    \* knowledge_event: the raw rows of each address
  missRows,  \* search_miss
  reported,  \* usage_drop
  lock,      \* holder of each object row
  buffer, missBuffer, dropped,   \* usageBuf, missBuf, droppedEvents/Misses
  flush,     \* the flush loop
  mode,      \* the process: where its shutdown is
  pc, job,   \* where each request is, and what it is for
  seen,      \* observations made so far
  budget, failures, pruned,
  made,      \* history: every observation
  written,   \* history: those whose statement the database ran
  gone,      \* history: those that died with a process
  erased     \* history: those whose totals a purge took

tables == <<rows, totals, events, missRows, reported>>
memory == <<buffer, missBuffer, dropped>>
bounds == <<budget, failures, pruned>>
history == <<made, written, gone, erased>>
vars == <<tables, lock, memory, flush, mode, pc, job, seen, bounds, history>>

-----------------------------------------------------------------------------
\* The observations made at one moment: of each address, or of none (a search
\* that found nothing).
Seen(n, ids, kind) == [n: {n}, id: ids, event: {kind}]
Miss(n) == [n |-> n, id |-> None, event |-> "miss"]

Observe(new) == seen' = seen + 1 /\ made' = made \cup new

NoJob == [op |-> "none", ids |-> {}, to |-> None, counted |-> {}, taken |-> {}]
NoFlush == [at |-> "idle", last |-> FALSE, prune |-> FALSE,
            events |-> {}, misses |-> {}, drops |-> {}]

Go(c, step) == pc' = [pc EXCEPT ![c] = step]

\* The answer goes back, and a transaction ends with its locks.
Finish(c) ==
  /\ Go(c, "idle")
  /\ job' = [job EXCEPT ![c] = NoJob]
  /\ lock' = [a \in Addresses |-> IF lock[a] = c THEN None ELSE lock[a]]

Admit(c, step, request) ==
  /\ mode = "up" /\ pc[c] = "idle" /\ budget > 0
  /\ budget' = budget - 1
  /\ Go(c, step)
  /\ job' = [job EXCEPT ![c] = request]
  /\ UNCHANGED <<tables, lock, memory, flush, mode, seen, failures, pruned, history>>

\* The pool answers until Store.Close releases it.
Ended == mode \in {"closed", "exited"}
Serving == ~ Ended

-----------------------------------------------------------------------------
(* Reads and reports.                                                       *)

RequestFetch(c) == \E a \in Addresses :
  Admit(c, "read", [NoJob EXCEPT !.op = "fetch", !.ids = {a}])

\* A search whose matches are ids, when they are live.
RequestSearch(c) == \E ids \in {{}, Addresses} :
  Admit(c, "read", [NoJob EXCEPT !.op = "search", !.ids = ids])

RequestReport(c) == \E a \in Addresses :
  Admit(c, "read", [NoJob EXCEPT !.op = "report", !.ids = {a}])

\* The read itself; what it observes is recorded afterwards.
Read(c) ==
  /\ pc[c] = "read" /\ Serving
  /\ LET found == {a \in job[c].ids : rows[a] = "live"}
     IN IF found = {} /\ job[c].op # "search"
        THEN Finish(c)
        ELSE /\ job' = [job EXCEPT ![c].ids = found]
             /\ Go(c, CASE job[c].op = "report" -> "report"
                        [] found = {} -> "miss"
                        [] OTHER -> "record")
             /\ UNCHANGED lock
  /\ UNCHANGED <<tables, memory, flush, mode, seen, bounds, history>>

\* RecordEvents takes all of a read's events, or drops all of them.
Fits(ids) == Cardinality(buffer) + Cardinality(ids) <= BufferMax

\* The hits are recorded whether or not a word of the base matched; a search
\* no word matched (its hits are the vector list's) is recorded as a miss too.
RecordEvents(c) ==
  /\ pc[c] = "record"
  /\ LET new == Seen(seen + 1, job[c].ids, job[c].op)
     IN IF Fits(job[c].ids)
        THEN buffer' = buffer \cup new /\ UNCHANGED dropped
        ELSE dropped' = dropped \cup new /\ UNCHANGED buffer
  /\ Observe(Seen(seen + 1, job[c].ids, job[c].op))
  /\ \/ Finish(c)
     \/ job[c].op = "search" /\ Go(c, "miss") /\ UNCHANGED <<job, lock>>
  /\ UNCHANGED <<tables, missBuffer, flush, mode, bounds, written, gone, erased>>

RecordMiss(c) ==
  /\ pc[c] = "miss"
  /\ IF Cardinality(missBuffer) >= BufferMax
     THEN dropped' = dropped \cup {Miss(seen + 1)} /\ UNCHANGED missBuffer
     ELSE missBuffer' = missBuffer \cup {Miss(seen + 1)} /\ UNCHANGED dropped
  /\ Observe({Miss(seen + 1)})
  /\ Finish(c)
  /\ UNCHANGED <<tables, buffer, flush, mode, bounds, written, gone, erased>>

\* What the statement on knowledge_usage writes: the source rows, and the
\* destination's keys when the rows move.
Touched(c) == job[c].ids \cup (IF job[c].op = "move" THEN {job[c].to} ELSE {})

\* A move or a purge under way has written the row (id, event) of
\* knowledge_usage: another statement on that row waits for its end.
KeyHeld(o) == \E c \in Clients :
  o.id \in Touched(c) /\ \E held \in job[c].counted : held.event = o.event

\* One statement: the raw rows and the totals, written together.
Counted(batch) ==
  /\ \A o \in batch : ~ KeyHeld(o)
  /\ totals' = [a \in Addresses |-> totals[a] \cup {o \in batch : o.id = a}]
  /\ events' = [a \in Addresses |-> events[a] \cup {o \in batch : o.id = a}]
  /\ written' = written \cup batch

\* RecordOutcome: written at once, and reported to the caller if it fails.
RecordOutcome(c) ==
  /\ pc[c] = "report" /\ Serving
  /\ Counted(Seen(seen + 1, job[c].ids, job[c].op))
  /\ Observe(Seen(seen + 1, job[c].ids, job[c].op))
  /\ IF pruned THEN Finish(c) ELSE Go(c, "prune") /\ UNCHANGED <<job, lock>>
  /\ UNCHANGED <<rows, missRows, reported, memory, flush, mode, bounds, gone, erased>>

\* maybePruneEvents, the first of this process (it prunes once a day): the raw
\* rows of some age and older, or none when the statement fails.
Prune ==
  /\ pruned' = TRUE
  /\ \E k \in 0 .. seen + 1 :
       events' = [a \in Addresses |-> {o \in events[a] : o.n >= k}]
  /\ UNCHANGED <<rows, totals, missRows, reported>>

PruneIfDue == IF ~pruned /\ Serving THEN Prune ELSE UNCHANGED <<tables, pruned>>

PruneAfterReport(c) ==
  /\ pc[c] = "prune"
  /\ PruneIfDue
  /\ Finish(c)
  /\ UNCHANGED <<memory, flush, mode, seen, budget, failures, history>>

-----------------------------------------------------------------------------
(* Writes to the concepts.                                                  *)

Change(a, from, to) ==
  /\ mode = "up"
  /\ lock[a] = None /\ rows[a] \in from
  /\ rows' = [rows EXCEPT ![a] = to]
  /\ UNCHANGED <<totals, events, missRows, reported, lock, memory, flush, mode, pc, job,
                 seen, failures, pruned, history>>

\* Create revives a tombstone in place, usage and all.
Create(a) ==
  /\ Change(a, {"absent", "deleted"}, "live")
  /\ budget > 0 /\ budget' = budget - 1
SoftDelete(a) == Change(a, {"live"}, "deleted") /\ UNCHANGED budget

RequestPurge(c) == \E a \in Addresses :
  Admit(c, "purge", [NoJob EXCEPT !.op = "purge", !.ids = {a}])

RequestMove(c) == \E a \in Addresses, b \in Addresses :
  a # b /\ Admit(c, "move", [NoJob EXCEPT !.op = "move", !.ids = {a}, !.to = b])

Hold(c, as) == [a \in Addresses |-> IF a \in as THEN c ELSE lock[a]]

\* SELECT ... FOR UPDATE
PurgeLock(c) == \E a \in job[c].ids :
  /\ pc[c] = "purge" /\ Serving /\ lock[a] = None
  /\ IF rows[a] = "deleted"
     THEN /\ lock' = Hold(c, {a})
          /\ Go(c, "usage")
          /\ UNCHANGED job
     ELSE Finish(c)
  /\ UNCHANGED <<tables, memory, flush, mode, seen, bounds, history>>

\* The UPDATE of the moved row; its probe of the destination and the key it
\* writes refuse the same states.
MoveRow(c) == \E a \in job[c].ids :
  /\ pc[c] = "move" /\ Serving /\ lock[a] = None /\ lock[job[c].to] = None
  /\ IF rows[a] = "live" /\ rows[job[c].to] = "absent"
     THEN /\ lock' = Hold(c, {a, job[c].to})
          /\ Go(c, "usage")
          /\ UNCHANGED job
     ELSE Finish(c)
  /\ UNCHANGED <<tables, memory, flush, mode, seen, bounds, history>>

\* A row at the destination: the primary key (knowledge_id, event) refuses.
KeyTaken(c) ==
  /\ pc[c] = "usage" /\ job[c].op = "move"
  /\ \E a \in job[c].ids : \E o \in totals[a], left \in totals[job[c].to] :
       o.event = left.event

\* The rows of usage that are there when the statement runs.
TakeUsage(c) == \E a \in job[c].ids :
  /\ pc[c] = "usage" /\ Serving
  /\ IF KeyTaken(c)
     THEN Finish(c)
     ELSE /\ job' = [job EXCEPT ![c].counted = totals[a]]
          /\ Go(c, "events")
          /\ UNCHANGED lock
  /\ UNCHANGED <<tables, memory, flush, mode, seen, bounds, history>>

TakeEvents(c) == \E a \in job[c].ids :
  /\ pc[c] = "events" /\ Serving
  /\ job' = [job EXCEPT ![c].taken = events[a]]
  /\ Go(c, "commit")
  /\ UNCHANGED <<tables, lock, memory, flush, mode, seen, bounds, history>>

\* Mutant: the raw rows are deleted before the totals.
CommitEventsFirst(c) == \E a \in job[c].ids :
  /\ pc[c] = "commit" /\ Serving
  /\ rows' = [x \in Addresses |-> IF x = a THEN "absent" ELSE IF x = job[c].to THEN "live" ELSE rows[x]]
  /\ totals' = [x \in Addresses |->
       IF x = a THEN {} ELSE IF x = job[c].to THEN totals[a] ELSE totals[x]]
  /\ events' = [x \in Addresses |->
       IF x = a THEN events[a] \ job[c].taken
       ELSE IF x = job[c].to THEN events[x] \cup job[c].taken ELSE events[x]]
  /\ erased' = IF job[c].op = "purge" THEN erased \cup job[c].counted ELSE erased
  /\ Finish(c)
  /\ UNCHANGED <<missRows, reported, memory, flush, mode, seen, bounds, made, written, gone>>
\* What the statements took leaves the address, for good or for the new one.
Commit(c) == \E a \in job[c].ids :
  LET kept(old, took, x) ==
        CASE x = a         -> old[x] \ took
          [] x = job[c].to -> old[x] \cup (took \cap old[a])
          [] OTHER         -> old[x]
  IN /\ pc[c] = "commit" /\ Serving
     /\ rows' = [x \in Addresses |->
          CASE x = a -> "absent" [] x = job[c].to -> "live" [] OTHER -> rows[x]]
     /\ totals' = [x \in Addresses |-> kept(totals, job[c].counted, x)]
     /\ events' = [x \in Addresses |-> kept(events, job[c].taken, x)]
     /\ erased' = IF job[c].op = "purge" THEN erased \cup job[c].counted ELSE erased
     /\ Finish(c)
     /\ UNCHANGED <<missRows, reported, memory, flush, mode, seen, bounds, made, written, gone>>

\* A cancelled request or a lost connection.
Abort(c) ==
  /\ pc[c] # "idle"
  /\ Finish(c)
  /\ UNCHANGED <<tables, memory, flush, mode, seen, bounds, history>>

-----------------------------------------------------------------------------
(* The flush loop.                                                          *)

\* A statement that answers with an error; the database may have run it.
Failing == failures < MaxFailures /\ failures' = failures + 1

\* Mutant: nothing to write, nothing to do.
FlushTakeSome ==
  /\ flush.at = "idle" /\ Serving /\ buffer \cup missBuffer # {}
  /\ flush' = [NoFlush EXCEPT !.at = "misses", !.last = mode \in {"stopping", "cut"},
                              !.events = buffer, !.misses = missBuffer]
  /\ buffer' = {} /\ missBuffer' = {}
  /\ UNCHANGED <<tables, lock, dropped, mode, pc, job, seen, bounds, history>>
\* The ticker fires, or flushStop is closed.
FlushTake ==
  /\ flush.at = "idle" /\ Serving
  /\ flush' = [NoFlush EXCEPT !.at = "misses", !.last = mode \in {"stopping", "cut"},
                              !.events = buffer, !.misses = missBuffer]
  /\ buffer' = {} /\ missBuffer' = {}
  /\ UNCHANGED <<tables, lock, dropped, mode, pc, job, seen, bounds, history>>

MissesWritten ==
  missRows' = missRows \cup flush.misses /\ written' = written \cup flush.misses

FlushMisses ==
  /\ flush.at = "misses"
  /\ flush' = [flush EXCEPT !.at = "events", !.misses = {}]
  /\ \/ MissesWritten /\ UNCHANGED <<dropped, failures>>
     \/ /\ flush.misses # {} /\ Failing
        /\ dropped' = dropped \cup flush.misses
        /\ MissesWritten \/ UNCHANGED <<missRows, written>>
  /\ UNCHANGED <<rows, totals, events, reported, lock, buffer, missBuffer, mode, pc, job,
                 seen, budget, pruned, made, gone, erased>>

\* Mutant: a batch that failed is put back to be tried again.
LoseNothing(batch) == buffer' = buffer \cup batch /\ UNCHANGED dropped
\* Mutant: a batch that failed is forgotten.
LoseSilently(batch) == UNCHANGED <<buffer, dropped>>
\* countDropped
CountDropped(batch) == dropped' = dropped \cup batch /\ UNCHANGED buffer

FlushEvents ==
  /\ flush.at = "events"
  /\ \/ /\ flush' = [flush EXCEPT !.at = "drops", !.events = {}, !.prune = flush.events # {}]
        /\ Counted(flush.events)
        /\ UNCHANGED <<buffer, dropped, failures>>
     \/ /\ flush.events # {} /\ Failing
        /\ flush' = [flush EXCEPT !.at = "drops", !.events = {}]
        /\ CountDropped(flush.events)
        /\ Counted(flush.events) \/ UNCHANGED <<totals, events, written>>
  /\ UNCHANGED <<rows, missRows, reported, lock, missBuffer, mode, pc, job, seen, budget,
                 pruned, made, gone, erased>>

\* After the last flush the store is closed.
FlushEnd ==
  /\ flush' = NoFlush
  /\ mode' = IF ~flush.last THEN mode ELSE IF mode = "cut" THEN "exited" ELSE "closed"

\* A flush that wrote events prunes when it is time to; any other is over.
AfterDrops ==
  IF flush.prune /\ ~pruned
  THEN flush' = [flush EXCEPT !.at = "prune", !.drops = {}] /\ UNCHANGED mode
  ELSE FlushEnd

\* recordDrops takes the counts.
TakeDrops ==
  /\ flush.at = "drops"
  /\ IF dropped = {}
     THEN AfterDrops /\ UNCHANGED dropped
     ELSE /\ flush' = [flush EXCEPT !.at = "report", !.drops = dropped]
          /\ dropped' = {}
          /\ UNCHANGED mode
  /\ UNCHANGED <<tables, lock, buffer, missBuffer, pc, job, seen, bounds, history>>

ReportDrops ==
  /\ flush.at = "report"
  /\ reported' = reported \cup flush.drops
  /\ AfterDrops
  /\ UNCHANGED <<rows, totals, events, missRows, lock, memory, pc, job, seen, bounds, history>>

\* Taken and put back.
PutDropsBack == dropped' = dropped \cup flush.drops

ReportFails ==
  /\ flush.at = "report" /\ Failing
  /\ PutDropsBack
  /\ reported' \in {reported, reported \cup flush.drops}
  /\ AfterDrops
  /\ UNCHANGED <<rows, totals, events, missRows, lock, buffer, missBuffer, pc, job, seen,
                 budget, pruned, history>>

PruneAfterFlush ==
  /\ flush.at = "prune"
  /\ PruneIfDue
  /\ FlushEnd
  /\ UNCHANGED <<lock, memory, pc, job, seen, budget, failures, history>>

-----------------------------------------------------------------------------
(* The process.                                                             *)

\* SIGTERM: no request is accepted any more.
Stop ==
  /\ mode = "up" /\ mode' = "draining"
  /\ UNCHANGED <<tables, lock, memory, flush, pc, job, seen, bounds, history>>

\* Mutant: the store is closed as soon as the listener is.
DrainedAtOnce == mode = "draining"
\* server.Shutdown returns: the requests in flight are answered.
Drained == mode = "draining" /\ \A c \in Clients : pc[c] = "idle"

Close ==
  /\ Drained
  /\ mode' = "stopping"
  /\ UNCHANGED <<tables, lock, memory, flush, pc, job, seen, bounds, history>>

\* drainTimeout passes first: the stragglers are still running when the store
\* is closed, until the process exits.
CutDrain ==
  /\ mode = "draining" /\ \E c \in Clients : pc[c] # "idle"
  /\ mode' = "cut"
  /\ UNCHANGED <<tables, lock, memory, flush, pc, job, seen, bounds, history>>

Waiting == buffer \cup missBuffer \cup flush.events \cup flush.misses
Losses == dropped \cup flush.drops

\* SIGKILL, a scale-to-zero, or the exit: the memory goes; a new process
\* starts with none.
Die ==
  /\ MayDie
  /\ gone' = gone \cup Waiting \cup Losses
  /\ buffer' = {} /\ missBuffer' = {} /\ dropped' = {}
  /\ flush' = NoFlush /\ mode' = "up" /\ pruned' = FALSE
  /\ pc' = [c \in Clients |-> "idle"] /\ job' = [c \in Clients |-> NoJob]
  /\ lock' = [a \in Addresses |-> None]
  /\ UNCHANGED <<tables, seen, budget, failures, made, written, erased>>

-----------------------------------------------------------------------------
\* Concepts that may have been read before.
Init ==
  /\ rows \in [Addresses -> {"absent", "live", "deleted"}]
  /\ totals = [a \in Addresses |-> IF rows[a] = "absent" THEN {} ELSE Seen(0, {a}, "fetch")]
  /\ events = totals
  /\ missRows = {} /\ reported = {}
  /\ lock = [a \in Addresses |-> None]
  /\ buffer = {} /\ missBuffer = {} /\ dropped = {}
  /\ flush = NoFlush /\ mode = "up"
  /\ pc = [c \in Clients |-> "idle"] /\ job = [c \in Clients |-> NoJob]
  /\ seen = 0 /\ budget = MaxRequests /\ failures = 0 /\ pruned = FALSE
  /\ made = {} /\ written = {} /\ gone = {} /\ erased = {}

Request(c) ==
  \/ RequestFetch(c) \/ RequestSearch(c) \/ RequestReport(c)
  \/ RequestPurge(c) \/ RequestMove(c)

Step(c) ==
  \/ Read(c) \/ RecordEvents(c) \/ RecordMiss(c)
  \/ RecordOutcome(c) \/ PruneAfterReport(c)
  \/ PurgeLock(c) \/ MoveRow(c) \/ TakeUsage(c) \/ TakeEvents(c) \/ Commit(c)

FlushStep ==
  FlushTake \/ FlushMisses \/ FlushEvents \/ TakeDrops \/ ReportDrops \/ ReportFails
  \/ PruneAfterFlush

Next ==
  \/ \E c \in Clients : Request(c) \/ Step(c) \/ Abort(c)
  \/ \E a \in Addresses : Create(a) \/ SoftDelete(a)
  \/ FlushStep \/ Stop \/ Close \/ CutDrain \/ Die

Spec == Init /\ [][Next]_vars

\* The ticker keeps firing and the server goes on with what it has begun.
FairSpec ==
  Spec /\ WF_vars(FlushStep) /\ WF_vars(Close) /\ \A c \in Clients : WF_vars(Step(c))

-----------------------------------------------------------------------------
(* Properties.                                                              *)

Observations == [n: 0 .. seen, id: Addresses \cup {None},
                 event: {"fetch", "search", "report", "miss"}]
Steps == {"idle", "read", "record", "miss", "report", "prune", "purge", "move", "usage", "events",
          "commit"}
Jobs == [op: {"none", "fetch", "search", "report", "purge", "move"},
         ids: SUBSET Addresses, to: Addresses \cup {None},
         counted: SUBSET Observations, taken: SUBSET Observations]
Flushes == [at: {"idle", "misses", "events", "drops", "report", "prune"},
            last: BOOLEAN, prune: BOOLEAN, events: SUBSET Observations,
            misses: SUBSET Observations, drops: SUBSET Observations]

\* Every variable keeps its type, and the buffers their cap.
TypeOK ==
  /\ rows \in [Addresses -> {"absent", "live", "deleted"}]
  /\ totals \in [Addresses -> SUBSET Observations]
  /\ events \in [Addresses -> SUBSET Observations]
  /\ missRows \in SUBSET Observations /\ reported \in SUBSET Observations
  /\ lock \in [Addresses -> Clients \cup {None}]
  /\ buffer \in SUBSET Observations /\ missBuffer \in SUBSET Observations
  /\ Cardinality(buffer) <= BufferMax /\ Cardinality(missBuffer) <= BufferMax
  /\ dropped \in SUBSET Observations
  /\ flush \in Flushes
  /\ mode \in {"up", "draining", "stopping", "cut", "closed", "exited"}
  /\ pc \in [Clients -> Steps]
  /\ job \in [Clients -> Jobs]
  /\ seen \in Nat /\ budget \in 0 .. MaxRequests
  /\ failures \in 0 .. MaxFailures /\ pruned \in BOOLEAN
  /\ made \in SUBSET Observations /\ written \in SUBSET Observations
  /\ gone \in SUBSET Observations /\ erased \in SUBSET Observations

\* An observation is written, waiting, or counted as lost, whatever fails:
\* only the death of the process loses one without a trace ("on the condition
\* that the loss is visible rather than silent").
LossesAreVisible == made \subseteq written \cup Waiting \cup Losses \cup reported \cup gone

\* No observation is written twice: what the database may already have run is
\* not waiting to be sent again ("there is no retry queue").
CountedAtMostOnce == Waiting \cap written = {}

\* A running total never falls behind the raw rows, wherever moves leave either,
\* but for what a purge erased ("totals survive pruning, so /usage stays
\* accurate").  Over all addresses: between two statements of a move, a flush can
\* leave the total at the old one, where a later purge finds it.
TotalsCoverEvents ==
  \A a \in Addresses : \A o \in events[a] \ erased : \E b \in Addresses : o \in totals[b]

\* An orderly shutdown loses nothing: once the store is closed nothing is
\* buffered and nobody is left to record ("flushing before the server drains
\* would miss the requests still in flight").
CleanShutdown == mode = "closed" => Waiting = {} /\ \A c \in Clients : pc[c] = "idle"

\* A loss reaches the table the stats read, unless the process ends first,
\* even when nothing is ever read again.
LossesSurface == Losses # {} ~> Losses = {} \/ Ended

\* The same without the exception.  It fails: a total a flush left behind is
\* erased with the concept that comes to live there, its raw row elsewhere.
TotalsNeverFallBehind ==
  \A a \in Addresses : \A o \in events[a] : \E b \in Addresses : o \in totals[b]

\* A move to an address nothing holds is not refused on a leftover: "the
\* destination must be a fresh id", and a purge is "how an id comes back into
\* circulation for a move".
MovesLand == \A c \in Clients : ~ KeyTaken(c)
=============================================================================
