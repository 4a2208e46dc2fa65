--------------------------- MODULE ConceptLedger ---------------------------
(***************************************************************************)
(* The life of ONE concept address in the store: the object row, its       *)
(* revision ledger, its verification ledger, and the requests that write    *)
(* them (internal/service/service.go, internal/store/store.go).             *)
(*                                                                         *)
(* Every request is a sequence of steps, cut where the code lets another    *)
(* request in: the service reads through the pool before its transaction,   *)
(* and inside it Postgres runs READ COMMITTED, so each statement sees what  *)
(* was committed when the statement started.  A write to the object row     *)
(* holds the row's lock until commit; what a transaction wrote is visible   *)
(* to nobody else until then, so it is kept in tx[c] and published by       *)
(* Commit.  Two clocks stamp rows: the application's (store.NowStored) and  *)
(* the database's (now()), which need not agree.                            *)
(*                                                                         *)
(* A document is abstracted to the text it says, its lifecycle status and   *)
(* the form it is laid out in; its content hash is the document itself.     *)
(***************************************************************************)
EXTENDS Integers, Sequences, FiniteSetsExt

CONSTANTS
  Clients,      \* concurrent requests in flight
  Texts,        \* what a document can say
  Forms,        \* how the same content can be laid out
  Payloads,     \* the documents requests send
  None,         \* "no value": no precondition, no pending write, no lock
  MaxRequests,  \* bound: requests admitted in a behaviour
  Tick,         \* microseconds between two readings of the clocks
  AppOffset,    \* what the application clock adds to the reading
  DbOffsets     \* what the database clock may add to the reading

Statuses == {"draft", "stable", "deprecated"}
Docs == [text: Texts, status: Statuses, form: Forms]

\* A row of table object; cca is its content_changed_at.
Rows == [state: {"absent", "live", "deleted"}, doc: Docs \cup {None}, cca: Nat]

ASSUME ConstantsAssumption ==
  /\ Payloads \subseteq Docs
  /\ None \notin Docs \cup Rows \cup Clients
  /\ MaxRequests \in Nat
  /\ Tick \in Nat \ {0} /\ AppOffset \in Nat /\ DbOffsets \subseteq Nat

VARIABLES
  obj,     \* the committed row of table object at this id
  revs,    \* the committed rows of knowledge_revision, in rev order
  vers,    \* the committed rows of knowledge_verification
  failed,  \* knowledge_usage.last_at of the "failed" event, 0 when none
  lock,    \* the request holding the object row's lock
  pc,      \* where each request is
  job,     \* what each request asked for and what its service read
  tx,      \* what each open transaction has read and written
  clock,   \* readings taken of either clock
  budget   \* requests still admitted

db == <<obj, revs, vers, failed>>
vars == <<obj, revs, vers, failed, lock, pc, job, tx, clock, budget>>

-----------------------------------------------------------------------------
(* Values.                                                                  *)
Absent == [state |-> "absent", doc |-> None, cca |-> 0]

Changes == {"create", "update", "delete", "verify"}
Revisions == [change: Changes, doc: Docs]
\* doc is the document of the "verify" revision the row was committed with.
Verifications == [seq: Nat, at: Nat, doc: Docs]

Ops == {"none", "put", "putCreate", "update", "create", "publish", "verify",
        "delete", "purge"}
Steps == {"idle", "guard", "guardTombstone", "get", "update", "updateRow",
          "create", "createRow", "clear", "verify", "reread", "delete",
          "deleteRow", "purge", "erase", "revise", "commit"}

NoJob == [op |-> "none", agent |-> FALSE, want |-> None, match |-> None,
          stamp |-> 0, fresh |-> FALSE]
NoTx == [newest |-> 0, ruled |-> FALSE, row |-> None, erased |-> {},
         cut |-> 0, seq |-> 0, at |-> 0, doc |-> None]

\* domain.SameContent: the same meaning, whatever the layout.
SameContent(d, e) == d.text = e.text /\ d.status = e.status

\* SELECT MAX(at): 0 stands for no rows.
Newest(vs) == Max({0} \cup {v.at : v \in vs})
\* COALESCE(MAX(seq), 0) + 1
NextSeq(vs) == Max({0} \cup {v.seq : v \in vs}) + 1

\* The rows standingVerification and domain.TrustOf count.
Standing(row, vs) == {v \in vs : row.state = "live" /\ v.at >= row.cca}

\* Mutant: a guard that only compares statuses.
RuledByStatus(row, vs) == row.doc.status = "deprecated"
\* domain.Knowledge.Curated, and its SQL form notCurated.
Ruled(row, vs) == row.doc.status = "deprecated" \/ vs # {}

\* One clock variable counts readings; each reading is a new instant.
AppNow == Tick * (clock + 1) + AppOffset
DbNow(offset) == Tick * (clock + 1) + offset

\* Mutant: the clock alone decides, as if the two clocks agreed.
ChangedAtClock(at, newest) == at
\* changedAfterVerified: past every verification the statement can see.
ChangedAfterVerified(at, newest) == Max({at, newest + 1})

\* Mutant: Verify without its clamp to the content.
VerifiedAtIgnoringContent(now, row, newest, report) ==
  Max({now, newest + 1, report + 1})
\* Verify's stamp: no earlier than the content, past the last verification and
\* the last failure report.
VerifiedAt(now, row, newest, report) ==
  Max({now, row.cca, newest + 1, report + 1})

-----------------------------------------------------------------------------
(* The end of a request, whatever the answer, and the shared bookkeeping.   *)

\* Mutant: the answer goes back with the transaction still open.
ReleaseNever(c) == UNCHANGED lock
Release(c) == lock' = IF lock = c THEN None ELSE lock

\* The answer goes back; an open transaction rolls back and frees its locks.
Finish(c) ==
  /\ pc' = [pc EXCEPT ![c] = "idle"]
  /\ job' = [job EXCEPT ![c] = NoJob]
  /\ tx' = [tx EXCEPT ![c] = NoTx]
  /\ Release(c)

Go(c, step) == pc' = [pc EXCEPT ![c] = step]

\* Put's fallbacks: a missing concept is created, and an id taken in that
\* window is updated after all, once. Everything else is an answer.
NotFound(c) ==
  IF job[c].op = "put" /\ job[c].match = None
  THEN /\ Go(c, "create")
       /\ job' = [job EXCEPT ![c].op = "putCreate"]
       /\ tx' = [tx EXCEPT ![c] = NoTx]
       /\ Release(c)
  ELSE Finish(c)

Occupied(c) ==
  IF job[c].op = "putCreate"
  THEN /\ Go(c, "get")
       /\ job' = [job EXCEPT ![c].op = "update"]
       /\ tx' = [tx EXCEPT ![c] = NoTx]
       /\ Release(c)
  ELSE Finish(c)

\* The next row-lock holder: a statement that writes the row waits here.
Hold(c, row) ==
  /\ lock = None
  /\ lock' = c
  /\ tx' = [tx EXCEPT ![c].row = row]

-----------------------------------------------------------------------------
(* Requests, as the surfaces make them.                                     *)

Admit(c, step, request) ==
  /\ pc[c] = "idle" /\ budget > 0
  /\ budget' = budget - 1
  /\ Go(c, step)
  /\ job' = [job EXCEPT ![c] = request]
  /\ UNCHANGED <<db, lock, tx, clock>>

\* A precondition is the hash of a version the client has read.
Preconditions == {None} \cup IF obj.state = "live" THEN {obj.doc} ELSE {}

\* PUT of a document over REST: last-write-wins without If-Match.
RequestPut(c) == \E d \in Payloads, m \in Preconditions :
  Admit(c, "get", [NoJob EXCEPT !.op = "put", !.want = d, !.match = m])

\* PUT with If-None-Match "*".
RequestCreate(c) == \E d \in Payloads :
  Admit(c, "create", [NoJob EXCEPT !.op = "create", !.want = d])

\* put_concept over MCP, which has no If-Match of its own.
RequestAgentPut(c) == \E d \in Payloads :
  Admit(c, "guard", [NoJob EXCEPT !.op = "update", !.agent = TRUE, !.want = d])

RequestVerify(c) == Admit(c, "get", [NoJob EXCEPT !.op = "publish"])

RequestDelete(c) == \E m \in Preconditions :
  Admit(c, "delete", [NoJob EXCEPT !.op = "delete", !.match = m])

RequestPurge(c) == Admit(c, "purge", [NoJob EXCEPT !.op = "purge"])

\* ReportOutcome("failed"): a read of the concept, then one statement.
ReportFailed ==
  /\ budget > 0 /\ obj.state = "live"
  /\ budget' = budget - 1
  /\ \E offset \in DbOffsets : failed' = Max({DbNow(offset), Newest(vers) + 1})
  /\ clock' = clock + 1
  /\ UNCHANGED <<obj, revs, vers, lock, pc, job, tx>>

-----------------------------------------------------------------------------
(* The MCP guards.                                                          *)

\* RefuseIfCurated: a ruled concept is refused, otherwise the version read is
\* the precondition of the update; no live concept means a create.
Guard(c) ==
  /\ pc[c] = "guard"
  /\ \/ /\ obj.state # "live"
        /\ Go(c, "guardTombstone")
        /\ UNCHANGED <<job, tx, lock>>
     \/ /\ obj.state = "live" /\ ~ Ruled(obj, vers)
        /\ Go(c, "get")
        /\ job' = [job EXCEPT ![c].match = obj.doc]
        /\ UNCHANGED <<tx, lock>>
     \/ /\ obj.state = "live" /\ Ruled(obj, vers)
        /\ Finish(c)
  /\ UNCHANGED <<db, clock, budget>>

\* RefuseIfRevivingCurated: a tombstone a ruling stood on is not revived.
GuardTombstone(c) ==
  /\ pc[c] = "guardTombstone"
  /\ IF obj.state = "deleted" /\ Ruled(obj, vers)
     THEN Finish(c)
     ELSE /\ Go(c, "create")
          /\ job' = [job EXCEPT ![c].op = "create"]
          /\ UNCHANGED <<tx, lock>>
  /\ UNCHANGED <<db, clock, budget>>

-----------------------------------------------------------------------------
(* Updating: settleUpdate's read, then Store.Update.                        *)

\* The stamp an update carries: a reformat keeps the stored one.
Settle(c, want, match) ==
  LET fresh == ~ SameContent(want, obj.doc)
  IN /\ Go(c, "update")
     /\ job' = [job EXCEPT ![c].want = want, ![c].match = match,
                           ![c].fresh = fresh,
                           ![c].stamp = IF fresh THEN AppNow ELSE obj.cca]
     /\ clock' = IF fresh THEN clock + 1 ELSE clock
     /\ UNCHANGED <<tx, lock>>

\* settleUpdate, and the stamping Service.Update does with what it read.
Get(c) ==
  /\ pc[c] = "get" /\ job[c].op # "publish"
  /\ LET want == job[c].want
         match == job[c].match
     IN \/ obj.state # "live" /\ NotFound(c) /\ UNCHANGED clock
        \/ /\ obj.state = "live"
           /\ (match # None /\ obj.doc # match) \/ want = obj.doc
           /\ Finish(c) /\ UNCHANGED clock
        \/ /\ obj.state = "live"
           /\ match \in {None, obj.doc} /\ want # obj.doc
           /\ Settle(c, want, match)
  /\ UNCHANGED <<db, budget>>

\* publishDraft: a draft is rewritten as stable on condition it is unchanged,
\* anything else goes straight to Store.Verify.
GetToPublish(c) ==
  /\ pc[c] = "get" /\ job[c].op = "publish"
  /\ \/ /\ obj.state # "live"
        /\ Finish(c) /\ UNCHANGED clock
     \/ /\ obj.state = "live" /\ obj.doc.status = "draft"
        /\ Settle(c, [obj.doc EXCEPT !.status = "stable"], obj.doc)
     \/ /\ obj.state = "live" /\ obj.doc.status # "draft"
        /\ Go(c, "verify")
        /\ job' = [job EXCEPT ![c].op = "verify"]
        /\ UNCHANGED <<tx, lock, clock>>
  /\ UNCHANGED <<db, budget>>

\* Mutants: the precondition checked on the service's read alone; the
\* statement without its deleted_at IS NULL.
UpdatableIgnoringMatch(row, match) == row.state = "live"
UpdatableTombstone(row, match) == row.state # "absent" /\ match \in {None, row.doc}
\* The WHERE of Store.Update, on the row the snapshot shows and again on the
\* row the lock finds.
Updatable(row, match) == row.state = "live" /\ match \in {None, row.doc}

\* The UPDATE statement starts: the row has to match as committed by now, and
\* its subquery reads the verifications committed by now, whatever the row
\* lock makes it wait for afterwards.
UpdateBegin(c) ==
  /\ pc[c] = "update"
  /\ IF Updatable(obj, job[c].match)
     THEN /\ Go(c, "updateRow")
          /\ tx' = [tx EXCEPT ![c].newest = Newest(vers)]
          /\ UNCHANGED <<lock, job>>
     ELSE NotFound(c)
  /\ UNCHANGED <<db, clock, budget>>

\* content_changed_at moves unless the write carries the stored value.  Two
\* distinct readings of the clock never coincide to the microsecond here.
NextChangedAt(row, stamp, fresh, newest) ==
  IF ~fresh /\ stamp = row.cca THEN row.cca
  ELSE ChangedAfterVerified(stamp, newest)

UpdateRow(c) ==
  /\ pc[c] = "updateRow" /\ lock = None
  /\ IF Updatable(obj, job[c].match)
     THEN /\ Hold(c, [state |-> "live", doc |-> job[c].want,
                      cca |-> NextChangedAt(obj, job[c].stamp, job[c].fresh,
                                            tx[c].newest)])
          /\ Go(c, "revise")
          /\ UNCHANGED job
     ELSE NotFound(c)
  /\ UNCHANGED <<db, clock, budget>>

-----------------------------------------------------------------------------
(* Creating: an insert, or the revival of a tombstone in place.             *)

\* Store.Create stamps before its transaction; the INSERT's notCurated
\* subquery reads the verifications committed when the statement starts.
CreateBegin(c) ==
  /\ pc[c] = "create"
  /\ Go(c, "createRow")
  /\ job' = [job EXCEPT ![c].stamp = AppNow]
  /\ tx' = [tx EXCEPT ![c].ruled = vers # {}]
  /\ clock' = clock + 1
  /\ UNCHANGED <<db, lock, budget>>

\* ON CONFLICT (id) DO UPDATE ... WHERE deleted_at IS NOT NULL, and for the
\* MCP surface AND notCurated: the status is the locked row's own.
Creatable(row, agent, ruled) ==
  \/ row.state = "absent"
  \/ row.state = "deleted" /\ (agent => row.doc.status # "deprecated" /\ ~ruled)

CreateRow(c) ==
  /\ pc[c] = "createRow" /\ lock = None
  /\ IF Creatable(obj, job[c].agent, tx[c].ruled)
     THEN /\ Hold(c, [state |-> "live", doc |-> job[c].want, cca |-> job[c].stamp])
          /\ Go(c, "clear")
          /\ UNCHANGED job
     ELSE Occupied(c)
  /\ UNCHANGED <<db, clock, budget>>

\* DELETE FROM knowledge_verification: a new entry starts with no rulings.
ClearVerifications(c) ==
  /\ pc[c] = "clear"
  /\ tx' = [tx EXCEPT ![c].erased = vers]
  /\ Go(c, "revise")
  /\ UNCHANGED <<db, lock, job, clock, budget>>

-----------------------------------------------------------------------------
(* Verifying: Store.Verify takes no lock on the row.                        *)

\* The INSERT ... SELECT: liveness and content_changed_at as of the
\* statement's start, a stamp past every verification and report it sees.
\* Two inserts of one (id, seq) queue on the key, and the loser fails.
VerifyInsert(c) ==
  /\ pc[c] = "verify"
  /\ IF obj.state # "live"
     THEN Finish(c) /\ UNCHANGED clock
     ELSE /\ \A d \in Clients \ {c} : tx[d].seq # NextSeq(vers)
          /\ \E offset \in DbOffsets :
               tx' = [tx EXCEPT ![c].seq = NextSeq(vers),
                                ![c].at = VerifiedAt(DbNow(offset), obj,
                                                     Newest(vers), failed)]
          /\ clock' = clock + 1
          /\ Go(c, "reread")
          /\ UNCHANGED <<job, lock>>
  /\ UNCHANGED <<db, budget>>

\* getOneTx, a later snapshot: the document the revision will carry.
Reread(c) ==
  /\ pc[c] = "reread"
  /\ IF obj.state = "live"
     THEN /\ tx' = [tx EXCEPT ![c].doc = obj.doc]
          /\ Go(c, "revise")
          /\ UNCHANGED <<job, lock>>
     ELSE Finish(c)
  /\ UNCHANGED <<db, clock, budget>>

-----------------------------------------------------------------------------
(* Deleting and purging.                                                    *)

\* Store.Get through the pool, although a transaction is already open.
DeleteRead(c) ==
  /\ pc[c] = "delete"
  /\ IF obj.state = "live"
     THEN /\ tx' = [tx EXCEPT ![c].doc = obj.doc]
          /\ Go(c, "deleteRow")
          /\ UNCHANGED <<job, lock>>
     ELSE Finish(c)
  /\ UNCHANGED <<db, clock, budget>>

DeleteRow(c) ==
  /\ pc[c] = "deleteRow" /\ lock = None
  /\ IF Updatable(obj, job[c].match)
     THEN /\ Hold(c, [obj EXCEPT !.state = "deleted"])
          /\ Go(c, "revise")
          /\ UNCHANGED job
     ELSE Finish(c)
  /\ UNCHANGED <<db, clock, budget>>

\* Purge's two tombstone checks: under FOR UPDATE, and on the final DELETE.
Purgeable(row) == row.state = "deleted"

\* Mutant: the check reads the row without FOR UPDATE.
PurgeLockless(c) ==
  /\ pc[c] = "purge"
  /\ IF Purgeable(obj)
     THEN Go(c, "erase") /\ UNCHANGED <<job, tx, lock>>
     ELSE Finish(c)
  /\ UNCHANGED <<db, clock, budget>>

PurgeLock(c) ==
  /\ pc[c] = "purge" /\ lock = None
  /\ IF Purgeable(obj)
     THEN /\ Hold(c, None)
          /\ Go(c, "erase")
          /\ UNCHANGED job
     ELSE Finish(c)
  /\ UNCHANGED <<db, clock, budget>>

\* The DELETEs, as one step: each takes the rows committed by now.
PurgeErase(c) ==
  /\ pc[c] = "erase"
  /\ IF Purgeable(obj)
     THEN /\ tx' = [tx EXCEPT ![c].row = Absent, ![c].erased = vers,
                              ![c].cut = Len(revs)]
          /\ Go(c, "commit")
          /\ UNCHANGED <<job, lock>>
     ELSE Finish(c)
  /\ UNCHANGED <<db, clock, budget>>

-----------------------------------------------------------------------------
(* The end of a transaction.                                                *)

\* A revision another transaction has inserted and not yet committed.
PendingRevision(c) == pc[c] = "commit" /\ job[c].op # "purge"

\* addRevision: the key (path, rev) with rev = MAX + 1 lets one uncommitted
\* revision exist at a time.  A second insert waits, and fails when the first
\* commits (Abort); one that starts later takes the next number.
Revise(c) ==
  /\ pc[c] = "revise"
  /\ \A d \in Clients \ {c} : ~ PendingRevision(d)
  /\ Go(c, "commit")
  /\ UNCHANGED <<db, lock, job, tx, clock, budget>>

Change(op) ==
  CASE op \in {"put", "update", "publish"} -> "update"
    [] op \in {"create", "putCreate"}      -> "create"
    [] OTHER                               -> op

\* The revision addRevision wrote: k as the request last knew it.
Revision(c) ==
  [change |-> Change(job[c].op),
   doc |-> IF job[c].op \in {"delete", "verify"} THEN tx[c].doc ELSE tx[c].row.doc]

Commit(c) ==
  /\ pc[c] = "commit"
  /\ obj' = IF tx[c].row = None THEN obj ELSE tx[c].row
  /\ vers' = (vers \ tx[c].erased) \cup
             IF job[c].op = "verify"
             THEN {[seq |-> tx[c].seq, at |-> tx[c].at, doc |-> tx[c].doc]}
             ELSE {}
  /\ IF job[c].op = "purge"
     THEN /\ revs' = SubSeq(revs, tx[c].cut + 1, Len(revs))
          /\ failed' = 0
     ELSE /\ revs' = Append(revs, Revision(c))
          /\ UNCHANGED failed
  /\ Release(c)
  /\ tx' = [tx EXCEPT ![c] = NoTx]
  /\ IF job[c].op = "publish"
     THEN /\ Go(c, "verify")
          /\ job' = [job EXCEPT ![c] = [NoJob EXCEPT !.op = "verify"]]
     ELSE /\ Go(c, "idle")
          /\ job' = [job EXCEPT ![c] = NoJob]
  /\ UNCHANGED <<clock, budget>>

\* A cancelled request, a lost connection, a dead server, a unique violation:
\* the transaction rolls back.
Abort(c) ==
  /\ pc[c] # "idle"
  /\ Finish(c)
  /\ UNCHANGED <<db, clock, budget>>

-----------------------------------------------------------------------------
\* An address nothing holds, or one whose concept was created and left alone.
Init ==
  /\ \/ obj = Absent /\ revs = <<>>
     \/ \E d \in Payloads :
          /\ obj = [state |-> "live", doc |-> d, cca |-> AppOffset]
          /\ revs = <<[change |-> "create", doc |-> d]>>
  /\ vers = {} /\ failed = 0
  /\ lock = None
  /\ pc = [c \in Clients |-> "idle"]
  /\ job = [c \in Clients |-> NoJob]
  /\ tx = [c \in Clients |-> NoTx]
  /\ clock = 0 /\ budget = MaxRequests

Request(c) ==
  \/ RequestPut(c) \/ RequestCreate(c) \/ RequestAgentPut(c)
  \/ RequestVerify(c) \/ RequestDelete(c) \/ RequestPurge(c)

\* One step of a request that is under way.
Step(c) ==
  \/ Guard(c) \/ GuardTombstone(c)
  \/ Get(c) \/ GetToPublish(c) \/ UpdateBegin(c) \/ UpdateRow(c)
  \/ CreateBegin(c) \/ CreateRow(c) \/ ClearVerifications(c)
  \/ VerifyInsert(c) \/ Reread(c)
  \/ DeleteRead(c) \/ DeleteRow(c)
  \/ PurgeLock(c) \/ PurgeErase(c)
  \/ Revise(c) \/ Commit(c)

Next ==
  \/ \E c \in Clients : Request(c) \/ Step(c) \/ Abort(c)
  \/ ReportFailed

Spec == Init /\ [][Next]_vars

\* Postgres runs every statement whose locks are free, and the server goes on
\* with a request it has begun; nothing makes a client send one, or fail.
FairSpec == Spec /\ \A c \in Clients : WF_vars(Step(c))

-----------------------------------------------------------------------------
(* Properties.                                                              *)

Jobs == [op: Ops, agent: BOOLEAN, want: Docs \cup {None},
         match: Docs \cup {None}, stamp: Nat, fresh: BOOLEAN]
Txs == [newest: Nat, ruled: BOOLEAN, row: Rows \cup {None},
        erased: SUBSET Verifications, cut: Nat, seq: Nat, at: Nat,
        doc: Docs \cup {None}]

\* Every variable keeps its type, and a row that exists has a document.
TypeOK ==
  /\ obj \in Rows /\ (obj.state # "absent" => obj.doc \in Docs)
  /\ revs \in Seq(Revisions)
  /\ vers \in SUBSET Verifications
  /\ failed \in Nat
  /\ lock \in Clients \cup {None}
  /\ pc \in [Clients -> Steps]
  /\ job \in [Clients -> Jobs]
  /\ tx \in [Clients -> Txs]
  /\ clock \in Nat /\ budget \in 0 .. MaxRequests

IsWrite(r) == r.change # "verify"

\* The newest revision that is not a ruling.
IsLastWrite(i) ==
  /\ i \in 1 .. Len(revs) /\ IsWrite(revs[i])
  /\ \A j \in 1 .. Len(revs) : j > i => ~ IsWrite(revs[j])

\* The history says what the entry is: its newest write is a deletion exactly
\* when the row is a tombstone, otherwise it holds the row's document, and no
\* write at all is recorded of an address nothing holds.  It would fail if two
\* deletes both landed, or if revisions were numbered in another order than
\* the rows were written (store.go SoftDelete's double-delete guard,
\* addRevision's rev = MAX + 1, Purge against a revival).
LedgerAgrees ==
  /\ obj.state = "absent" <=> \A i \in 1 .. Len(revs) : ~ IsWrite(revs[i])
  /\ \A i \in 1 .. Len(revs) : IsLastWrite(i) =>
       IF revs[i].change = "delete" THEN obj.state = "deleted"
       ELSE obj.state = "live" /\ obj.doc = revs[i].doc

\* A write or a delete that names a version replaces that version and no
\* other, from the surface's read through the service's to the row lock
\* (design docs 0030, 0064).
NoLostUpdate ==
  [][\A c \in Clients :
       lock = c /\ obj' # obj /\ job[c].match # None =>
         obj.state = "live" /\ obj.doc = job[c].match]_vars

\* Destruction takes two steps: a row disappears only as a tombstone, and its
\* history only with it (Purge against Create's revival).  It is what
\* ConceptRecord says of Purge, in terms of the rows.
PurgeTakesOnlyTombstones ==
  [][(obj.state # "absent" /\ obj'.state = "absent" => obj.state = "deleted")
     /\ (Len(revs') < Len(revs) => obj'.state = "absent")]_vars

\* Every request is answered: the waits for the row lock, for the revision key
\* and for the verification key never close a circle.
RequestsAnswered == \A c \in Clients : pc[c] # "idle" ~> pc[c] = "idle"

\* No write, deletion or purge is under way beside a verification; writes may
\* overlap one another, and so may verifications.  What is promised of rulings
\* is promised of such behaviours (README, section 12).
RulingsApart ==
  \A c, d \in Clients : job[c].op = "verify" => job[d].op \in {"none", "verify"}

\* A verification that stands for the live concept was recorded against the
\* content it now holds (design doc 0138; changedAfterVerified and Verify's
\* clamps).
StandingVouchesForContent ==
  \A v \in Standing(obj, vers) : SameContent(v.doc, obj.doc)

\* An agent's write never replaces or revives a concept while a ruling is on
\* its ledger: RefuseIfCurated's version "closes the window".
AgentKeepsRulings ==
  [][\A c \in Clients :
       lock = c /\ obj' # obj /\ job[c].agent => vers = {}]_vars

\* Verifying leaves the concept published and vouched for (decision 0157).
VerifyStands ==
  [][\A v \in vers' \ vers :
       v \in Standing(obj', vers') /\ obj'.doc.status # "draft"]_vars

Record == INSTANCE ConceptRecord
            WITH state <- obj.state, doc <- obj.doc, history <- revs

\* However the statements of concurrent requests interleave, roll back or are
\* retried, the address is written one whole act at a time: every commit is one
\* creation, edit, deletion, verification or purge of what stood there, with its
\* line in the history, and nothing else shows (Store.withTx, addRevision and
\* the WHEREs of Create, Update, SoftDelete and Purge).
ImplementsRecord == Record!Spec

\* A deletion's revision records the document it removed.
DeleteRecordsWhatWas ==
  [][Len(revs') > Len(revs) /\ revs'[Len(revs')].change = "delete" =>
       revs'[Len(revs')].doc = obj.doc]_vars
=============================================================================
