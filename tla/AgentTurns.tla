----------------------------- MODULE AgentTurns -----------------------------
(***************************************************************************)
(* The deployment's own agent (internal/agent/agent.go) and what becomes of *)
(* its turns (internal/service/agentturn.go, internal/store/agentturn.go).  *)
(*                                                                         *)
(* A person asks; the agent asks its model in rounds, and the model answers,*)
(* proposes a query or calls tools, which read concepts, write drafts and   *)
(* propose revisions of drafts.  The turn is kept; the person who asked     *)
(* judges it once, which becomes outcome reports, and applies its           *)
(* revisions.  Meanwhile people write, rule on and delete the same          *)
(* concepts.  The model may do anything its tools allow.                    *)
(*                                                                         *)
(* Each statement on the database is a step.  The statements of one write   *)
(* of a concept are ConceptLedger's subject: here a write is one step.      *)
(***************************************************************************)
EXTENDS Naturals, FiniteSets, Sequences, SequencesExt

CONSTANTS
  Workers,      \* concurrent requests
  People,       \* who may ask
  Concepts,     \* ids
  Texts,        \* what a concept can say
  None,         \* no text
  MaxRounds,    \* maxRounds
  MaxCalls,     \* bound: tool calls in one answer of the model
  MaxDrafts,    \* maxDrafts
  MaxRequests,  \* bound: requests admitted in a behaviour
  MaxAsks,      \* bound: how many of them are questions to the agent
  MaxWrites,    \* bound: what people do to the concepts
  MaxFailures   \* bound: statements that fail

ASSUME BoundsAssumption ==
  /\ MaxRounds \in Nat \ {0} /\ MaxCalls \in Nat \ {0} /\ MaxDrafts \in Nat
  /\ MaxRequests \in Nat /\ MaxAsks \in Nat /\ MaxWrites \in Nat /\ MaxFailures \in Nat
  /\ None \notin Texts /\ IsFiniteSet(Concepts)

VARIABLES
  concept,   \* the object row at each id, and whether a verification stands
  turns,     \* the rows of agent_turn, in the order they were kept
  reports,   \* the outcome events, each with the request that made it
  pc,        \* where each request is
  job,       \* what each request asked for and has done
  requests,  \* requests admitted
  asks,      \* questions among them
  writes,    \* what people did
  failures   \* statements that failed

vars == <<concept, turns, reports, pc, job, requests, asks, writes, failures>>

-----------------------------------------------------------------------------
(* Values.                                                                  *)
Statuses == {"draft", "stable", "deprecated"}
\* A document is what it says and its status; it stands for its content hash.
Docs == [text: Texts, status: Statuses]
NoDoc == [text |-> None, status |-> "draft"]
Rows == [state: {"absent", "live", "deleted"}, doc: Docs \cup {NoDoc},
         verified: BOOLEAN, by: {"person", "agent"}]
Absent == [state |-> "absent", doc |-> NoDoc, verified |-> FALSE, by |-> "person"]
\* store.TurnRevision
Revisions == [id: Concepts, text: Texts, base: Docs]

\* by: the person asking; turn, verdict, blame, left: a judgment and what it has
\* still to report; read .. revisions: the run's own state; id, text: the
\* revision in hand.
NoJob == [no |-> 0, by |-> None, dry |-> FALSE, rounds |-> 0, calls |-> 0,
          retried |-> FALSE, read |-> << >>, drafts |-> 0, revisions |-> {},
          turn |-> 0, verdict |-> "none", left |-> << >>, id |-> None,
          text |-> None, base |-> NoDoc]

Live(id) == concept[id].state = "live"
\* domain.Knowledge.Curated
Curated(row) == row.verified \/ row.doc.status = "deprecated"
\* RevisableDraft: a live draft nobody has ruled on.
Revisable(id) ==
  /\ Live(id)
  /\ ~Curated(concept[id])
  /\ concept[id].doc.status = "draft"

Row(doc, verified, by) ==
  [state |-> "live", doc |-> doc, verified |-> verified, by |-> by]
Draft(text) == [text |-> text, status |-> "draft"]

-----------------------------------------------------------------------------
(* Requests.                                                                *)
Admit(w, step, j) ==
  /\ pc[w] = "idle" /\ requests < MaxRequests
  /\ requests' = requests + 1
  /\ pc' = [pc EXCEPT ![w] = step]
  /\ job' = [job EXCEPT ![w] = [j EXCEPT !.no = requests + 1]]

Finish(w) ==
  /\ pc' = [pc EXCEPT ![w] = "idle"]
  /\ job' = [job EXCEPT ![w] = NoJob]

Go(w, step) == pc' = [pc EXCEPT ![w] = step]

Fail(w) ==
  /\ failures < MaxFailures
  /\ failures' = failures + 1
  /\ Finish(w)
  /\ UNCHANGED <<concept, turns, reports, requests, asks, writes>>

-----------------------------------------------------------------------------
(* One answer: rounds of the model, and its tools.                          *)

\* Run, up to the first round.
Ask(w) ==
  \E p \in People, dry \in BOOLEAN :
    /\ asks < MaxAsks /\ asks' = asks + 1
    /\ Admit(w, "generate", [NoJob EXCEPT !.by = p, !.dry = dry])
    /\ UNCHANGED <<concept, turns, reports, writes, failures>>

\* Mutant: every other stumble is asked again, and no round is counted for it.
StumbleToggled(w) ==
  /\ job' = [job EXCEPT ![w].retried = ~@]
  /\ UNCHANGED pc
\* No candidate, or a turn with neither text nor call: asked once more, and the
\* second time the question fails.  Both kinds share the one retry.
Stumble(w) ==
  IF job[w].retried
  THEN Finish(w)
  ELSE /\ job' = [job EXCEPT ![w].retried = TRUE, ![w].rounds = @ + 1]
       /\ UNCHANGED pc

\* What the model gives back in one round.  An answer and a proposed query both
\* end the run; an error is the question's answer and keeps no turn.
Generate(w) ==
  /\ pc[w] = "generate" /\ job[w].rounds < MaxRounds
  /\ \/ Stumble(w)
     \/ /\ Go(w, "keep") /\ UNCHANGED job
     \/ Finish(w)
     \/ \E n \in 1..MaxCalls :
          /\ Go(w, "tool")
          /\ job' = [job EXCEPT ![w].rounds = @ + 1, ![w].calls = n]
  /\ UNCHANGED <<concept, turns, reports, requests, asks, writes, failures>>

\* "the agent did not finish within %d rounds of reading"
OutOfRounds(w) ==
  /\ pc[w] = "generate" /\ job[w].rounds >= MaxRounds
  /\ Finish(w)
  /\ UNCHANGED <<concept, turns, reports, requests, asks, writes, failures>>

\* A call is done: the next one, or the next round.
AfterCall(w) == IF job[w].calls > 1 THEN "tool" ELSE "generate"
Called(j) == [j EXCEPT !.calls = @ - 1, !.id = None, !.text = None]

\* The searches, lists and statistics, and any call answered with an error: the
\* error travels to the model as the call's answer.
CallTool(w) ==
  /\ pc[w] = "tool"
  /\ Go(w, AfterCall(w))
  /\ job' = [job EXCEPT ![w] = Called(@)]
  /\ UNCHANGED <<concept, turns, reports, requests, asks, writes, failures>>

\* get_concept: read names each concept once, in the order read.
GetConcept(w) ==
  /\ pc[w] = "tool"
  /\ \E id \in Concepts :
       /\ Live(id)
       /\ job' = [job EXCEPT ![w] =
            [Called(job[w]) EXCEPT !.read = IF Contains(@, id) THEN @ ELSE Append(@, id)]]
  /\ Go(w, AfterCall(w))
  /\ UNCHANGED <<concept, turns, reports, requests, asks, writes, failures>>

\* CreateKeepingCurated: an id nobody holds, or a tombstone nobody ruled on.
WriteDraft(w) ==
  /\ pc[w] = "tool" /\ ~job[w].dry /\ job[w].drafts < MaxDrafts
  /\ \E id \in Concepts, text \in Texts :
       /\ ~Live(id) /\ ~Curated(concept[id])
       /\ concept' = [concept EXCEPT ![id] = Row(Draft(text), FALSE, "agent")]
  /\ job' = [job EXCEPT ![w] = [Called(job[w]) EXCEPT !.drafts = @ + 1]]
  /\ Go(w, AfterCall(w))
  /\ UNCHANGED <<turns, reports, requests, asks, writes, failures>>

\* propose_revision: at most MaxDrafts, one for an id, of a draft nobody has
\* ruled on; then a second read takes the hash it is kept against.
Propose(w) ==
  /\ pc[w] = "tool" /\ ~job[w].dry /\ Cardinality(job[w].revisions) < MaxDrafts
  /\ \E id \in Concepts, text \in Texts :
       /\ \A r \in job[w].revisions : r.id # id
       /\ Revisable(id)
       /\ job' = [job EXCEPT ![w].id = id, ![w].text = text]
  /\ Go(w, "base")
  /\ UNCHANGED <<concept, turns, reports, requests, asks, writes, failures>>

ProposeBase(w) ==
  /\ pc[w] = "base"
  /\ LET r == [id |-> job[w].id, text |-> job[w].text,
               base |-> concept[job[w].id].doc]
     IN job' = [job EXCEPT ![w] =
          [Called(job[w]) EXCEPT !.revisions = IF Live(r.id) THEN @ \cup {r} ELSE @]]
  /\ Go(w, AfterCall(w))
  /\ UNCHANGED <<concept, turns, reports, requests, asks, writes, failures>>

-----------------------------------------------------------------------------
(* What becomes of a turn.                                                  *)
Turn(p, read, revisions) ==
  [actor |-> p, read |-> read, revisions |-> revisions, verdict |-> "none",
   blamed |-> {}]

\* A dry run keeps nothing.  A turn that cannot be kept is only logged: the
\* answer goes out without its revisions.
KeepTurn(w) ==
  /\ pc[w] = "keep"
  /\ turns' = IF job[w].dry THEN turns
              ELSE Append(turns, Turn(job[w].by, job[w].read, job[w].revisions))
  /\ Finish(w)
  /\ UNCHANGED <<concept, reports, requests, asks, writes, failures>>

\* KeepAgentTurn: another agent's turn, whose every concept its caller can read.
KeepAgentTurn(w) ==
  /\ pc[w] = "idle" /\ requests < MaxRequests
  /\ \E p \in People, ids \in SUBSET Concepts :
       /\ \A id \in ids : Live(id)
       /\ turns' = Append(turns, Turn(p, SetToSeq(ids), {}))
  /\ requests' = requests + 1
  /\ UNCHANGED <<concept, reports, pc, job, asks, writes, failures>>

\* JudgeAgentTurn, up to its write: only the person who asked, blame only with
\* a bad verdict and only of what the answer read.
Judge(w) ==
  \E t \in DOMAIN turns, verdict \in {"good", "bad"}, blame \in SUBSET Concepts :
    /\ blame \subseteq (IF verdict = "bad" THEN ToSet(turns[t].read) ELSE {})
    /\ Admit(w, "judge", [NoJob EXCEPT !.by = turns[t].actor, !.turn = t,
         !.verdict = verdict,
         !.left = IF verdict = "good" THEN turns[t].read ELSE SetToSeq(blame)])
    /\ UNCHANGED <<concept, turns, reports, asks, writes, failures>>

\* Mutant: the verdict is written whatever the row says.
UnjudgedUnchecked(t) == TRUE
\* WHERE id = $1 AND verdict = ''
Unjudged(t) == turns[t].verdict = "none"

JudgeTurn(w) ==
  /\ pc[w] = "judge"
  /\ LET j == job[w]
     IN IF Unjudged(j.turn)
        THEN /\ turns' = [turns EXCEPT
                  ![j.turn].verdict = j.verdict,
                  ![j.turn].blamed = IF j.verdict = "bad" THEN ToSet(j.left) ELSE {}]
             /\ Go(w, "report")
             /\ UNCHANGED job
        ELSE /\ Finish(w)
             /\ UNCHANGED turns
  /\ UNCHANGED <<concept, reports, requests, asks, writes, failures>>

\* The outcome reports, one by one.  A concept that is gone is skipped; any other
\* error ends the request (Fail), and nothing reports the rest.
ReportOutcome(w) ==
  /\ pc[w] = "report" /\ job[w].left # << >>
  /\ LET id == Head(job[w].left)
         outcome == IF job[w].verdict = "good" THEN "worked" ELSE "failed"
     IN reports' = IF Live(id)
                   THEN reports \cup {[no |-> job[w].no, turn |-> job[w].turn,
                                       id |-> id, outcome |-> outcome]}
                   ELSE reports
  /\ job' = [job EXCEPT ![w].left = Tail(@)]
  /\ UNCHANGED <<concept, turns, pc, requests, asks, writes, failures>>

Judged(w) ==
  /\ pc[w] = "report" /\ job[w].left = << >>
  /\ Finish(w)
  /\ UNCHANGED <<concept, turns, reports, requests, asks, writes, failures>>

\* ApplyAgentRevision, by the person who asked: what is written is the document
\* the turn kept.
Apply(w) ==
  \E t \in DOMAIN turns : \E r \in turns[t].revisions :
    /\ Admit(w, "revisable", [NoJob EXCEPT !.by = turns[t].actor, !.turn = t,
                              !.id = r.id, !.text = r.text, !.base = r.base])
    /\ UNCHANGED <<concept, turns, reports, asks, writes, failures>>

RevisableDraft(w) ==
  /\ pc[w] = "revisable"
  /\ IF Revisable(job[w].id)
     THEN Go(w, "apply") /\ UNCHANGED job
     ELSE Finish(w)
  /\ UNCHANGED <<concept, turns, reports, requests, asks, writes, failures>>

\* Mutant: the guard's read is the only check.
StillBaseUnchecked(id, base) == Live(id)
\* The precondition of the update, under the row's lock.
StillBase(id, base) == Live(id) /\ concept[id].doc = base

\* Service.Update with If-Match: the same bytes are no change; the verifications
\* are not the document's and stay.
ApplyRevision(w) ==
  /\ pc[w] = "apply"
  /\ LET id == job[w].id
         doc == Draft(job[w].text)
     IN concept' = IF StillBase(id, job[w].base) /\ doc # concept[id].doc
                   THEN [concept EXCEPT ![id] = Row(doc, @.verified, "agent")]
                   ELSE concept
  /\ Finish(w)
  /\ UNCHANGED <<turns, reports, requests, asks, writes, failures>>

-----------------------------------------------------------------------------
(* What people do to the same concepts: write or revive one, verify one     *)
(* (which publishes a draft), delete one.  Deleting needs no ruling.        *)
Write(id) ==
  \E doc \in Docs :
    /\ concept[id].doc # doc \/ ~Live(id)
    /\ concept' = [concept EXCEPT ![id] = Row(doc, Live(id) /\ @.verified, "person")]

Verify(id) ==
  /\ Live(id) /\ ~concept[id].verified
  /\ concept' = [concept EXCEPT ![id] =
       Row([concept[id].doc EXCEPT !.status = IF @ = "draft" THEN "stable" ELSE @], TRUE, "person")]

Delete(id) ==
  /\ Live(id)
  /\ concept' = [concept EXCEPT ![id].state = "deleted"]

SomebodyWrites ==
  /\ writes < MaxWrites
  /\ writes' = writes + 1
  /\ \E id \in Concepts : Write(id) \/ Verify(id) \/ Delete(id)
  /\ UNCHANGED <<turns, reports, pc, job, requests, asks, failures>>

-----------------------------------------------------------------------------
Init ==
  /\ concept = [id \in Concepts |-> Absent]
  /\ turns = << >> /\ reports = {}
  /\ pc = [w \in Workers |-> "idle"]
  /\ job = [w \in Workers |-> NoJob]
  /\ requests = 0 /\ asks = 0 /\ writes = 0 /\ failures = 0

\* A statement can fail where its failure ends the request.  A turn that fails to
\* be kept, or a tool that fails, does not: those are KeepTurn's and CallTool's.
CanFail(w) == pc[w] \in {"judge", "report", "revisable", "apply", "keep"} /\ Fail(w)

Step(w) ==
  \/ Generate(w) \/ OutOfRounds(w)
  \/ CallTool(w) \/ GetConcept(w) \/ WriteDraft(w) \/ Propose(w) \/ ProposeBase(w)
  \/ KeepTurn(w) \/ JudgeTurn(w) \/ ReportOutcome(w) \/ Judged(w)
  \/ RevisableDraft(w) \/ ApplyRevision(w)

Next ==
  \/ \E w \in Workers :
       Ask(w) \/ KeepAgentTurn(w) \/ Judge(w) \/ Apply(w) \/ Step(w) \/ CanFail(w)
  \/ SomebodyWrites

Spec == Init /\ [][Next]_vars
FairSpec == Spec /\ \A w \in Workers : WF_vars(Step(w))
-----------------------------------------------------------------------------
(* Properties.                                                              *)

\* The reports made from a turn are one verdict's, each concept reported at most
\* once: of several judgments of one answer, sent again or sent together, only
\* the first becomes outcomes (store.JudgeAgentTurn), and these say what the
\* turn's row says.
OneVerdict ==
  \A r \in reports :
    /\ turns[r.turn].verdict = (IF r.outcome = "worked" THEN "good" ELSE "bad")
    /\ r.outcome = "failed" => r.id \in turns[r.turn].blamed
    /\ \A s \in reports : s.turn = r.turn => s.no = r.no /\ s.outcome = r.outcome

\* Whatever people did between the proposal, its keeping and its application, a
\* revision replaces exactly the document it was kept against, and by exactly
\* the document its turn kept (service.ApplyAgentRevision): "a draft edited or
\* applied since is a 412 rather than an overwrite".
RevisionsReplaceTheirBase ==
  [][\A id \in Concepts :
       (concept'[id] # concept[id] /\ Live(id) /\ concept'[id].by = "agent"
        /\ concept'[id].state = "live")
       => \E t \in DOMAIN turns : \E r \in turns[t].revisions :
            /\ r.id = id
            /\ concept[id].doc = r.base
            /\ concept'[id].doc = Draft(r.text)]_vars

\* "The draft must still be a draft nobody has ruled on": no revision is applied
\* over a verified, published or deprecated concept.
OnlyUnruledDrafts ==
  [][\A id \in Concepts :
       (concept'[id] # concept[id] /\ Live(id) /\ concept'[id].by = "agent"
        /\ concept'[id].state = "live")
       => Revisable(id)]_vars

\* Every request ends: the model cannot hold a question by stumbling or by
\* calling tools for ever (maxRounds, one retry).
RequestsAnswered == \A w \in Workers : pc[w] # "idle" ~> pc[w] = "idle"
=============================================================================
