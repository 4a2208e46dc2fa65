-------------------------- MODULE AgentTurnsProofs --------------------------
(* That an answer is judged once and a revision replaces only what it was     *)
(* proposed against: for any number of requests, people, concepts and turns,   *)
(* and whatever the model does.                                               *)
EXTENDS AgentTurns, FiniteSetTheorems, SequenceTheorems, TLAPS

-----------------------------------------------------------------------------
(* Types.                                                                   *)
Turns == [actor: People, read: Seq(Concepts), revisions: SUBSET Revisions,
          verdict: {"none", "good", "bad"}, blamed: SUBSET Concepts]
Reports == [no: Nat, turn: Nat, id: Concepts, outcome: {"worked", "failed"}]
Steps == {"idle", "generate", "tool", "base", "keep", "judge", "report", "revisable", "apply"}
\* No run reads more rounds, writes or proposes more drafts than it may.
Jobs == [no: Nat, by: People \cup {None}, dry: BOOLEAN, rounds: 0 .. MaxRounds, calls: Nat,
         retried: BOOLEAN, read: Seq(Concepts), drafts: 0 .. MaxDrafts,
         revisions: SUBSET Revisions, turn: Nat, verdict: {"none", "good", "bad"},
         left: Seq(Concepts), id: Concepts \cup {None}, text: Texts \cup {None},
         base: Docs \cup {NoDoc}]

TypeOK ==
  /\ concept \in [Concepts -> Rows]
  /\ turns \in Seq(Turns) /\ reports \in SUBSET Reports
  /\ pc \in [Workers -> Steps] /\ job \in [Workers -> Jobs]
  /\ requests \in Nat /\ asks \in Nat /\ writes \in Nat /\ failures \in Nat

\* A live concept says something.
LiveSays == \A id \in Concepts : Live(id) => concept[id].doc \in Docs

-----------------------------------------------------------------------------
(* The inductive invariant.                                                 *)

\* What a request carries at each of its steps: a call to answer, a revision in
\* hand, the turn it judges, the revision of the turn it applies.
Fit(step, j) ==
  /\ step \in {"tool", "base"} => j.calls > 0
  /\ step = "base" => /\ j.id \in Concepts /\ j.text \in Texts
                      /\ Cardinality(j.revisions) < MaxDrafts
  /\ IsFiniteSet(j.revisions) /\ Cardinality(j.revisions) <= MaxDrafts
  /\ step = "generate" \/ step = "keep" => j.by \in People
  /\ step \in {"tool", "base"} => j.by \in People
  /\ step \in {"judge", "report"} => j.turn \in DOMAIN turns /\ j.verdict \in {"good", "bad"}
  /\ step \in {"revisable", "apply"} =>
       /\ j.turn \in DOMAIN turns
       /\ \E r \in turns[j.turn].revisions : j.id = r.id /\ j.text = r.text /\ j.base = r.base
JobsFit == \A w \in Workers : Fit(pc[w], job[w])

\* Whoever reports a turn wrote its verdict, and is alone to report it.
Judging ==
  /\ \A w \in Workers : pc[w] = "report" =>
       /\ turns[job[w].turn].verdict = job[w].verdict
       /\ job[w].verdict = "bad" => ToSet(job[w].left) \subseteq turns[job[w].turn].blamed
       /\ \A r \in reports : r.turn = job[w].turn => r.no = job[w].no
  /\ \A v, w \in Workers :
       pc[v] = "report" /\ pc[w] = "report" /\ job[v].turn = job[w].turn => v = w

\* Nobody reports a turn that is not there.
ReportsOfTurns == \A r \in reports : r.turn \in DOMAIN turns

AgentInv == TypeOK /\ LiveSays /\ JobsFit /\ Judging /\ ReportsOfTurns /\ OneVerdict

-----------------------------------------------------------------------------
(* Values.                                                                  *)

\* An absent document is not one a draft holds.
LEMMA NoDocIsNone == NoDoc \notin Docs
BY BoundsAssumption DEF NoDoc, Docs

\* An idle worker's job is one, with nothing drafted.
LEMMA NoJobType == NoJob \in Jobs /\ IsFiniteSet(NoJob.revisions) /\ NoJob.calls = 0
                   /\ Cardinality(NoJob.revisions) <= MaxDrafts
<1>1. NoJob.revisions = {} /\ NoJob.calls = 0
  BY DEF NoJob
<1>2. IsFiniteSet({}) /\ Cardinality({}) = 0
  BY FS_EmptySet
<1>3. NoJob \in Jobs
  BY BoundsAssumption DEF NoJob, Jobs
<1> QED
  BY <1>1, <1>2, <1>3, BoundsAssumption

\* The sequence of a set's elements is one.
LEMMA SetToSeqType ==
  ASSUME NEW S \in SUBSET Concepts
  PROVE  SetToSeq(S) \in Seq(S)
<1>1. IsFiniteSet(S)
  BY BoundsAssumption, FS_Subset
<1>2. /\ Cardinality(S) \in Nat
      /\ ExistsBijection(1 .. Cardinality(S), S)
  BY <1>1, FS_CardinalityType
<1>3. \E f \in [1 .. Cardinality(S) -> S] : IsInjective(f)
  BY <1>2 DEF ExistsBijection, Bijection, Injection
<1>4. SetToSeq(S) \in [1 .. Cardinality(S) -> S]
  BY <1>3 DEF SetToSeq
<1> QED
  BY <1>2, <1>4

-----------------------------------------------------------------------------
(* Steps of a request that touch no concept, turn or report.                 *)
LEMMA RunStep ==
  ASSUME AgentInv, NEW w \in Workers, NEW step \in Steps \ {"report"}, NEW j \in Jobs, Fit(step, j),
         pc' = [pc EXCEPT ![w] = step], job' = [job EXCEPT ![w] = j],
         requests' \in Nat, asks' \in Nat, failures' \in Nat,
         UNCHANGED <<concept, turns, reports, writes>>
  PROVE  AgentInv'
<1> USE DEF AgentInv
<1>1. TypeOK'
  BY DEF TypeOK
<1>2. LiveSays' /\ ReportsOfTurns' /\ OneVerdict'
  BY DEF LiveSays, Live, ReportsOfTurns, OneVerdict
<1>3. JobsFit'
  BY DEF JobsFit, Fit, TypeOK
<1>4. Judging'
  BY DEF Judging, TypeOK
<1> QED
  BY <1>1, <1>2, <1>3, <1>4

\* A request that ends, whatever its answer, keeps the invariant.
LEMMA FinishStep ==
  ASSUME AgentInv, NEW w \in Workers, Finish(w), failures' \in Nat,
         UNCHANGED <<concept, turns, reports, requests, asks, writes>>
  PROVE  AgentInv'
<1>1. Fit("idle", NoJob) /\ NoJob \in Jobs /\ requests' \in Nat /\ asks' \in Nat
  BY NoJobType DEF Fit, AgentInv, TypeOK
<1> QED
  BY <1>1, RunStep DEF Finish, Steps

\* The call is answered: the run goes on with what it had.
LEMMA CalledFits ==
  ASSUME NEW j \in Jobs, NEW step \in {"tool", "base"}, Fit(step, j)
  PROVE  /\ Called(j) \in Jobs
         /\ Fit(IF j.calls > 1 THEN "tool" ELSE "generate", Called(j))
         /\ Called(j).read = j.read /\ Called(j).drafts = j.drafts
         /\ Called(j).revisions = j.revisions /\ Called(j).calls = j.calls - 1
         /\ Called(j).by = j.by
<1> DEFINE calls == j.calls - 1
<1>0. calls \in Nat
  BY DEF Fit, Jobs
<1> HIDE DEF calls
<1>a. Called(j) = [j EXCEPT !.calls = calls, !.id = None, !.text = None]
  BY DEF Called, calls
<1>3. /\ Called(j) \in Jobs
      /\ Called(j).read = j.read /\ Called(j).drafts = j.drafts
      /\ Called(j).revisions = j.revisions /\ Called(j).calls = calls
      /\ Called(j).by = j.by
  BY <1>0, <1>a DEF Jobs
<1>1. calls = j.calls - 1
  BY DEF calls
<1>2. j.calls > 0 /\ j.calls \in Nat
  BY DEF Fit, Jobs
<1> QED
  BY <1>1, <1>2, <1>3 DEF Fit

\* A question that begins has drafted nothing and called no tool.
LEMMA AskStep ==
  ASSUME AgentInv, NEW w \in Workers, Ask(w)
  PROVE  AgentInv'
<1>1. PICK p \in People, dry \in BOOLEAN :
        /\ asks' = asks + 1
        /\ Admit(w, "generate", [NoJob EXCEPT !.by = p, !.dry = dry])
        /\ UNCHANGED <<concept, turns, reports, writes, failures>>
  BY DEF Ask
<1> DEFINE no == requests + 1
           j == [NoJob EXCEPT !.by = p, !.dry = dry, !.no = no]
<1>0. no \in Nat
  BY DEF AgentInv, TypeOK
<1> HIDE DEF no
<1>2. j \in Jobs /\ j.revisions = NoJob.revisions /\ j.by = p
  BY <1>0, NoJobType DEF Jobs
<1>3. Fit("generate", j)
  BY <1>2, NoJobType DEF Fit
<1>4. /\ pc' = [pc EXCEPT ![w] = "generate"] /\ job' = [job EXCEPT ![w] = j]
      /\ requests' \in Nat /\ asks' \in Nat /\ failures' \in Nat
  BY <1>1 DEF Admit, AgentInv, TypeOK, no
<1> HIDE DEF j
<1> QED
  BY <1>1, <1>2, <1>3, <1>4, RunStep DEF Steps

\* A round of the model, and the last one.
LEMMA GenerateStep ==
  ASSUME AgentInv, NEW w \in Workers, Generate(w) \/ OutOfRounds(w)
  PROVE  AgentInv'
<1>1. /\ UNCHANGED <<concept, turns, reports, requests, asks, writes, failures>>
      /\ pc[w] = "generate" /\ job[w] \in Jobs /\ Fit("generate", job[w])
      /\ pc \in [Workers -> Steps] /\ job \in [Workers -> Jobs]
      /\ requests' \in Nat /\ asks' \in Nat /\ failures' \in Nat
  <2>1. pc[w] = "generate"
    BY DEF Generate, OutOfRounds
  <2> QED
    BY <2>1 DEF Generate, OutOfRounds, AgentInv, TypeOK, JobsFit
<1>2. CASE Finish(w)
  BY <1>1, <1>2, FinishStep
<1>3. CASE Stumble(w) /\ ~ Finish(w) /\ job[w].rounds < MaxRounds
  <2> DEFINE rounds == job[w].rounds + 1
             j == [job[w] EXCEPT !.retried = TRUE, !.rounds = rounds]
  <2>1. job' = [job EXCEPT ![w] = j] /\ pc' = [pc EXCEPT ![w] = "generate"]
    BY <1>1, <1>3 DEF Stumble
  <2>a. rounds \in 0 .. MaxRounds
    BY <1>1, <1>3, BoundsAssumption DEF Jobs
  <2> HIDE DEF rounds
  <2>2. j \in Jobs
    BY <1>1, <2>a DEF Jobs
  <2>3. Fit("generate", j)
    BY <1>1 DEF Fit, Jobs
  <2> HIDE DEF j
  <2> QED
    BY <1>1, <2>1, <2>2, <2>3, RunStep DEF Steps
<1>4. CASE Go(w, "keep") /\ UNCHANGED job
  <2>1. job' = [job EXCEPT ![w] = job[w]] /\ pc' = [pc EXCEPT ![w] = "keep"]
    BY <1>1, <1>4 DEF Go
  <2>2. Fit("keep", job[w])
    BY <1>1 DEF Fit
  <2> QED
    BY <1>1, <2>1, <2>2, RunStep DEF Steps
<1>5. ASSUME job[w].rounds < MaxRounds, NEW n \in 1 .. MaxCalls, Go(w, "tool"),
             job' = [job EXCEPT ![w].rounds = @ + 1, ![w].calls = n]
      PROVE  AgentInv'
  <2> DEFINE rounds == job[w].rounds + 1
             j == [job[w] EXCEPT !.rounds = rounds, !.calls = n]
  <2>1. job' = [job EXCEPT ![w] = j] /\ pc' = [pc EXCEPT ![w] = "tool"]
    BY <1>1, <1>5 DEF Go
  <2>a. rounds \in 0 .. MaxRounds /\ n \in Nat /\ n > 0
    BY <1>1, <1>5, BoundsAssumption DEF Jobs
  <2> HIDE DEF rounds
  <2>2. j \in Jobs /\ j.calls = n /\ j.by = job[w].by /\ j.revisions = job[w].revisions
    BY <1>1, <2>a DEF Jobs
  <2> HIDE DEF j
  <2>3. Fit("tool", j)
    BY <1>1, <2>a, <2>2 DEF Fit
  <2> HIDE DEF j
  <2> QED
    BY <1>1, <2>1, <2>2, <2>3, RunStep DEF Steps
<1> QED
  BY <1>2, <1>3, <1>4, <1>5 DEF Generate, OutOfRounds

\* A tool call reads, or proposes within the cap on drafts.
LEMMA ToolStep ==
  ASSUME AgentInv, NEW w \in Workers,
         CallTool(w) \/ GetConcept(w) \/ Propose(w) \/ ProposeBase(w)
  PROVE  AgentInv'
<1> DEFINE next == IF job[w].calls > 1 THEN "tool" ELSE "generate"
<1>1. /\ UNCHANGED <<concept, turns, reports, requests, asks, writes, failures>>
      /\ pc[w] \in {"tool", "base"} /\ job[w] \in Jobs /\ Fit(pc[w], job[w])
      /\ pc \in [Workers -> Steps] /\ job \in [Workers -> Jobs]
      /\ requests' \in Nat /\ asks' \in Nat /\ failures' \in Nat
  <2>1. pc[w] \in {"tool", "base"}
    BY DEF CallTool, GetConcept, Propose, ProposeBase
  <2> QED
    BY <2>1 DEF CallTool, GetConcept, Propose, ProposeBase, AgentInv, TypeOK, JobsFit
<1>2. /\ Called(job[w]) \in Jobs /\ Fit(next, Called(job[w]))
      /\ Called(job[w]).read = job[w].read /\ Called(job[w]).revisions = job[w].revisions
  BY <1>1, CalledFits
<1>3. ASSUME NEW j \in Jobs, Fit(next, j), Go(w, next), job' = [job EXCEPT ![w] = j]
      PROVE  AgentInv'
  BY <1>1, <1>3, RunStep DEF Go, Steps
<1>4. CASE CallTool(w)
  BY <1>1, <1>2, <1>3, <1>4 DEF CallTool, AfterCall
<1>5. CASE GetConcept(w)
  <2>1. PICK id \in Concepts : job' = [job EXCEPT ![w] =
          [Called(job[w]) EXCEPT !.read = IF Contains(@, id) THEN @ ELSE Append(@, id)]]
    BY <1>5 DEF GetConcept
  <2> DEFINE read == IF Contains(job[w].read, id) THEN job[w].read ELSE Append(job[w].read, id)
             j == [Called(job[w]) EXCEPT !.read = read]
  <2>0. job[w].read \in Seq(Concepts)
    BY <1>1 DEF Jobs
  <2>2. read \in Seq(Concepts)
    BY <2>0, AppendProperties
  <2>3. job' = [job EXCEPT ![w] = j]
    <3>1. job' = [job EXCEPT ![w] = [Called(job[w]) EXCEPT !.read =
                    IF Contains(Called(job[w]).read, id) THEN Called(job[w]).read
                    ELSE Append(Called(job[w]).read, id)]]
      BY <2>1
    <3> QED
      BY <1>2, <3>1
  <2> HIDE DEF read
  <2>4. j \in Jobs
    BY <1>2, <2>2 DEF Jobs
  <2>5. Fit(next, j)
    BY <1>2 DEF Fit, Jobs
  <2> HIDE DEF j, next
  <2>6. Go(w, next)
    BY <1>5 DEF GetConcept, AfterCall, next
  <2> QED
    BY <1>3, <2>3, <2>4, <2>5, <2>6
<1>6. CASE Propose(w)
  <2>1. PICK id \in Concepts, text \in Texts :
          job' = [job EXCEPT ![w].id = id, ![w].text = text]
    BY <1>6 DEF Propose
  <2> DEFINE j == [job[w] EXCEPT !.id = id, !.text = text]
  <2>2. job' = [job EXCEPT ![w] = j] /\ pc' = [pc EXCEPT ![w] = "base"]
    BY <1>1, <1>6, <2>1 DEF Propose, Go
  <2>3. j \in Jobs
    BY <1>1 DEF Jobs
  <2>4. Cardinality(job[w].revisions) < MaxDrafts
    BY <1>6 DEF Propose
  <2>5. Fit("base", j)
    BY <1>1, <2>4 DEF Fit, Jobs
  <2> HIDE DEF j
  <2> QED
    BY <1>1, <2>2, <2>3, <2>5, RunStep DEF Steps
<1>7. CASE ProposeBase(w)
  <2> DEFINE r == [id |-> job[w].id, text |-> job[w].text, base |-> concept[job[w].id].doc]
             revisions == IF Live(r.id) THEN job[w].revisions \cup {r} ELSE job[w].revisions
             j == [Called(job[w]) EXCEPT !.revisions = revisions]
  <2>1. /\ job[w].id \in Concepts /\ job[w].text \in Texts
        /\ Cardinality(job[w].revisions) < MaxDrafts /\ IsFiniteSet(job[w].revisions)
        /\ Cardinality(job[w].revisions) \in Nat /\ job[w].revisions \in SUBSET Revisions
    BY <1>1, <1>7, FS_CardinalityType DEF Fit, ProposeBase, Jobs
  <2>2. Live(r.id) => r \in Revisions
    BY <2>1 DEF AgentInv, LiveSays, Revisions
  <2> HIDE DEF r
  <2>a. /\ IsFiniteSet(job[w].revisions \cup {r})
        /\ Cardinality(job[w].revisions \cup {r}) \in
             {Cardinality(job[w].revisions), Cardinality(job[w].revisions) + 1}
    <3> DEFINE S == job[w].revisions
    <3>1. IsFiniteSet(S)
      BY <2>1
    <3> HIDE DEF S
    <3>2. IsFiniteSet(S \cup {r}) /\ Cardinality(S \cup {r}) \in {Cardinality(S), Cardinality(S) + 1}
      BY <3>1, FS_AddElement
    <3> QED
      BY <3>2 DEF S
  <2>3. /\ revisions \in SUBSET Revisions /\ IsFiniteSet(revisions)
        /\ Cardinality(revisions) <= MaxDrafts
    BY <2>1, <2>2, <2>a, BoundsAssumption
  <2>4. job' = [job EXCEPT ![w] = j]
    <3>1. job' = [job EXCEPT ![w] = [Called(job[w]) EXCEPT !.revisions =
                    IF Live(r.id) THEN Called(job[w]).revisions \cup {r}
                    ELSE Called(job[w]).revisions]]
      BY <1>7 DEF ProposeBase, r
    <3> QED
      BY <1>2, <3>1
  <2> HIDE DEF revisions
  <2>5. j \in Jobs
    BY <1>2, <2>3 DEF Jobs
  <2>6. Fit(next, j)
    BY <1>2, <2>3 DEF Fit, Jobs
  <2>7. Go(w, next)
    BY <1>7 DEF ProposeBase, AfterCall
  <2> HIDE DEF j, next
  <2> QED
    BY <1>3, <2>4, <2>5, <2>6, <2>7
<1> QED
  BY <1>4, <1>5, <1>6, <1>7

\* A judgment that begins has reported nothing yet.
LEMMA JudgeStep ==
  ASSUME AgentInv, NEW w \in Workers, Judge(w)
  PROVE  AgentInv'
<1>1. PICK t \in DOMAIN turns, verdict \in {"good", "bad"}, blame \in SUBSET Concepts :
        /\ Admit(w, "judge", [NoJob EXCEPT !.by = turns[t].actor, !.turn = t,
             !.verdict = verdict,
             !.left = IF verdict = "good" THEN turns[t].read ELSE SetToSeq(blame)])
        /\ UNCHANGED <<concept, turns, reports, asks, writes, failures>>
  BY DEF Judge
<1> DEFINE no == requests + 1
           left == IF verdict = "good" THEN turns[t].read ELSE SetToSeq(blame)
           j == [NoJob EXCEPT !.by = turns[t].actor, !.turn = t, !.verdict = verdict,
                              !.left = left, !.no = no]
<1>2. t \in Nat /\ turns[t] \in Turns /\ no \in Nat
  BY DEF AgentInv, TypeOK
<1>3. turns[t].actor \in People /\ turns[t].read \in Seq(Concepts)
  BY <1>2 DEF Turns
<1>4. left \in Seq(Concepts)
  <2>1. SetToSeq(blame) \in Seq(Concepts)
    BY SetToSeqType, SeqMonotonic
  <2> QED
    BY <1>3, <2>1
<1>5. /\ pc' = [pc EXCEPT ![w] = "judge"] /\ job' = [job EXCEPT ![w] = j]
      /\ requests' \in Nat /\ asks' \in Nat /\ failures' \in Nat
  BY <1>1, <1>2 DEF Admit, AgentInv, TypeOK
<1> HIDE DEF no, left
<1>6. j \in Jobs /\ j.revisions = NoJob.revisions /\ j.turn = t /\ j.verdict = verdict
  BY <1>2, <1>3, <1>4, NoJobType DEF Jobs
<1> HIDE DEF j
<1>7. Fit("judge", j)
  BY <1>6, NoJobType DEF Fit
<1> QED
  BY <1>1, <1>5, <1>6, <1>7, RunStep DEF Steps

\* An application begins with the proposal its turn kept.
LEMMA ApplyStep ==
  ASSUME AgentInv, NEW w \in Workers, Apply(w)
  PROVE  AgentInv'
<1>1. PICK t \in DOMAIN turns : \E r \in turns[t].revisions :
        /\ Admit(w, "revisable", [NoJob EXCEPT !.by = turns[t].actor, !.turn = t,
                                  !.id = r.id, !.text = r.text, !.base = r.base])
        /\ UNCHANGED <<concept, turns, reports, asks, writes, failures>>
  BY DEF Apply
<1>2. PICK r \in turns[t].revisions :
        /\ Admit(w, "revisable", [NoJob EXCEPT !.by = turns[t].actor, !.turn = t,
                                  !.id = r.id, !.text = r.text, !.base = r.base])
        /\ UNCHANGED <<concept, turns, reports, asks, writes, failures>>
  BY <1>1
<1> DEFINE no == requests + 1
           j == [NoJob EXCEPT !.by = turns[t].actor, !.turn = t,
                              !.id = r.id, !.text = r.text, !.base = r.base, !.no = no]
<1>3. t \in Nat /\ turns[t] \in Turns /\ no \in Nat
  BY DEF AgentInv, TypeOK
<1>4. turns[t].actor \in People /\ r \in Revisions
  BY <1>3 DEF Turns
<1>5. r.id \in Concepts /\ r.text \in Texts /\ r.base \in Docs
  BY <1>4 DEF Revisions
<1>6. /\ pc' = [pc EXCEPT ![w] = "revisable"] /\ job' = [job EXCEPT ![w] = j]
      /\ requests' \in Nat /\ asks' \in Nat /\ failures' \in Nat
  BY <1>2, <1>3 DEF Admit, AgentInv, TypeOK
<1> HIDE DEF no
<1>7. /\ j \in Jobs /\ j.revisions = NoJob.revisions /\ j.turn = t
      /\ j.id = r.id /\ j.text = r.text /\ j.base = r.base
  BY <1>3, <1>4, <1>5, NoJobType DEF Jobs
<1> HIDE DEF j
<1>8. Fit("revisable", j)
  BY <1>7, NoJobType DEF Fit
<1> QED
  BY <1>2, <1>6, <1>7, <1>8, RunStep DEF Steps

\* The check that a proposal may still be applied writes nothing.
LEMMA RevisableStep ==
  ASSUME AgentInv, NEW w \in Workers, RevisableDraft(w)
  PROVE  AgentInv'
<1>1. /\ UNCHANGED <<concept, turns, reports, requests, asks, writes, failures>>
      /\ pc[w] = "revisable" /\ job[w] \in Jobs /\ Fit("revisable", job[w])
      /\ pc \in [Workers -> Steps] /\ job \in [Workers -> Jobs]
      /\ requests' \in Nat /\ asks' \in Nat /\ failures' \in Nat
  <2>1. pc[w] = "revisable"
    BY DEF RevisableDraft
  <2> QED
    BY <2>1 DEF RevisableDraft, AgentInv, TypeOK, JobsFit
<1>2. CASE Finish(w)
  BY <1>1, <1>2, FinishStep
<1>3. CASE Go(w, "apply") /\ UNCHANGED job
  <2>1. job' = [job EXCEPT ![w] = job[w]] /\ pc' = [pc EXCEPT ![w] = "apply"]
    BY <1>1, <1>3 DEF Go
  <2>2. Fit("apply", job[w])
    BY <1>1 DEF Fit
  <2> QED
    BY <1>1, <2>1, <2>2, RunStep DEF Steps
<1> QED
  BY <1>2, <1>3 DEF RevisableDraft

-----------------------------------------------------------------------------
(* Steps that keep or judge a turn, or report its outcomes.                  *)

\* A turn appended to the ledger leaves every other where it was.
LEMMA KeepStep ==
  ASSUME AgentInv, NEW t \in Turns, turns' = Append(turns, t),
         UNCHANGED <<concept, reports, pc, job, asks, writes, failures>>,
         requests' \in Nat
  PROVE  AgentInv'
<1>1. /\ turns' \in Seq(Turns) /\ DOMAIN turns \subseteq DOMAIN turns'
      /\ \A k \in DOMAIN turns : turns'[k] = turns[k]
  BY AppendProperties DEF AgentInv, TypeOK
<1>2. TypeOK'
  BY <1>1 DEF AgentInv, TypeOK
<1>3. LiveSays'
  BY DEF AgentInv, LiveSays, Live
<1>4. JobsFit'
  BY <1>1 DEF AgentInv, JobsFit, Fit
<1>5. Judging' /\ ReportsOfTurns' /\ OneVerdict'
  <2>1. \A w \in Workers : pc[w] = "report" => job[w].turn \in DOMAIN turns
    BY DEF AgentInv, JobsFit, Fit
  <2> QED
    BY <1>1, <2>1 DEF AgentInv, Judging, ReportsOfTurns, OneVerdict
<1> QED
  BY <1>2, <1>3, <1>4, <1>5 DEF AgentInv

\* A question that ends well keeps one turn.
LEMMA KeepAgentTurnStep ==
  ASSUME AgentInv, NEW w \in Workers, KeepAgentTurn(w)
  PROVE  AgentInv'
<1>1. PICK p \in People, ids \in SUBSET Concepts :
        turns' = Append(turns, Turn(p, SetToSeq(ids), {}))
  BY DEF KeepAgentTurn
<1>2. SetToSeq(ids) \in Seq(Concepts)
  BY SetToSeqType, SeqMonotonic
<1>3. Turn(p, SetToSeq(ids), {}) \in Turns
  BY <1>2 DEF Turn, Turns
<1>4. requests' \in Nat /\ UNCHANGED <<concept, reports, pc, job, asks, writes, failures>>
  BY DEF KeepAgentTurn, AgentInv, TypeOK
<1> QED
  BY <1>1, <1>3, <1>4, KeepStep

\* Keeping a turn and ending the question are one step: the turn is there for
\* nobody else before the step is over.
LEMMA KeepTurnStep ==
  ASSUME AgentInv, NEW w \in Workers, KeepTurn(w)
  PROVE  AgentInv'
<1>1. /\ pc[w] = "keep" /\ Finish(w) /\ job[w] \in Jobs /\ Fit("keep", job[w])
      /\ UNCHANGED <<concept, reports, requests, asks, writes, failures>>
      /\ requests' \in Nat /\ asks' \in Nat /\ failures' \in Nat
  BY DEF KeepTurn, AgentInv, TypeOK, JobsFit
<1>2. CASE job[w].dry
  <2>1. UNCHANGED turns
    BY <1>2 DEF KeepTurn
  <2> QED
    BY <1>1, <2>1, FinishStep
<1>3. CASE ~job[w].dry
  <2> DEFINE t == Turn(job[w].by, job[w].read, job[w].revisions)
  <2>1. turns' = Append(turns, t)
    BY <1>3 DEF KeepTurn
  <2>2. t \in Turns
    BY <1>1 DEF Turn, Turns, Jobs, Fit
  <2> HIDE DEF t
  <2>3. /\ turns' \in Seq(Turns) /\ DOMAIN turns \subseteq DOMAIN turns'
        /\ \A k \in DOMAIN turns : turns'[k] = turns[k]
    BY <2>1, <2>2, AppendProperties DEF AgentInv, TypeOK
  <2>4. /\ \A v \in Workers : \/ pc'[v] = "idle" /\ job'[v] = NoJob
                              \/ pc'[v] = pc[v] /\ job'[v] = job[v]
        /\ pc' \in [Workers -> Steps] /\ job' \in [Workers -> Jobs]
    <3>1. /\ pc' = [pc EXCEPT ![w] = "idle"] /\ job' = [job EXCEPT ![w] = NoJob]
          /\ pc \in [Workers -> Steps] /\ job \in [Workers -> Jobs] /\ NoJob \in Jobs
      BY <1>1, NoJobType DEF Finish, AgentInv, TypeOK
    <3>2. \A v \in Workers : pc'[v] = IF v = w THEN "idle" ELSE pc[v]
      BY <3>1
    <3>3. \A v \in Workers : job'[v] = IF v = w THEN NoJob ELSE job[v]
      BY <3>1
    <3> QED
      BY <3>1, <3>2, <3>3 DEF Steps
  <2>5. TypeOK'
    BY <1>1, <2>3, <2>4 DEF AgentInv, TypeOK
  <2>6. LiveSays'
    BY <1>1 DEF AgentInv, LiveSays, Live
  <2>7. JobsFit'
    BY <2>3, <2>4, NoJobType DEF AgentInv, JobsFit, Fit
  <2>8. Judging' /\ ReportsOfTurns' /\ OneVerdict'
    <3>1. \A v \in Workers : pc[v] = "report" => job[v].turn \in DOMAIN turns
      BY DEF AgentInv, JobsFit, Fit
    <3> QED
      BY <1>1, <2>3, <2>4, <3>1 DEF AgentInv, Judging, ReportsOfTurns, OneVerdict
  <2> QED
    BY <2>5, <2>6, <2>7, <2>8 DEF AgentInv
<1> QED
  BY <1>2, <1>3

\* Of the judgments that race, the one that finds the row unjudged reports.
LEMMA JudgeTurnStep ==
  ASSUME AgentInv, NEW w \in Workers, JudgeTurn(w)
  PROVE  AgentInv'
<1>1. /\ pc[w] = "judge" /\ job[w] \in Jobs /\ Fit("judge", job[w])
      /\ UNCHANGED <<concept, reports, requests, asks, writes, failures>>
      /\ requests' \in Nat /\ asks' \in Nat /\ failures' \in Nat
  BY DEF JudgeTurn, AgentInv, TypeOK, JobsFit
<1> DEFINE k == job[w].turn
<1>2. CASE ~Unjudged(k)
  BY <1>1, <1>2, FinishStep DEF JudgeTurn
<1>3. CASE Unjudged(k)
  <2> DEFINE blamed == IF job[w].verdict = "bad" THEN ToSet(job[w].left) ELSE {}
             t == [turns[k] EXCEPT !.verdict = job[w].verdict, !.blamed = blamed]
  <2>1. /\ k \in DOMAIN turns /\ turns[k] \in Turns /\ job[w].verdict \in {"good", "bad"}
        /\ turns \in Seq(Turns)
    BY <1>1 DEF Fit, AgentInv, TypeOK
  <2>2. blamed \in SUBSET Concepts
    BY <1>1 DEF ToSet, Jobs
  <2>3. turns' = [turns EXCEPT ![k] = t] /\ pc' = [pc EXCEPT ![w] = "report"] /\ UNCHANGED job
    BY <1>3 DEF JudgeTurn, Go
  <2> HIDE DEF blamed
  <2>4. /\ t \in Turns /\ t.verdict = job[w].verdict /\ t.blamed = blamed
        /\ t.revisions = turns[k].revisions /\ turns[k].verdict = "none"
    BY <1>3, <2>1, <2>2 DEF Turns, Unjudged
  <2> HIDE DEF t
  <2>5. /\ turns' \in Seq(Turns) /\ DOMAIN turns' = DOMAIN turns /\ turns'[k] = t
        /\ \A i \in DOMAIN turns : i # k => turns'[i] = turns[i]
        /\ \A i \in DOMAIN turns : turns'[i].revisions = turns[i].revisions
    BY <2>1, <2>3, <2>4
  <2>6. \A r \in reports : r.turn # k
    <3>1. SUFFICES ASSUME NEW r \in reports, r.turn = k PROVE FALSE
      OBVIOUS
    <3>2. turns[k].verdict \in {"good", "bad"}
      BY <3>1 DEF AgentInv, OneVerdict
    <3> QED
      BY <2>4, <3>2
  <2>7. \A v \in Workers : pc[v] = "report" => job[v].turn # k
    <3>1. SUFFICES ASSUME NEW v \in Workers, pc[v] = "report", job[v].turn = k PROVE FALSE
      OBVIOUS
    <3>2. turns[k].verdict = job[v].verdict /\ job[v].verdict \in {"good", "bad"}
      BY <3>1 DEF AgentInv, Judging, JobsFit, Fit
    <3> QED
      BY <2>4, <3>2
  <2>8. TypeOK'
    BY <1>1, <2>3, <2>5 DEF AgentInv, TypeOK, Steps
  <2>9. LiveSays' /\ ReportsOfTurns'
    BY <1>1, <2>5 DEF AgentInv, LiveSays, Live, ReportsOfTurns
  <2>10. JobsFit'
    <3>1. \A v \in Workers : Fit(pc[v], job[v])
      BY DEF AgentInv, JobsFit
    <3>2. \A v \in Workers : pc'[v] = IF v = w THEN "report" ELSE pc[v]
      BY <2>3 DEF AgentInv, TypeOK
    <3> QED
      BY <1>1, <2>1, <2>3, <2>5, <3>1, <3>2 DEF JobsFit, Fit
  <2>11. Judging'
    <3>1. \A v \in Workers : pc'[v] = IF v = w THEN "report" ELSE pc[v]
      BY <2>3 DEF AgentInv, TypeOK
    <3>2. \A v \in Workers : pc[v] = "report" => job[v].turn \in DOMAIN turns
      BY DEF AgentInv, JobsFit, Fit
    <3>3. job[w].verdict = "bad" => ToSet(job[w].left) \subseteq blamed
      BY DEF blamed
    <3> QED
      BY <1>1, <2>3, <2>4, <2>5, <2>6, <2>7, <3>1, <3>2, <3>3 DEF AgentInv, Judging
  <2>12. OneVerdict'
    BY <1>1, <2>5, <2>6 DEF AgentInv, OneVerdict, ReportsOfTurns
  <2> QED
    BY <2>8, <2>9, <2>10, <2>11, <2>12 DEF AgentInv
<1> QED
  BY <1>2, <1>3

\* The turn's row already says what the outcomes will.
LEMMA ReportStep ==
  ASSUME AgentInv, NEW w \in Workers, ReportOutcome(w)
  PROVE  AgentInv'
<1> DEFINE id == Head(job[w].left)
           outcome == IF job[w].verdict = "good" THEN "worked" ELSE "failed"
           r == [no |-> job[w].no, turn |-> job[w].turn, id |-> id, outcome |-> outcome]
           left == Tail(job[w].left)
           j == [job[w] EXCEPT !.left = left]
<1>1. /\ pc[w] = "report" /\ job[w] \in Jobs /\ Fit("report", job[w]) /\ job[w].left # << >>
      /\ pc \in [Workers -> Steps] /\ job \in [Workers -> Jobs]
      /\ UNCHANGED <<concept, turns, pc, requests, asks, writes, failures>>
  BY DEF ReportOutcome, AgentInv, TypeOK, JobsFit
<1>2. /\ job[w].left \in Seq(Concepts) /\ job[w].no \in Nat /\ job[w].turn \in Nat
      /\ job[w].turn \in DOMAIN turns /\ job[w].verdict \in {"good", "bad"}
  BY <1>1 DEF Jobs, Fit
<1>3. /\ id \in Concepts /\ left \in Seq(Concepts)
      /\ id \in ToSet(job[w].left) /\ ToSet(left) \subseteq ToSet(job[w].left)
  BY <1>1, <1>2, HeadTailProperties DEF ToSet
<1>4. reports' \in {reports, reports \cup {r}}
  BY DEF ReportOutcome
<1>5. job' = [job EXCEPT ![w] = j]
  BY DEF ReportOutcome
<1> HIDE DEF left, id
<1>6. /\ j \in Jobs /\ j.revisions = job[w].revisions /\ j.left = left
      /\ j.turn = job[w].turn /\ j.verdict = job[w].verdict /\ j.no = job[w].no
      /\ j.calls = job[w].calls
  BY <1>1, <1>3 DEF Jobs
<1>7. /\ r \in Reports /\ r.turn = job[w].turn /\ r.no = job[w].no /\ r.id = id
      /\ r.outcome = outcome
  BY <1>2, <1>3 DEF Reports
<1> HIDE DEF j, r, outcome
<1>8. /\ job'[w] = j /\ \A v \in Workers : v # w => job'[v] = job[v]
      /\ job' \in [Workers -> Jobs]
  BY <1>1, <1>5, <1>6
<1>9. TypeOK'
  BY <1>1, <1>4, <1>7, <1>8 DEF AgentInv, TypeOK
<1>10. LiveSays' /\ ReportsOfTurns'
  BY <1>1, <1>2, <1>4, <1>7 DEF AgentInv, LiveSays, Live, ReportsOfTurns
<1>11. JobsFit'
  <2>1. \A v \in Workers : Fit(pc[v], job[v])
    BY DEF AgentInv, JobsFit
  <2> QED
    BY <1>1, <1>6, <1>8, <2>1 DEF JobsFit, Fit
<1>12. /\ turns[job[w].turn].verdict = job[w].verdict
       /\ job[w].verdict = "bad" => id \in turns[job[w].turn].blamed
                                    /\ ToSet(left) \subseteq turns[job[w].turn].blamed
       /\ \A s \in reports : s.turn = job[w].turn => s.no = job[w].no
       /\ \A v \in Workers : pc[v] = "report" /\ job[v].turn = job[w].turn => v = w
  BY <1>1, <1>3 DEF AgentInv, Judging
<1>13. Judging'
  <2>1. ASSUME NEW v \in Workers, pc[v] = "report"
        PROVE  /\ turns[job'[v].turn].verdict = job'[v].verdict
               /\ job'[v].verdict = "bad" => ToSet(job'[v].left) \subseteq turns[job'[v].turn].blamed
               /\ \A s \in reports' : s.turn = job'[v].turn => s.no = job'[v].no
    <3>1. CASE v = w
      BY <1>4, <1>6, <1>7, <1>8, <1>12, <3>1
    <3>2. CASE v # w
      BY <1>4, <1>7, <1>8, <1>12, <2>1, <3>2 DEF AgentInv, Judging
    <3> QED
      BY <3>1, <3>2
  <2>2. \A v \in Workers : job'[v].turn = job[v].turn
    BY <1>6, <1>8
  <2> QED
    BY <1>1, <2>1, <2>2 DEF AgentInv, Judging
<1>14. OneVerdict'
  <2>1. \A s \in reports : s.turn = r.turn => s.no = r.no /\ s.outcome = r.outcome
    <3>1. SUFFICES ASSUME NEW s \in reports, s.turn = r.turn
                   PROVE  s.no = r.no /\ s.outcome = r.outcome
      OBVIOUS
    <3>2. /\ turns[s.turn].verdict = (IF s.outcome = "worked" THEN "good" ELSE "bad")
          /\ s.outcome \in {"worked", "failed"}
      BY DEF AgentInv, OneVerdict, TypeOK, Reports
    <3> QED
      BY <1>2, <1>7, <1>12, <3>1, <3>2 DEF outcome
  <2>2. /\ turns[r.turn].verdict = (IF r.outcome = "worked" THEN "good" ELSE "bad")
        /\ r.outcome = "failed" => r.id \in turns[r.turn].blamed
    BY <1>2, <1>7, <1>12 DEF outcome
  <2>3. UNCHANGED turns
    BY <1>1
  <2> QED
    BY <1>4, <2>1, <2>2, <2>3 DEF AgentInv, OneVerdict
<1> QED
  BY <1>9, <1>10, <1>11, <1>13, <1>14 DEF AgentInv

-----------------------------------------------------------------------------
(* Steps that write a concept.                                              *)

\* A write that leaves every live concept a document disturbs no turn.
LEMMA ConceptStep ==
  ASSUME AgentInv, concept' \in [Concepts -> Rows], LiveSays',
         pc' \in [Workers -> Steps], job' \in [Workers -> Jobs],
         \A w \in Workers : \/ pc'[w] = pc[w] /\ job'[w] = job[w]
                            \/ pc'[w] # "report" /\ Fit(pc'[w], job'[w]),
         writes' \in Nat, UNCHANGED <<turns, reports, requests, asks, failures>>
  PROVE  AgentInv'
<1>1. TypeOK' /\ ReportsOfTurns' /\ OneVerdict'
  BY DEF AgentInv, TypeOK, ReportsOfTurns, OneVerdict
<1>2. JobsFit'
  BY DEF AgentInv, JobsFit, Fit
<1>3. Judging'
  BY DEF AgentInv, Judging
<1> QED
  BY <1>1, <1>2, <1>3 DEF AgentInv

\* A concept just written is one, and holds what was written.
LEMMA RowType ==
  ASSUME NEW doc \in Docs, NEW verified \in BOOLEAN, NEW by \in {"person", "agent"}
  PROVE  Row(doc, verified, by) \in Rows /\ Row(doc, verified, by).doc \in Docs
         /\ Row(doc, verified, by).by = by /\ Row(doc, verified, by).doc = doc
BY DEF Row, Rows

\* Putting a row with a document somewhere keeps the types.
LEMMA PutRow ==
  ASSUME AgentInv, NEW id \in Concepts, NEW row \in Rows, row.doc \in Docs,
         concept' = [concept EXCEPT ![id] = row]
  PROVE  concept' \in [Concepts -> Rows] /\ LiveSays'
BY DEF AgentInv, TypeOK, LiveSays, Live

\* A new draft takes an address nothing held.
LEMMA WriteDraftStep ==
  ASSUME AgentInv, NEW w \in Workers, WriteDraft(w)
  PROVE  AgentInv'
<1>1. PICK id \in Concepts, text \in Texts :
        concept' = [concept EXCEPT ![id] = Row(Draft(text), FALSE, "agent")]
  BY DEF WriteDraft
<1>2. concept' \in [Concepts -> Rows] /\ LiveSays'
  <2>1. Draft(text) \in Docs
    BY DEF Draft, Docs, Statuses
  <2> QED
    BY <1>1, <2>1, RowType, PutRow
<1>3. /\ pc[w] = "tool" /\ job[w] \in Jobs /\ Fit("tool", job[w]) /\ job[w].drafts < MaxDrafts
      /\ pc \in [Workers -> Steps] /\ job \in [Workers -> Jobs]
      /\ UNCHANGED <<turns, reports, requests, asks, writes, failures>> /\ writes' \in Nat
  BY DEF WriteDraft, AgentInv, TypeOK, JobsFit
<1> DEFINE drafts == Called(job[w]).drafts + 1
           j == [Called(job[w]) EXCEPT !.drafts = drafts]
           next == IF job[w].calls > 1 THEN "tool" ELSE "generate"
<1>4. /\ Called(job[w]) \in Jobs /\ Fit(next, Called(job[w]))
      /\ Called(job[w]).drafts = job[w].drafts
  BY <1>3, CalledFits
<1>5. drafts \in 0 .. MaxDrafts
  BY <1>3, <1>4, BoundsAssumption DEF Jobs
<1>6. job' = [job EXCEPT ![w] = j] /\ pc' = [pc EXCEPT ![w] = next]
  BY DEF WriteDraft, Go, AfterCall
<1> HIDE DEF drafts
<1>7. /\ j \in Jobs /\ j.revisions = Called(job[w]).revisions
      /\ j.calls = Called(job[w]).calls /\ j.by = Called(job[w]).by
  BY <1>4, <1>5 DEF Jobs
<1> HIDE DEF j
<1>8. Fit(next, j)
  BY <1>4, <1>7 DEF Fit
<1> QED
  BY <1>2, <1>3, <1>6, <1>7, <1>8, ConceptStep DEF Steps

\* A revision is written over the very document it was proposed against.
LEMMA ApplyRevisionStep ==
  ASSUME AgentInv, NEW w \in Workers, ApplyRevision(w)
  PROVE  AgentInv'
<1>1. /\ pc[w] = "apply" /\ Fit("apply", job[w]) /\ Finish(w)
      /\ pc \in [Workers -> Steps] /\ job \in [Workers -> Jobs]
      /\ UNCHANGED <<turns, reports, requests, asks, writes, failures>> /\ writes' \in Nat
  BY DEF ApplyRevision, AgentInv, TypeOK, JobsFit
<1>2. job[w].id \in Concepts /\ job[w].text \in Texts
  <2>1. PICK r \in turns[job[w].turn].revisions : job[w].id = r.id /\ job[w].text = r.text
    BY <1>1 DEF Fit
  <2>2. turns[job[w].turn] \in Turns
    BY <1>1, ElementOfSeq DEF Fit, AgentInv, TypeOK
  <2>3. r \in Revisions
    BY <2>1, <2>2 DEF Turns
  <2> QED
    BY <2>1, <2>3 DEF Revisions
<1>3. concept' \in [Concepts -> Rows] /\ LiveSays'
  <2>1. CASE UNCHANGED concept
    BY <2>1 DEF AgentInv, TypeOK, LiveSays, Live
  <2>2. CASE concept' = [concept EXCEPT ![job[w].id] =
               Row(Draft(job[w].text), concept[job[w].id].verified, "agent")]
    <3>1. Draft(job[w].text) \in Docs /\ concept[job[w].id].verified \in BOOLEAN
      BY <1>2 DEF Draft, Docs, Statuses, AgentInv, TypeOK, Rows
    <3> QED
      BY <1>2, <2>2, <3>1, RowType, PutRow
  <2> QED
    BY <2>1, <2>2 DEF ApplyRevision
<1>4. NoJob \in Jobs /\ Fit("idle", NoJob)
  BY NoJobType DEF Fit
<1>5. /\ pc' \in [Workers -> Steps] /\ job' \in [Workers -> Jobs]
      /\ \A v \in Workers : \/ pc'[v] = pc[v] /\ job'[v] = job[v]
                            \/ pc'[v] # "report" /\ Fit(pc'[v], job'[v])
  BY <1>1, <1>4 DEF Finish, Steps
<1> QED
  BY <1>1, <1>3, <1>5, ConceptStep

\* A write by anybody else touches no turn, no report and no request.
LEMMA SomebodyWritesStep ==
  ASSUME AgentInv, SomebodyWrites
  PROVE  AgentInv'
<1>1. PICK id \in Concepts : Write(id) \/ Verify(id) \/ Delete(id)
  BY DEF SomebodyWrites
<1>2. concept \in [Concepts -> Rows] /\ concept[id] \in Rows
  BY DEF AgentInv, TypeOK
<1>3. concept' \in [Concepts -> Rows] /\ LiveSays'
  <2>1. CASE Write(id)
    <3>1. \E doc \in Docs : concept' = [concept EXCEPT ![id] =
                             Row(doc, Live(id) /\ concept[id].verified, "person")]
      BY <2>1 DEF Write, Row
    <3>2. PICK doc \in Docs, verified \in BOOLEAN :
            concept' = [concept EXCEPT ![id] = Row(doc, verified, "person")]
      BY <3>1
    <3> QED
      BY <3>2, RowType, PutRow
  <2>2. CASE Verify(id)
    <3> DEFINE doc == [concept[id].doc EXCEPT !.status =
                         IF concept[id].doc.status = "draft" THEN "stable"
                         ELSE concept[id].doc.status]
    <3>1. concept[id].doc \in Docs
      BY <2>2 DEF Verify, AgentInv, LiveSays
    <3>2. doc \in Docs
      BY <3>1 DEF Docs, Statuses
    <3>3. concept' = [concept EXCEPT ![id] = Row(doc, TRUE, "person")]
      BY <2>2 DEF Verify
    <3> HIDE DEF doc
    <3> QED
      BY <3>2, <3>3, RowType, PutRow
  <2>3. CASE Delete(id)
    <3> DEFINE row == [concept[id] EXCEPT !.state = "deleted"]
    <3>1. row \in Rows /\ concept[id].doc \in Docs /\ row.doc = concept[id].doc
      BY <1>2, <2>3 DEF Rows, Delete, AgentInv, LiveSays
    <3>2. concept' = [concept EXCEPT ![id] = row]
      BY <2>3 DEF Delete
    <3> HIDE DEF row
    <3> QED
      BY <3>1, <3>2, PutRow
  <2> QED
    BY <1>1, <2>1, <2>2, <2>3
<1>4. /\ UNCHANGED <<turns, reports, pc, job, requests, asks, failures>>
      /\ writes' \in Nat
  BY DEF SomebodyWrites, AgentInv, TypeOK
<1>5. pc' \in [Workers -> Steps] /\ job' \in [Workers -> Jobs]
  BY <1>4 DEF AgentInv, TypeOK
<1> QED
  BY <1>3, <1>4, <1>5, ConceptStep

-----------------------------------------------------------------------------
(* The theorems.                                                            *)

\* Nothing asked, nothing kept.
LEMMA Initially == Init => AgentInv
<1> SUFFICES ASSUME Init PROVE AgentInv
  OBVIOUS
<1>1. TypeOK
  <2>1. Absent \in Rows
    BY DEF Absent, Rows
  <2> QED
    BY <2>1, NoJobType DEF Init, TypeOK, Steps
<1>2. LiveSays
  BY DEF Init, LiveSays, Live, Absent
<1>3. JobsFit
  BY NoJobType DEF Init, JobsFit, Fit
<1>4. Judging /\ ReportsOfTurns /\ OneVerdict
  BY DEF Init, Judging, ReportsOfTurns, OneVerdict
<1> QED
  BY <1>1, <1>2, <1>3, <1>4 DEF AgentInv

\* A step that changes nothing keeps everything.
LEMMA Idle == AgentInv /\ UNCHANGED vars => AgentInv'
BY DEF vars, AgentInv, TypeOK, LiveSays, Live, JobsFit, Fit, Judging, ReportsOfTurns, OneVerdict

\* A failed request, and a judgment reported in full.
LEMMA EndStep ==
  ASSUME AgentInv, NEW w \in Workers, CanFail(w) \/ Judged(w)
  PROVE  AgentInv'
<1>1. /\ Finish(w) /\ failures' \in Nat
      /\ UNCHANGED <<concept, turns, reports, requests, asks, writes>>
  BY DEF CanFail, Fail, Judged, AgentInv, TypeOK
<1> QED
  BY <1>1, FinishStep

\* The invariant is inductive.
LEMMA Inductive == Spec => []AgentInv
<1>1. ASSUME AgentInv, [Next]_vars PROVE AgentInv'
  <2>1. ASSUME NEW w \in Workers, Ask(w) \/ KeepAgentTurn(w) \/ Judge(w) \/ Apply(w)
        PROVE  AgentInv'
    BY <1>1, <2>1, AskStep, KeepAgentTurnStep, JudgeStep, ApplyStep
  <2>2. ASSUME NEW w \in Workers, Step(w) \/ CanFail(w)
        PROVE  AgentInv'
    BY <1>1, <2>2, GenerateStep, ToolStep, WriteDraftStep, KeepTurnStep, JudgeTurnStep,
       ReportStep, RevisableStep, ApplyRevisionStep, EndStep DEF Step
  <2> QED
    BY <1>1, <2>1, <2>2, SomebodyWritesStep, Idle DEF Next
<1> QED
  BY <1>1, Initially, PTL DEF Spec

(* Every variable keeps its type, whatever the model answers: no question runs   *)
(* more rounds, writes more drafts or proposes more revisions than the code      *)
(* allows (maxRounds, maxDrafts).                                               *)
THEOREM TypeCorrect == Spec => []TypeOK
<1>1. AgentInv => TypeOK
  BY DEF AgentInv
<1> QED
  BY <1>1, Inductive, PTL

(* However many judgments of one answer race or are repeated, its outcomes are   *)
(* one verdict's and agree with the turn's row (store.JudgeAgentTurn).           *)
THEOREM JudgedOnce == Spec => []OneVerdict
<1>1. AgentInv => OneVerdict
  BY DEF AgentInv
<1> QED
  BY <1>1, Inductive, PTL

(* A revision replaces the very document it was kept against, by the document     *)
(* its turn kept, whatever people did in between (service.ApplyAgentRevision).    *)
THEOREM RevisionsReplaceOnlyTheirBase == Spec => RevisionsReplaceTheirBase
<1> DEFINE Replaced(id) ==
             /\ concept'[id] # concept[id] /\ Live(id) /\ concept'[id].by = "agent"
             /\ concept'[id].state = "live"
           Based(id) == \E t \in DOMAIN turns : \E r \in turns[t].revisions :
             /\ r.id = id /\ concept[id].doc = r.base /\ concept'[id].doc = Draft(r.text)
<1>1. ASSUME AgentInv, Next, NEW id \in Concepts, Replaced(id) PROVE Based(id)
  <2>0. concept \in [Concepts -> Rows]
    BY <1>1 DEF AgentInv, TypeOK
  <2>1. ASSUME NEW w \in Workers, ApplyRevision(w) PROVE Based(id)
    <3>1. /\ concept' = [concept EXCEPT ![job[w].id] =
               Row(Draft(job[w].text), concept[job[w].id].verified, "agent")]
          /\ concept[job[w].id].doc = job[w].base
      BY <1>1, <2>1 DEF ApplyRevision, StillBase
    <3>2. id = job[w].id
      BY <1>1, <2>0, <3>1
    <3>3. Fit("apply", job[w])
      BY <1>1, <2>1 DEF ApplyRevision, AgentInv, JobsFit
    <3>4. concept'[id].doc = Draft(job[w].text)
      BY <2>0, <3>1, <3>2 DEF Row
    <3> QED
      BY <3>1, <3>2, <3>3, <3>4 DEF Fit
  <2>2. ASSUME NEW w \in Workers, WriteDraft(w) PROVE Based(id)
    BY <1>1, <2>0, <2>2 DEF WriteDraft, Live
  <2>3. ASSUME SomebodyWrites PROVE Based(id)
    <3>1. PICK k \in Concepts : Write(k) \/ Verify(k) \/ Delete(k)
      BY <2>3 DEF SomebodyWrites
    <3>2. CASE Write(k)
      BY <1>1, <2>0, <3>2 DEF Write, Row
    <3>3. CASE Verify(k)
      BY <1>1, <2>0, <3>3 DEF Verify, Row
    <3>4. CASE Delete(k)
      BY <1>1, <2>0, <3>4 DEF Delete, Rows
    <3> QED
      BY <3>1, <3>2, <3>3, <3>4
  <2>4. ASSUME NEW w \in Workers,
               \/ Ask(w) \/ KeepAgentTurn(w) \/ Judge(w) \/ Apply(w) \/ CanFail(w)
               \/ Generate(w) \/ OutOfRounds(w) \/ CallTool(w) \/ GetConcept(w) \/ Propose(w)
               \/ ProposeBase(w) \/ KeepTurn(w) \/ JudgeTurn(w) \/ ReportOutcome(w)
               \/ Judged(w) \/ RevisableDraft(w)
        PROVE  UNCHANGED concept
    BY <2>4 DEF Ask, KeepAgentTurn, Judge, Apply, CanFail, Fail, Generate, OutOfRounds,
       CallTool, GetConcept, Propose, ProposeBase, KeepTurn, JudgeTurn, ReportOutcome, Judged,
       RevisableDraft
  <2> QED
    BY <1>1, <2>1, <2>2, <2>3, <2>4 DEF Next, Step
<1>2. AgentInv /\ [Next]_vars => [\A id \in Concepts :
        (concept'[id] # concept[id] /\ Live(id) /\ concept'[id].by = "agent"
         /\ concept'[id].state = "live")
        => \E t \in DOMAIN turns : \E r \in turns[t].revisions :
             /\ r.id = id
             /\ concept[id].doc = r.base
             /\ concept'[id].doc = Draft(r.text)]_vars
  BY <1>1
<1> QED
  BY <1>2, Inductive, PTL DEF Spec, RevisionsReplaceTheirBase

=============================================================================
