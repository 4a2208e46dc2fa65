----------------------------- MODULE Embeddings -----------------------------
(***************************************************************************)
(* The vectors of concepts and files, kept by the servers that Migrations   *)
(* starts (internal/service/embed.go, internal/store/embedding.go), and the  *)
(* reembed command that fills them in (cmd/ochakai/client.go cmdReembed).    *)
(*                                                                         *)
(* A write of an object commits first; its vector is computed afterwards,   *)
(* outside every transaction, from the text the writer holds, and stored by *)
(* an upsert.  A server can die, and the provider can fail, between the two.*)
(* reembed makes passes over what has no vector for the model in use.       *)
(***************************************************************************)
EXTENDS Migrations

CONSTANTS
  Concepts,    \* concepts, as naturals: ids in order
  Files,       \* embeddable files, likewise, apart from the concepts
  PassLimit,   \* how many items one pass takes
  MaxTexts,    \* bound: texts written
  MaxFailures  \* bound: calls of the provider or reads of bytes that fail

Objects == Concepts \cup Files

ASSUME EmbeddingsAssumption ==
  /\ Objects \subseteq Nat \ {0} /\ IsFiniteSet(Objects)
  /\ Concepts \cap Files = {}
  /\ PassLimit \in Nat \ {0} /\ MaxTexts \in Nat /\ MaxFailures \in Nat

VARIABLES
  text,      \* the text of each live object, 0 where there is none
  written,   \* texts written so far, each a number of its own after the first one's
  vector,    \* the row of the vector tables at each address
  writing,   \* committed writes whose vector is still to come
  pass,      \* the reembed command and the pass it is in
  failures   \* failures so far

embeddingVars == <<text, written, vector, writing, pass, failures>>
vars == <<migrationVars, embeddingVars>>

NoVector == [model |-> None, text |-> 0]
\* concepts, files: the cursor; from: the cursor the pass was asked from; queue:
\* what the pass listed and has not come to; tried, lacking: history.
NoPass == [step |-> "idle", by |-> None, concepts |-> 0, files |-> 0,
           from |-> <<0, 0>>, queue |-> {}, took |-> 0, text |-> 0,
           tried |-> {}, lacking |-> {}]

Live(o) == text[o] # 0
\* A text nothing has had before.
Fresh == written + 2
Serving(s) == up[s] = "serve" /\ model[s] # None
\* The upsert is refused where the column has another width or the table is gone.
Fits(m) == width = Dim[m]
Upserted(o, m, t) ==
  IF Fits(m) THEN [vector EXCEPT ![o] = [model |-> m, text |-> t]] ELSE vector
\* LEFT JOIN ... AND e.model = $1 ... IS NULL
Unembedded(m) == {o \in Objects : Live(o) /\ vector[o].model # m}

\* What the command has waited for since it began; an address that is given a
\* vector of its model, or is deleted, is not waited for any more.
Wait(p) == [p EXCEPT !.lacking =
  {o \in @ : text'[o] # 0 /\ vector'[o].model # model[p.by]}]

-----------------------------------------------------------------------------
(* Writes.                                                                  *)
ToEmbed(s, o) ==
  IF Serving(s) THEN {[by |-> s, object |-> o, text |-> Fresh]} ELSE {}

\* Create, Update or PutFile: committed, its vector still to come.
Write(s, o) ==
  /\ up[s] = "serve" /\ written < MaxTexts
  /\ written' = written + 1
  /\ text' = [text EXCEPT ![o] = Fresh]
  /\ writing' = writing \cup ToEmbed(s, o)
  /\ UNCHANGED <<vector, pass, failures>>

\* Move: the row and its vector are renamed; the id is part of the text a vector
\* is made of, so another is to come.
Move(s, o, p) ==
  /\ up[s] = "serve" /\ written < MaxTexts
  /\ Live(o) /\ ~Live(p)
  /\ written' = written + 1
  /\ text' = [text EXCEPT ![o] = 0, ![p] = Fresh]
  /\ vector' = [vector EXCEPT ![p] = vector[o], ![o] = NoVector]
  /\ writing' = writing \cup ToEmbed(s, p)
  /\ pass' = Wait(pass)
  /\ UNCHANGED failures

\* updateEmbedding: the upsert overwrites whatever is there.
StoreVector(w) ==
  /\ vector' = Upserted(w.object, model[w.by], w.text)
  /\ writing' = writing \ {w}
  /\ UNCHANGED <<text, written, failures>>
  /\ pass' = Wait(pass)

\* The failure is logged and the write stands.
EmbeddingFails(w) ==
  /\ failures < MaxFailures /\ failures' = failures + 1
  /\ writing' = writing \ {w}
  /\ UNCHANGED <<text, written, vector, pass>>

\* A deletion takes the vector in its transaction.
Delete(o) ==
  /\ Live(o)
  /\ text' = [text EXCEPT ![o] = 0]
  /\ vector' = [vector EXCEPT ![o] = NoVector]
  /\ pass' = Wait(pass)
  /\ UNCHANGED <<written, writing, failures>>

-----------------------------------------------------------------------------
(* reembed.                                                                 *)
BeginReembed(s) ==
  /\ Serving(s) /\ pass.step = "idle"
  /\ pass' = [NoPass EXCEPT !.step = "listConcepts", !.by = s,
                            !.lacking = Unembedded(model[s])]
  /\ UNCHANGED <<text, written, vector, writing, failures>>

\* The first limit objects after the cursor, in order.
Page(objects, after, limit) == First({o \in objects : o > after}, limit)

ListConcepts ==
  /\ pass.step = "listConcepts"
  /\ LET q == Page(Unembedded(model[pass.by]) \cap Concepts, pass.concepts, PassLimit)
     IN pass' = [pass EXCEPT !.step = "next", !.queue = q, !.took = Cardinality(q)]
  /\ UNCHANGED <<text, written, vector, writing, failures>>

\* Files fill the rest of a pass the concepts left room in.
ListFiles ==
  /\ pass.step = "next" /\ pass.queue = {} /\ pass.took < PassLimit
  /\ pass' = [pass EXCEPT
       !.queue = Page(Unembedded(model[pass.by]) \cap Files, pass.files,
                      PassLimit - pass.took),
       !.took = PassLimit]
  /\ UNCHANGED <<text, written, vector, writing, failures>>

\* Mutant: the position advances only past what was embedded.
PastOnSuccess(p, o, failed) ==
  IF failed THEN p
  ELSE IF o \in Concepts THEN [p EXCEPT !.concepts = o] ELSE [p EXCEPT !.files = o]
\* Where the next pass resumes: past every concept of this one, and past the
\* files whose bytes could be read.
Past(p, o, failed) ==
  IF o \in Concepts THEN [p EXCEPT !.concepts = o]
  ELSE IF failed THEN p ELSE [p EXCEPT !.files = o]

\* A pass goes through its list in order.
Listed == Min(pass.queue)

Skipped(failed) ==
  Past([pass EXCEPT !.step = "next", !.queue = @ \ {Listed},
                    !.tried = @ \cup {Listed}],
       Listed, failed)

\* Get, or GetFile: the text the vector will be of.
Take ==
  /\ pass.step = "next" /\ pass.queue # {}
  /\ Live(Listed)
  /\ pass' = [pass EXCEPT !.step = "store", !.text = text[Listed]]
  /\ UNCHANGED <<text, written, vector, writing, failures>>

\* "disappeared": gone since it was listed, or not to be read.
Disappeared ==
  /\ pass.step = "next" /\ pass.queue # {}
  /\ \/ ~Live(Listed) /\ UNCHANGED failures
     \/ failures < MaxFailures /\ failures' = failures + 1
  /\ pass' = Skipped(TRUE)
  /\ UNCHANGED <<text, written, vector, writing>>

\* The provider refuses.
Refused ==
  /\ pass.step = "store"
  /\ failures < MaxFailures /\ failures' = failures + 1
  /\ pass' = Skipped(Listed \in Concepts)
  /\ UNCHANGED <<text, written, vector, writing>>

StoreNext ==
  /\ pass.step = "store"
  /\ LET o == Listed
         failed == o \in Concepts /\ ~Fits(model[pass.by])
     IN /\ vector' = Upserted(o, model[pass.by], pass.text)
        /\ UNCHANGED <<text, written, writing, failures>>
        /\ pass' = Wait(Skipped(failed))

\* What is left is counted after the pass.  The command goes on from the cursor
\* while anything is, and stops when the cursor did not move.
Count ==
  /\ pass.step = "next" /\ pass.queue = {} /\ pass.took = PassLimit
  /\ LET cursor == <<pass.concepts, pass.files>>
     IN pass' = IF Unembedded(model[pass.by]) = {} THEN [pass EXCEPT !.step = "done"]
                ELSE IF cursor = pass.from THEN [pass EXCEPT !.step = "stopped"]
                ELSE [pass EXCEPT !.step = "listConcepts", !.from = cursor]
  /\ UNCHANGED <<text, written, vector, writing, failures>>

EndReembed ==
  /\ pass.step \in {"done", "stopped"}
  /\ pass' = NoPass
  /\ UNCHANGED <<text, written, vector, writing, failures>>

-----------------------------------------------------------------------------
(* A server's start and end: dropped tables hold nothing, and what the server *)
(* was doing ends with it.                                                   *)
StartOrDie ==
  /\ \E s \in Servers : Start(s) \/ StartStep(s) \/ Die(s)
  /\ vector' = IF width' = 0 THEN [o \in Objects |-> NoVector] ELSE vector
  /\ writing' = {w \in writing : up'[w.by] # "down"}
  /\ pass' = IF pass.by # None /\ up'[pass.by] = "down" THEN NoPass ELSE pass
  /\ UNCHANGED <<text, written, failures>>

EmbeddingStep ==
  /\ \/ \E s \in Servers :
          \/ BeginReembed(s)
          \/ \E o \in Objects : Write(s, o)
          \/ \E o, p \in Concepts : Move(s, o, p)
     \/ \E w \in writing : StoreVector(w) \/ EmbeddingFails(w)
     \/ \E o \in Objects : Delete(o)
     \/ ListConcepts \/ ListFiles \/ Take \/ Disappeared \/ Refused \/ StoreNext
     \/ Count \/ EndReembed
  /\ UNCHANGED migrationVars

Init ==
  /\ MigrationsInit
  /\ \/ text = [o \in Objects |-> 0]
     \/ applied # 0 /\ text = [o \in Objects |-> 1]
  /\ written = 0
  /\ vector = [o \in Objects |-> NoVector]
  /\ writing = {} /\ pass = NoPass /\ failures = 0

Next == StartOrDie \/ EmbeddingStep

Spec == Init /\ [][Next]_vars

-----------------------------------------------------------------------------
(* Properties.                                                              *)

\* When the command gives up, every concept that has lacked a vector since it
\* began has had its turn: what the provider refuses does not strand what comes
\* after it (service.Reembed), whoever writes, moves and deletes meanwhile.
EveryConceptGetsATurn ==
  pass.step \in {"done", "stopped"} => (pass.lacking \cap Concepts) \subseteq pass.tried

\* The same for files: "a file the provider rejects must not strand the rest".
EveryFileGetsATurn ==
  pass.step \in {"done", "stopped"} => (pass.lacking \cap Files) \subseteq pass.tried

\* "ochakai reembed finishes what a failure left": when it reports nothing left,
\* every concept's vector is of the concept's text, or is on its way.
ReembedFinishes ==
  pass.step = "done" =>
    \A o \in Concepts :
      Live(o) => \/ vector[o].text = text[o]
                 \/ \E w \in writing : w.object = o
=============================================================================
