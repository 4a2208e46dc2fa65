--------------------------- MODULE ConceptRecord ---------------------------
(* What one concept address promises of its record: it is written one whole *)
(* act at a time, each act moves the entry along its life and leaves one    *)
(* line in its history, and only the purge of a tombstone erases lines.     *)
(* Nobody sees a statement of a request, a retry or a rollback here.        *)
EXTENDS Integers, Sequences

CONSTANTS Docs, None

VARIABLES
  state,    \* "absent", "live" or "deleted"
  doc,      \* the document of a row that exists
  history   \* what was done at this address, oldest first

record == <<state, doc, history>>

Done(change, d) == history' = Append(history, [change |-> change, doc |-> d])

Init ==
  \/ state = "absent" /\ doc = None /\ history = <<>>
  \/ state = "live" /\ doc \in Docs /\ history = <<[change |-> "create", doc |-> doc]>>

\* A new entry, or the revival of a deleted one.
Create(d) ==
  /\ state # "live" /\ state' = "live" /\ doc' = d
  /\ Done("create", d)

Update(d) ==
  /\ state = "live" /\ state' = "live" /\ doc' = d
  /\ Done("update", d)

\* The tombstone keeps its document. The line holds the version the request
\* read, which an edit may have replaced since.
Delete(d) ==
  /\ state = "live" /\ state' = "deleted" /\ UNCHANGED doc
  /\ Done("delete", d)

\* A verification takes no lock: the entry it vouches for may be gone by now.
Verify(d) ==
  /\ UNCHANGED <<state, doc>>
  /\ Done("verify", d)

\* The entry goes with its history, except verifications that land after the
\* history was erased.
Purge ==
  /\ state = "deleted" /\ state' = "absent" /\ doc' = None
  /\ \E n \in 0 .. Len(history) :
       /\ \A i \in n + 1 .. Len(history) : history[i].change = "verify"
       /\ history' = SubSeq(history, n + 1, Len(history))

Next ==
  \/ \E d \in Docs : Create(d) \/ Update(d) \/ Delete(d) \/ Verify(d)
  \/ Purge

Spec == Init /\ [][Next]_record
=============================================================================
