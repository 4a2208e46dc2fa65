------------------------------ MODULE ReadRows ------------------------------
(***************************************************************************)
(* The rows every read goes over (internal/store/filter.go and the          *)
(* predicates of store.go), and what other requests commit to them while a  *)
(* reader is between two of its own statements.                             *)
(*                                                                         *)
(* An object is named by a number: the order of the numbers is the order of *)
(* the addresses.  Path gives the directories it sits in.  An instant is a  *)
(* number of the smallest steps the database can tell apart.                *)
(***************************************************************************)
EXTENDS BundlePaths, FiniteSets

CONSTANTS
  Ids,        \* the concepts' addresses, as numbers in their order
  Files,      \* the files', likewise
  Path,       \* where each of them sits
  Instants,   \* the expiries a writer may declare
  Grants,     \* what the reader may be granted: prefixes, {Root} being everything
  Bases,      \* the states the base may start in
  Start,      \* the instant it starts at
  Window,     \* domain.RecentUsageDays
  None,       \* SQL NULL
  MaxNow,     \* bound: the clock
  MaxWrites   \* bound: what others commit

ASSUME RowsAssumption ==
  /\ Ids \subseteq Nat /\ Files \subseteq Nat /\ Ids \cap Files = {}
  /\ IsFiniteSet(Ids) /\ IsFiniteSet(Files)
  /\ \A a \in Ids \cup Files : Path[a] \in Seq(STRING) /\ Path[a] # Root
  /\ Grants \subseteq SUBSET Seq(STRING)
  /\ Instants \subseteq Nat /\ None \notin Nat /\ Start \in Nat /\ MaxNow \in Nat

VARIABLES
  row,     \* object, knowledge_verification, knowledge_usage and _event by id
  stored,  \* the live file objects
  now,     \* the database's clock
  scope,   \* the prefixes the reader may read
  writes   \* what others committed

rowVars == <<row, stored, now, scope, writes>>

Nullable == Nat \cup {None}
ConceptRow ==
  [state : {"absent", "live", "deleted"}, status : {"draft", "stable", "deprecated"},
   refers : SUBSET STRING, human : Nullable, machine : Nullable, changed : Nat,
   stale : Nullable, created : Nat, fetched : Seq(Nat), failed : Seq(Nat), worked : Nat]
\* A filter: the empty set asks nothing.  refers are the source cited and the
\* concept linked at.
FilterType == [statuses : SUBSET STRING, trust : SUBSET STRING, refers : SUBSET STRING,
               prefixes : SUBSET Seq(STRING)]

-----------------------------------------------------------------------------
(* What the statements read off a row.                                      *)

Later(x, y) == IF x = None \/ (y # None /\ y > x) THEN y ELSE x
LastVerified(r) == Later(r.human, r.machine)

\* A verification at or after the last change of the content.
Standing(r, kinds) == \E k \in kinds : r[k] # None /\ r[k] >= r.changed
Anyone == {"human", "machine"}

TrustOf(r, t) ==
  CASE t = "unverified" -> ~Standing(r, Anyone)
    [] t = "machine-confirmed" -> Standing(r, Anyone) /\ ~Standing(r, {"human"})
    [] t = "human-reviewed" -> Standing(r, {"human"})

Newest(times) == times[Len(times)]
Recent(times) == Cardinality({i \in 1..Len(times) : times[i] + Window >= now})

PastExpiry(r) == r.stale # None /\ r.stale <= now
UnansweredFailure(r) ==
  /\ r.failed # << >>
  /\ LastVerified(r) = None \/ Newest(r.failed) > LastVerified(r)

Matches(id, f) ==
  LET r == row[id] IN
  /\ r.state = "live"
  /\ f.statuses = {} \/ r.status \in f.statuses
  /\ f.trust = {} \/ \E t \in f.trust : TrustOf(r, t)
  /\ f.refers \subseteq r.refers
  /\ f.prefixes = {} \/ UnderAny(Path[id], f.prefixes)

\* Mutant: a prefix asked for is taken as it is.
NarrowAsked(f) ==
  LET left == IF f.prefixes = {} THEN scope ELSE f.prefixes
  IN IF Root \in scope THEN f
     ELSE IF left = {} THEN None ELSE [f EXCEPT !.prefixes = left]
\* The filter inside the reader's scope; None when nothing is left of it.
Narrow(f) ==
  LET left == IF f.prefixes = {} THEN scope ELSE Intersect(f.prefixes, scope)
  IN IF Root \in scope THEN f
     ELSE IF left = {} THEN None ELSE [f EXCEPT !.prefixes = left]

-----------------------------------------------------------------------------
(* What other requests commit, one statement each.                          *)
Written(id, r) == row' = [row EXCEPT ![id] = r] /\ UNCHANGED <<stored, scope>>

Create(id) ==
  /\ row[id].state = "absent"
  /\ Written(id, [row[id] EXCEPT !.state = "live", !.status = "draft",
                                 !.changed = now, !.created = now])

Delete(id) ==
  /\ row[id].state = "live"
  /\ Written(id, [row[id] EXCEPT !.state = "deleted"])

Verify(id) ==
  \E kind \in Anyone :
    /\ row[id].state = "live"
    /\ Written(id, [row[id] EXCEPT ![kind] = IF now > row[id].changed THEN now ELSE row[id].changed])

\* An edit of the content declares the expiry anew; after a verification its
\* instant is later than the verification's (changedAfterVerified).
Edit(id) ==
  \E stale \in Instants \cup {None} :
    /\ row[id].state = "live"
    /\ Written(id, [row[id] EXCEPT
         !.stale = stale,
         !.changed = IF LastVerified(row[id]) # None /\ LastVerified(row[id]) >= now
                     THEN LastVerified(row[id]) + 1 ELSE now])

\* The flush of a fetch, and an outcome report.
Use(id) ==
  /\ row[id].state = "live"
  /\ \/ Written(id, [row[id] EXCEPT !.fetched = Append(@, now)])
     \/ Written(id, [row[id] EXCEPT !.worked = @ + 1])
     \/ Written(id, [row[id] EXCEPT !.failed = Append(@, now)])

StoreFile == \E f \in Files \ stored : stored' = stored \cup {f} /\ UNCHANGED <<row, scope>>
RemoveFile == \E f \in stored : stored' = stored \ {f} /\ UNCHANGED <<row, scope>>

\* An administrator replaces the policy.
Regrant == \E g \in Grants : scope' = g /\ UNCHANGED <<row, stored>>

Write ==
  /\ writes < MaxWrites /\ writes' = writes + 1
  /\ \/ \E id \in Ids : Create(id) \/ Delete(id) \/ Verify(id) \/ Edit(id) \/ Use(id)
     \/ StoreFile
     \/ RemoveFile
     \/ Regrant
  /\ UNCHANGED now

Tick == now < MaxNow /\ now' = now + 1 /\ UNCHANGED <<row, stored, scope, writes>>
=============================================================================
