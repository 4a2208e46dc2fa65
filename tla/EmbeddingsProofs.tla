------------------------- MODULE EmbeddingsProofs -------------------------
(***************************************************************************)
(* Proofs about Migrations and Embeddings: however many servers start on    *)
(* one base and die on the way, the ones left to choose choose one          *)
(* embedding model, none serves a base that is half migrated, and a          *)
(* reembed that gives up has come to every concept that lacked a vector.    *)
(***************************************************************************)
EXTENDS Embeddings, WellFoundedInduction, FiniteSetTheorems, TLAPS

-----------------------------------------------------------------------------
(* The invariant of the starts.                                             *)

\* Stages of a start under the migration lock, and after it.
UnderLock == {"made", "apply", "compose", "list", "stamp"}
Beyond == {"choose", "vectors", "resize", "tables", "serve"}
Locked == UnderLock \cup {"resize", "tables"}
Stages == {"down", "lock"} \cup UnderLock \cup Beyond

StartTypes ==
  /\ applied \in Nat /\ applied <= Newest
  /\ birth \in Nat \cup {None}
  /\ holder \in Servers \cup {None}
  /\ up \in [Servers -> Stages]
  /\ seen \in [Servers -> [made : BOOLEAN, named : BOOLEAN]]
  /\ model \in [Servers -> Models \cup {None}]

\* One server at a time changes the schema.
LockHeld == \A s \in Servers : up[s] \in Locked => holder = s

\* The base knows its age from the file that records it on.
AgeKnown == birth # None <=> BirthRecorded <= applied

\* How far each start has brought the schema.
Progress ==
  \A s \in Servers :
    /\ up[s] \in {"compose", "list", "stamp"} => applied = Newest
    /\ up[s] = "stamp" => listed = {}
    /\ seen[s].made => up[s] \in {"apply", "compose", "list", "stamp"}

\* Once a server is past the schema, or has chosen, nothing changes it, and no
\* server takes the base for one it made.
Settled ==
  (discovered # {} \/ \E s \in Servers : up[s] \in Beyond)
    => /\ applied = Newest
       /\ \A s \in Servers : ~seen[s].made
SettledList ==
  (\E s \in Servers : up[s] \in Beyond) => listed = {}

OneAge == \A m \in discovered : m = IF OlderBase THEN OlderModel ELSE DefaultModel

StartInv ==
  StartTypes /\ LockHeld /\ AgeKnown /\ Progress /\ Settled /\ SettledList /\ OneAge

\* What is left to compose once a start is past that.
Composed ==
  /\ uncomposed \subseteq Rows
  /\ \A s \in Servers : up[s] \in {"list", "stamp"} \cup Beyond => uncomposed \subseteq Unreadable

\* Batches are counted, and a batch holds more rows than can be refused.
BatchesMakeProgress == ~CountMayFail /\ Cardinality(Unreadable) < BackfillBatch

-----------------------------------------------------------------------------
(* The invariant of a reembed.                                              *)

Steps == {"idle", "listConcepts", "next", "store", "done", "stopped"}
Passes ==
  [step : Steps, by : Servers \cup {None}, concepts : Nat, files : Nat,
   from : Nat \X Nat, queue : SUBSET Objects, took : Nat, text : Nat,
   tried : SUBSET Objects, lacking : SUBSET Objects]
PassTypes ==
  /\ pass \in Passes
  /\ written \in Nat
  /\ text \in [Objects -> Nat]

\* The server a command talks to serves, with a model.
Attended ==
  IF pass.by = None THEN pass = NoPass
  ELSE pass.by \in Servers /\ Serving(pass.by)

\* What the command waits for has no vector of its model.
StillLacking ==
  pass.by # None => pass.lacking \subseteq Unembedded(model[pass.by])

Untried == (pass.lacking \cap Concepts) \ pass.tried

\* The cursor: what it has passed was tried; what a list left out comes after
\* all it holds, and then the list was not empty.
InOrder ==
  /\ pass.from[1] <= pass.concepts
  /\ \A o \in Untried : pass.concepts < o
  /\ pass.step = "listConcepts" => pass.from[1] = pass.concepts
  /\ pass.step \in {"next", "store"} =>
       /\ \A q \in pass.queue \cap Concepts : pass.concepts < q
       /\ \A o \in Untried \ pass.queue :
            /\ pass.from[1] < pass.concepts \/ pass.queue \cap Concepts # {}
            /\ \A q \in pass.queue \cap Concepts : q < o
       /\ pass.step = "store" => pass.queue # {}
  /\ pass.step \in {"done", "stopped"} => Untried = {}

PassInv == PassTypes /\ Attended /\ StillLacking /\ InOrder

-----------------------------------------------------------------------------
(* Lists in id order.                                                       *)

\* A set of ids that is not empty has a first one.
LEMMA LeastOf ==
  ASSUME NEW S \in SUBSET Nat, S # {}
  PROVE  Min(S) \in S /\ \A y \in S : Min(S) <= y
<1>1. PICK m \in S : \A y \in S : ~ (<<y, m>> \in OpToRel(<, Nat))
  BY NatLessThanWellFounded, WFMin, Zenon
<1>2. \A y \in S : ~ (y < m)
  BY <1>1 DEF OpToRel
<1>3. \A y \in S : m <= y
  BY <1>2
<1>q. QED  BY <1>3, Zenon DEF Min

\* The rows up to one of them, counted.
LEMMA UpToFinite ==
  ASSUME NEW rows \in SUBSET Nat, IsFiniteSet(rows), NEW i
  PROVE  /\ IsFiniteSet({j \in rows : j <= i})
         /\ Cardinality({j \in rows : j <= i}) \in Nat
BY FS_Subset, FS_CardinalityType, {j \in rows : j <= i} \subseteq rows

\* What a limit leaves out comes after all it lets in.
LEMMA FirstInOrder ==
  ASSUME NEW rows \in SUBSET Nat, IsFiniteSet(rows), NEW limit \in Nat,
         NEW o \in rows \ First(rows, limit), NEW q \in First(rows, limit)
  PROVE  q < o
<1>0. o \in Nat /\ q \in Nat
  BY DEF First
<1>1. SUFFICES ASSUME o <= q PROVE FALSE
  BY <1>0
<1>2. {j \in rows : j <= o} \subseteq {j \in rows : j <= q}
  <2>1. ASSUME NEW j \in rows, j <= o PROVE j <= q
    BY <1>0, <1>1, <2>1
  <2>q. QED  BY <2>1
<1>3. Cardinality({j \in rows : j <= o}) <= Cardinality({j \in rows : j <= q})
  BY <1>2, UpToFinite, FS_Subset
<1>4. Cardinality({j \in rows : j <= q}) <= limit
  BY DEF First
<1>5. Cardinality({j \in rows : j <= o}) <= limit
  BY <1>3, <1>4, UpToFinite
<1>q. QED  BY <1>5 DEF First

\* A limit lets something in.
LEMMA FirstSome ==
  ASSUME NEW rows \in SUBSET Nat, rows # {}, NEW limit \in Nat \ {0}
  PROVE  First(rows, limit) # {}
<1>1. PICK m \in rows : \A y \in rows : m <= y
  BY LeastOf
<1>2. {j \in rows : j <= m} = {m}
  <2>1. ASSUME NEW j \in rows, j <= m PROVE j = m
    BY <1>1, <2>1
  <2>q. QED  BY <1>1, <2>1
<1>3. Cardinality({j \in rows : j <= m}) = 1
  BY <1>2, FS_Singleton
<1>q. QED  BY <1>1, <1>3 DEF First

\* A batch whose rows are all refused is the last one when fewer than a batch can be.
LEMMA BatchOfRefusedIsLast ==
  ASSUME NEW rows \in SUBSET Rows, BatchesMakeProgress, Batch(rows) \subseteq Unreadable
  PROVE  rows \subseteq Unreadable
<1> USE MigrationsAssumption
<1> DEFINE Left == rows \ Unreadable
<1>1. SUFFICES ASSUME Left # {} PROVE FALSE
  OBVIOUS
<1>2. Min(Left) \in Left /\ \A y \in Left : Min(Left) <= y
  BY <1>1, LeastOf
<1> DEFINE m == Min(Left)
           upTo == {j \in rows : j <= m}
<1> HIDE DEF m
<1>3. m \in rows \ Unreadable /\ m \in Nat
  BY <1>2 DEF m
<1>4. upTo \subseteq Unreadable \cup {m}
  <2>1. ASSUME NEW j \in rows, j <= m PROVE j \in Unreadable \cup {m}
    <3>1. j \notin Unreadable => m <= j
      BY <1>2 DEF m
    <3>2. j \in Nat
      OBVIOUS
    <3>q. QED  BY <1>3, <2>1, <3>1, <3>2
  <2>q. QED  BY <2>1
<1>5. /\ IsFiniteSet(Unreadable) /\ Cardinality(Unreadable) \in Nat
      /\ IsFiniteSet(Unreadable \cup {m})
      /\ Cardinality(Unreadable \cup {m}) = Cardinality(Unreadable) + 1
  BY <1>3, FS_Subset, FS_AddElement, FS_CardinalityType
<1>6. IsFiniteSet(upTo) /\ Cardinality(upTo) <= Cardinality(Unreadable) + 1
  BY <1>4, <1>5, FS_Subset
<1>7. Cardinality(upTo) <= BackfillBatch
  BY <1>5, <1>6, FS_CardinalityType DEF BatchesMakeProgress
<1>8. m \in Batch(rows)
  BY <1>3, <1>7 DEF Batch, First
<1>q. QED  BY <1>3, <1>8

-----------------------------------------------------------------------------
(* Starting.                                                                *)

\* No server has started.
LEMMA StartInit == MigrationsInit => StartInv
<1> SUFFICES ASSUME MigrationsInit PROVE StartInv
  OBVIOUS
<1> USE MigrationsAssumption
<1>1. StartTypes
  BY DEF MigrationsInit, StartTypes, Stages, Unseen
<1>2. AgeKnown
  BY DEF MigrationsInit, AgeKnown
<1>3. LockHeld /\ Progress /\ Settled /\ SettledList /\ OneAge
  BY DEF MigrationsInit, LockHeld, Progress, Settled, SettledList, OneAge, Unseen,
         Locked, UnderLock, Beyond
<1>q. QED  BY <1>1, <1>2, <1>3 DEF StartInv

\* Every step of a start, and a death in the middle of one.
LEMMA StartKeeps ==
  ASSUME StartInv, NEW s \in Servers, Start(s) \/ StartStep(s) \/ Die(s)
  PROVE  StartInv'
<1> USE MigrationsAssumption
<1> USE DEF StartInv, StartTypes, LockHeld, AgeKnown, Progress, Settled, SettledList,
            OneAge, OlderBase, Stages, Locked, UnderLock, Beyond, Reach, Unlock, Unseen, schema
<1>1. CASE Start(s)
  BY <1>1 DEF Start
<1>2. CASE AcquireMigrateLock(s)
  BY <1>2 DEF AcquireMigrateLock, LockFree
<1>3. CASE ReadMade(s)
  <2>0. seen' \in [Servers -> [made : BOOLEAN, named : BOOLEAN]]
    <3>1. seen[s] \in [made : BOOLEAN, named : BOOLEAN]
      OBVIOUS
    <3>2. [seen[s] EXCEPT !.made = (applied = 0)] \in [made : BOOLEAN, named : BOOLEAN]
      BY <3>1
    <3>q. QED  BY <1>3, <3>2 DEF ReadMade
  <2>1. StartTypes'
    BY <1>3, <2>0 DEF ReadMade
  <2>2. LockHeld'
    BY <1>3 DEF ReadMade
  <2>3. AgeKnown'
    BY <1>3 DEF ReadMade
  <2>4. Progress'
    BY <1>3 DEF ReadMade
  <2>5. Settled'
    BY <1>3 DEF ReadMade
  <2>6. SettledList'
    BY <1>3 DEF ReadMade
  <2>7. OneAge'
    BY <1>3 DEF ReadMade
  <2>q. QED  BY <2>1, <2>2, <2>3, <2>4, <2>5, <2>6, <2>7
<1>4. CASE ApplyMigration(s)
  BY <1>4 DEF ApplyMigration
<1>5. CASE Applied(s)
  BY <1>5 DEF Applied
<1>6. CASE ComposeDocuments(s)
  <2>1. StartTypes'
    <3>1. UNCHANGED <<applied, birth>>
      BY <1>6 DEF ComposeDocuments
    <3>2. up' = up \/ up' = [up EXCEPT ![s] = "list"] \/ up' = [up EXCEPT ![s] = "down"]
      BY <1>6 DEF ComposeDocuments
    <3>3. up' \in [Servers -> Stages]
      BY <3>2
    <3>4. \/ UNCHANGED <<holder, seen, model>>
          \/ /\ holder' = holder \/ holder' = None
             /\ seen' = [seen EXCEPT ![s] = Unseen]
             /\ model' = [model EXCEPT ![s] = None]
      BY <1>6 DEF ComposeDocuments
    <3>5. seen' \in [Servers -> [made : BOOLEAN, named : BOOLEAN]]
      <4>1. CASE seen' = seen
        BY <4>1
      <4>2. CASE seen' = [seen EXCEPT ![s] = Unseen]
        BY <4>2
      <4>q. QED  BY <3>4, <4>1, <4>2
    <3>6. model' \in [Servers -> Models \cup {None}]
      BY <3>4
    <3>7. holder' \in Servers \cup {None}
      BY <3>4
    <3>q. QED  BY <3>1, <3>3, <3>5, <3>6, <3>7
  <2>2. LockHeld'
    BY <1>6 DEF ComposeDocuments
  <2>3. AgeKnown'
    BY <1>6 DEF ComposeDocuments
  <2>4. Progress'
    BY <1>6 DEF ComposeDocuments
  <2>5. Settled'
    BY <1>6 DEF ComposeDocuments
  <2>6. SettledList'
    BY <1>6 DEF ComposeDocuments
  <2>7. OneAge'
    BY <1>6 DEF ComposeDocuments
  <2>q. QED  BY <2>1, <2>2, <2>3, <2>4, <2>5, <2>6, <2>7
<1>7. CASE WorkTheList(s)
  BY <1>7 DEF WorkTheList
<1>8. CASE StampBirth(s)
  BY <1>8 DEF StampBirth
<1>9. CASE ChooseModel(s)
  <2>0. seen' \in [Servers -> [made : BOOLEAN, named : BOOLEAN]]
    <3>1. seen[s] \in [made : BOOLEAN, named : BOOLEAN]
      OBVIOUS
    <3>2. /\ [seen[s] EXCEPT !.named = TRUE] \in [made : BOOLEAN, named : BOOLEAN]
          /\ [seen[s] EXCEPT !.named = FALSE] \in [made : BOOLEAN, named : BOOLEAN]
      BY <3>1
    <3>3. \/ seen' = [seen EXCEPT ![s].named = TRUE]
          \/ seen' = [seen EXCEPT ![s].named = FALSE]
          \/ seen' = seen
      BY <1>9, Zenon DEF ChooseModel
    <3>4. CASE seen' = [seen EXCEPT ![s].named = TRUE]
      BY <3>2, <3>4
    <3>5. CASE seen' = [seen EXCEPT ![s].named = FALSE]
      BY <3>2, <3>5
    <3>q. QED  BY <3>3, <3>4, <3>5
  <2>1. StartTypes'
    <3>1. \/ \E m \in Models : model' = [model EXCEPT ![s] = m]
          \/ model' = model
      BY <1>9 DEF ChooseModel
    <3>2. model' \in [Servers -> Models \cup {None}]
      BY <3>1
    <3>q. QED  BY <1>9, <2>0, <3>2 DEF ChooseModel
  <2>2. LockHeld'
    BY <1>9 DEF ChooseModel
  <2>3. AgeKnown'
    BY <1>9 DEF ChooseModel
  <2>4. Progress'
    BY <1>9 DEF ChooseModel
  <2>5. Settled'
    BY <1>9 DEF ChooseModel
  <2>6. SettledList'
    BY <1>9 DEF ChooseModel
  <2>7. OneAge'
    BY <1>9 DEF ChooseModel
  <2>q. QED  BY <2>1, <2>2, <2>3, <2>4, <2>5, <2>6, <2>7
<1>10. CASE AcquireVectorLock(s)
  BY <1>10 DEF AcquireVectorLock, LockFree
<1>11. CASE VectorsUnavailable(s)
  BY <1>11 DEF VectorsUnavailable
<1>12. CASE ResizeVectorSpace(s)
  BY <1>12 DEF ResizeVectorSpace
<1>13. CASE CreateVectorTables(s)
  BY <1>13 DEF CreateVectorTables
<1>14. CASE Die(s)
  BY <1>14 DEF Die
<1>q. QED
  BY <1>1, <1>2, <1>3, <1>4, <1>5, <1>6, <1>7, <1>8, <1>9, <1>10, <1>11, <1>12,
     <1>13, <1>14 DEF StartStep

\* A reembed does not touch the migrations.
LEMMA StartUnchanged == StartInv /\ UNCHANGED migrationVars => StartInv'
BY DEF migrationVars, StartInv, StartTypes, LockHeld, AgeKnown, Progress, Settled,
       SettledList, OneAge, OlderBase

\* A step is of a server that starts or dies, or leaves the schema as it was.
LEMMA StartSteps ==
  [Next]_vars
    => \/ \E s \in Servers : Start(s) \/ StartStep(s) \/ Die(s)
       \/ UNCHANGED migrationVars
BY DEF Next, StartOrDie, EmbeddingStep, vars

\* Every step keeps what starting servers rely on.
LEMMA StartNext == StartInv /\ [Next]_vars => StartInv'
BY StartSteps, StartKeeps, StartUnchanged

\* The first refused batch ends the composing: before it every start goes on.
LEMMA ComposedKeeps ==
  ASSUME BatchesMakeProgress, StartInv, Composed, [Next]_vars
  PROVE  Composed'
<1>1. CASE UNCHANGED migrationVars
  BY <1>1 DEF migrationVars, Composed
<1>2. ASSUME NEW s \in Servers, Start(s) \/ StartStep(s) \/ Die(s)
      PROVE  Composed'
  <2> USE DEF Composed, Reach, Beyond, schema
  <2>0. up \in [Servers -> Stages]
    BY DEF StartInv, StartTypes
  <2>1. CASE ComposeDocuments(s)
    <3> DEFINE converted == Batch(uncomposed) \ Unreadable
    <3>1. \/ up' = up /\ uncomposed' = uncomposed \ converted
          \/ up' = [up EXCEPT ![s] = "list"] /\ uncomposed' = uncomposed /\ converted = {}
          \/ up' = [up EXCEPT ![s] = "down"] /\ uncomposed' \subseteq uncomposed
      BY <2>1 DEF ComposeDocuments, Counts, LastBatch, BatchesMakeProgress
    <3>2. converted = {} => uncomposed \subseteq Unreadable
      BY BatchOfRefusedIsLast
    <3> HIDE DEF converted
    <3>q. QED  BY <2>0, <3>1, <3>2
  <2>2. CASE WorkTheList(s)
    BY <2>0, <2>2 DEF WorkTheList
  <2>3. CASE StampBirth(s)
    BY <2>0, <2>3 DEF StampBirth
  <2>4. CASE ChooseModel(s)
    BY <2>0, <2>4 DEF ChooseModel
  <2>5. CASE AcquireVectorLock(s) \/ VectorsUnavailable(s)
    BY <2>0, <2>5 DEF AcquireVectorLock, VectorsUnavailable
  <2>6. CASE ResizeVectorSpace(s) \/ CreateVectorTables(s)
    BY <2>0, <2>6 DEF ResizeVectorSpace, CreateVectorTables
  <2>7. CASE Start(s) \/ Die(s)
    BY <2>0, <2>7 DEF Start, Die
  <2>8. CASE AcquireMigrateLock(s) \/ ReadMade(s)
    BY <2>0, <2>8 DEF AcquireMigrateLock, ReadMade
  <2>9. CASE ApplyMigration(s) \/ Applied(s)
    BY <2>0, <2>9 DEF ApplyMigration, Applied
  <2>q. QED
    BY <1>2, <2>1, <2>2, <2>3, <2>4, <2>5, <2>6, <2>7, <2>8, <2>9 DEF StartStep
<1>q. QED  BY <1>1, <1>2, StartSteps

-----------------------------------------------------------------------------
(* What is proved of the starts.                                            *)

\* However many servers start, on whatever base, and wherever they die: every one
\* that was left to choose chose the same model (store.PredatesGlobalEmbedding).
THEOREM OneSpace == Spec => []OneSpaceDiscovered
<1>1. Init => StartInv
  BY StartInit DEF Init
<1>2. StartInv => OneSpaceDiscovered
  <2> SUFFICES ASSUME StartInv PROVE OneSpaceDiscovered
    OBVIOUS
  <2> DEFINE chosen == IF OlderBase THEN OlderModel ELSE DefaultModel
  <2>1. discovered \subseteq {chosen}
    BY DEF StartInv, OneAge
  <2> HIDE DEF chosen
  <2>2. Cardinality({chosen}) = 1 /\ IsFiniteSet({chosen})
    BY FS_Singleton
  <2>3. Cardinality(discovered) <= 1
    BY <2>1, <2>2, FS_Subset
  <2>q. QED  BY <2>3 DEF OneSpaceDiscovered
<1>q. QED  BY <1>1, <1>2, StartNext, PTL DEF Spec

\* While batches are counted and fewer rows than a batch are refused, no server
\* serves before the schema is whole, every document that can be composed is, and
\* the work lists are empty, whichever of the starts did each part (store.Migrate).
THEOREM MigratedBeforeServing ==
  ASSUME BatchesMakeProgress
  PROVE  Spec => []ServesMigrated
<1>1. Init => StartInv /\ Composed
  BY StartInit, MigrationsAssumption DEF Init, MigrationsInit, Composed, Beyond
<1>2. StartInv /\ Composed /\ [Next]_vars => (StartInv /\ Composed)'
  BY StartNext, ComposedKeeps
<1>3. StartInv /\ Composed => ServesMigrated
  BY MigrationsAssumption
  DEF StartInv, StartTypes, AgeKnown, Settled, SettledList, Composed, ServesMigrated, Beyond
<1>q. QED  BY <1>1, <1>2, <1>3, PTL DEF Spec

-----------------------------------------------------------------------------
(* A reembed.                                                               *)

\* No pass is under way.
LEMMA PassInit == Init => PassInv
<1> SUFFICES ASSUME Init PROVE PassInv
  OBVIOUS
<1>1. pass = NoPass /\ written = 0
  BY DEF Init
<1>2. NoPass \in Passes
  BY DEF NoPass, Passes, Steps
<1>3. text \in [Objects -> Nat]
  BY DEF Init
<1>4. Attended /\ StillLacking
  BY <1>1 DEF Attended, StillLacking, NoPass
<1>5. InOrder
  BY <1>1 DEF InOrder, Untried, NoPass
<1>q. QED  BY <1>1, <1>2, <1>3, <1>4, <1>5 DEF PassInv, PassTypes

\* Waiting for fewer addresses is all that Wait changes.
LEMMA WaitIs ==
  ASSUME NEW p \in Passes
  PROVE  LET w == Wait(p) IN
         /\ w \in Passes
         /\ w.step = p.step /\ w.by = p.by /\ w.concepts = p.concepts /\ w.from = p.from
         /\ w.queue = p.queue /\ w.tried = p.tried
         /\ w.lacking = {o \in p.lacking : text'[o] # 0 /\ vector'[o].model # model[p.by]}
BY DEF Wait, Passes

\* The list is worked in id order, and the cursor is moved past each concept.
LEMMA SkippedIs ==
  ASSUME pass \in Passes, pass.queue # {}, NEW failed \in BOOLEAN
  PROVE  LET k == Skipped(failed) IN
         /\ k \in Passes
         /\ k.step = "next" /\ k.by = pass.by /\ k.from = pass.from
         /\ k.queue = pass.queue \ {Listed} /\ k.tried = pass.tried \cup {Listed}
         /\ k.lacking = pass.lacking
         /\ k.concepts = IF Listed \in Concepts THEN Listed ELSE pass.concepts
<1> USE EmbeddingsAssumption
<1>1. pass.queue \in SUBSET Objects /\ pass.queue \in SUBSET Nat
  BY DEF Passes
<1>2. Listed \in pass.queue /\ Listed \in Nat /\ Listed \in Objects
  BY <1>1, LeastOf DEF Listed
<1> DEFINE x == Listed
           k == [pass EXCEPT !.step = "next", !.queue = @ \ {x}, !.tried = @ \cup {x}]
<1> HIDE DEF x
<1>3. /\ k \in Passes
      /\ k.step = "next" /\ k.by = pass.by /\ k.from = pass.from
      /\ k.queue = pass.queue \ {x} /\ k.tried = pass.tried \cup {x}
      /\ k.lacking = pass.lacking /\ k.concepts = pass.concepts
  BY <1>2 DEF Passes, Steps, x
<1> HIDE DEF k
<1>4. Skipped(failed) = Past(k, x, failed)
  BY DEF Skipped, k, x
<1>5. CASE x \in Concepts
  <2>1. Skipped(failed) = [k EXCEPT !.concepts = x]
    BY <1>4, <1>5 DEF Past
  <2>q. QED  BY <1>2, <1>3, <1>5, <2>1 DEF Passes, x
<1>6. CASE x \notin Concepts
  <2>1. Skipped(failed) = k \/ Skipped(failed) = [k EXCEPT !.files = x]
    BY <1>4, <1>6 DEF Past
  <2>q. QED  BY <1>2, <1>3, <1>6, <2>1 DEF Passes, x
<1>q. QED  BY <1>5, <1>6

\* Taking one object off the list, and waiting for fewer, keeps the order.
LEMMA SkipKeepsOrder ==
  ASSUME pass \in Passes, pass' \in Passes, InOrder, NEW failed \in BOOLEAN,
         pass.step \in {"next", "store"}, pass.queue # {},
         LET k == Skipped(failed) IN
           /\ pass'.step = k.step /\ pass'.from = k.from /\ pass'.concepts = k.concepts
           /\ pass'.queue = k.queue /\ pass'.tried = k.tried /\ pass'.lacking \subseteq k.lacking
  PROVE  InOrder'
<1> USE EmbeddingsAssumption
<1>1. pass.queue \in SUBSET Nat
  BY DEF Passes
<1> DEFINE x == Listed
<1>2. x \in pass.queue /\ x \in Nat /\ \A y \in pass.queue : x <= y
  BY <1>1, LeastOf DEF Listed
<1> HIDE DEF x
<1>3. /\ pass'.step = "next" /\ pass'.from = pass.from
      /\ pass'.queue = pass.queue \ {x} /\ pass'.tried = pass.tried \cup {x}
      /\ pass'.lacking \subseteq pass.lacking
      /\ pass'.concepts = IF x \in Concepts THEN x ELSE pass.concepts
  BY SkippedIs DEF x
<1>4. Untried' \subseteq Untried \ {x}
  BY <1>3 DEF Untried
<1>5. /\ pass.from[1] \in Nat /\ pass.concepts \in Nat
      /\ Untried \subseteq Nat
  BY DEF Passes, Untried, Objects
<1>6. /\ pass.from[1] <= pass.concepts
      /\ \A o \in Untried : pass.concepts < o
      /\ \A q \in pass.queue \cap Concepts : pass.concepts < q
      /\ \A o \in Untried \ pass.queue :
           /\ pass.from[1] < pass.concepts \/ pass.queue \cap Concepts # {}
           /\ \A q \in pass.queue \cap Concepts : q < o
  BY DEF InOrder
<1>7. CASE x \in Concepts
  <2>1. pass.concepts < x /\ pass'.concepts = x
    BY <1>2, <1>3, <1>6, <1>7
  <2>2. ASSUME NEW o \in Untried' PROVE x < o
    <3>1. o \in Untried /\ o # x /\ o \in Nat
      BY <1>4, <1>5, <2>2
    <3>2. CASE o \in pass.queue
      BY <1>2, <3>1, <3>2
    <3>3. CASE o \notin pass.queue
      BY <1>2, <1>6, <1>7, <3>1, <3>3
    <3>q. QED  BY <3>2, <3>3
  <2>3. ASSUME NEW q \in pass'.queue \cap Concepts PROVE x < q
    BY <1>1, <1>2, <1>3, <2>3
  <2>4. ASSUME NEW o \in Untried' \ pass'.queue, NEW q \in pass'.queue \cap Concepts
        PROVE  q < o
    BY <1>3, <1>4, <1>6, <2>4
  <2>5. pass'.from[1] < pass'.concepts
    BY <1>2, <1>3, <1>5, <1>6, <2>1
  <2>q. QED  BY <1>2, <1>3, <1>5, <2>1, <2>2, <2>3, <2>4, <2>5 DEF InOrder
<1>8. CASE x \notin Concepts
  <2>1. pass'.concepts = pass.concepts /\ pass'.queue \cap Concepts = pass.queue \cap Concepts
    BY <1>3, <1>8
  <2>2. Untried' \ pass'.queue \subseteq Untried \ pass.queue
    BY <1>3, <1>4
  <2>q. QED  BY <1>3, <1>4, <1>6, <2>1, <2>2 DEF InOrder
<1>q. QED  BY <1>7, <1>8

\* Fewer addresses waited for, and nothing else, keeps the order.
LEMMA WaitKeepsOrder ==
  ASSUME pass \in Passes, InOrder, pass' = Wait(pass)
  PROVE  InOrder'
<1>1. /\ pass'.step = pass.step /\ pass'.from = pass.from /\ pass'.concepts = pass.concepts
      /\ pass'.queue = pass.queue /\ pass'.tried = pass.tried
      /\ pass'.lacking \subseteq pass.lacking
  BY WaitIs
<1>2. Untried' \subseteq Untried
  BY <1>1 DEF Untried
<1>q. QED  BY <1>1, <1>2 DEF InOrder

\* What stays lacking is what has no vector now.
LEMMA WaitKeepsLacking ==
  ASSUME pass \in Passes, NEW p \in Passes, pass' = Wait(p), p.by = pass.by,
         p.lacking = pass.lacking, UNCHANGED model
  PROVE  StillLacking'
<1>1. /\ pass'.by = pass.by
      /\ pass'.lacking = {o \in pass.lacking : text'[o] # 0 /\ vector'[o].model # model[pass.by]}
  BY WaitIs
<1>2. pass.lacking \subseteq Objects
  BY DEF Passes
<1>q. QED  BY <1>1, <1>2 DEF StillLacking, Unembedded, Live

-----------------------------------------------------------------------------
(* Each step keeps the order of a reembed.                                  *)

\* Steps of others, and the vectors of writes.
LEMMA OthersKeep ==
  ASSUME StartInv, PassInv, UNCHANGED migrationVars,
         \/ \E s \in Servers, o \in Objects : Write(s, o)
         \/ \E s \in Servers : \E o, p \in Concepts : Move(s, o, p)
         \/ \E w \in writing : StoreVector(w) \/ EmbeddingFails(w)
         \/ \E o \in Objects : Delete(o)
  PROVE  PassInv'
<1> USE EmbeddingsAssumption DEF PassInv, PassTypes
<1>1. /\ UNCHANGED <<up, model>>
  BY DEF migrationVars
<1>2. ASSUME NEW s \in Servers, NEW o \in Objects, Write(s, o) PROVE PassInv'
  <2>1. /\ UNCHANGED <<pass, vector>> /\ written' = written + 1
        /\ text' = [text EXCEPT ![o] = written + 2]
    BY <1>2 DEF Write, Fresh
  <2>2. StillLacking'
    <3>1. \A q \in Objects : text[q] # 0 => text'[q] # 0
      BY <2>1
    <3>q. QED  BY <1>1, <2>1, <3>1 DEF StillLacking, Unembedded, Live
  <2>q. QED  BY <1>1, <2>1, <2>2 DEF Attended, Serving, InOrder, Untried
<1>3. ASSUME NEW w \in writing, EmbeddingFails(w) PROVE PassInv'
  BY <1>1, <1>3 DEF EmbeddingFails, Attended, Serving, StillLacking, Unembedded, Live,
                    InOrder, Untried
<1>4. CASE \/ \E s \in Servers : \E o, p \in Concepts : Move(s, o, p)
           \/ \E w \in writing : StoreVector(w)
           \/ \E o \in Objects : Delete(o)
  <2>1. /\ pass' = Wait(pass)
        /\ written' \in Nat
        /\ text' \in [Objects -> Nat]
    BY <1>4 DEF Move, StoreVector, Delete, Fresh, Objects
  <2>2. InOrder' /\ StillLacking'
    BY <1>1, <2>1, WaitKeepsOrder, WaitKeepsLacking
  <2>3. Attended'
    <3>1. pass'.by = pass.by /\ pass' \in Passes
      BY <2>1, WaitIs
    <3>2. CASE pass.by = None
      <4>1. pass = NoPass /\ pass.lacking = {}
        BY <3>2 DEF Attended, NoPass
      <4>2. pass' = [pass EXCEPT !.lacking = {}]
        BY <2>1, <4>1 DEF Wait
      <4>3. pass' = NoPass
        BY <4>1, <4>2 DEF NoPass
      <4>q. QED  BY <3>1, <3>2, <4>3 DEF Attended
    <3>3. CASE pass.by # None
      BY <1>1, <3>1, <3>3 DEF Attended, Serving
    <3>q. QED  BY <3>2, <3>3
  <2>q. QED  BY <2>1, <2>2, <2>3, WaitIs
<1>q. QED  BY <1>2, <1>3, <1>4

\* The command's own steps.
LEMMA CommandKeeps ==
  ASSUME StartInv, PassInv, UNCHANGED migrationVars,
         \/ \E s \in Servers : BeginReembed(s)
         \/ ListConcepts \/ ListFiles \/ Take \/ Disappeared \/ Refused \/ StoreNext
         \/ Count \/ EndReembed
  PROVE  PassInv'
<1> USE EmbeddingsAssumption DEF PassInv, PassTypes
<1>1. UNCHANGED <<up, model>>
  BY DEF migrationVars
<1>2. ASSUME NEW s \in Servers, BeginReembed(s) PROVE PassInv'
  <2>1. Unembedded(model[s]) \in SUBSET Objects
    BY DEF Unembedded
  <2> DEFINE lack == Unembedded(model[s])
  <2> HIDE DEF lack
  <2>2. /\ pass' = [NoPass EXCEPT !.step = "listConcepts", !.by = s, !.lacking = lack]
        /\ UNCHANGED <<text, written, vector>> /\ Serving(s)
    BY <1>2 DEF BeginReembed, lack
  <2>3. /\ pass' \in Passes /\ pass'.by = s /\ pass'.lacking = lack /\ pass'.tried = {}
        /\ pass'.step = "listConcepts" /\ pass'.concepts = 0 /\ pass'.from = <<0, 0>>
    BY <2>1, <2>2 DEF NoPass, Passes, Steps, lack
  <2>4. Attended' /\ StillLacking'
    BY <1>1, <2>2, <2>3, MigrationsAssumption
    DEF Attended, Serving, StillLacking, Unembedded, Live, lack
  <2>5. \A o \in Concepts : o \in Nat /\ 0 < o
    BY DEF Objects
  <2>6. InOrder'
    BY <2>3, <2>5 DEF InOrder, Untried
  <2>q. QED  BY <2>2, <2>3, <2>4, <2>6
<1>3. CASE ListConcepts
  <2> DEFINE listing == Unembedded(model[pass.by]) \cap Concepts
             ahead == {o \in listing : o > pass.concepts}
             q == Page(listing, pass.concepts, PassLimit)
  <2>1. /\ ahead \in SUBSET Nat /\ IsFiniteSet(ahead) /\ ahead \subseteq Concepts
        /\ q = First(ahead, PassLimit)
    <3>1. ahead \subseteq Objects /\ Objects \subseteq Nat
      BY DEF Objects
    <3>2. IsFiniteSet(ahead)
      BY <3>1, FS_Subset
    <3>q. QED  BY <3>1, <3>2 DEF Page
  <2>2. q \subseteq ahead /\ IsFiniteSet(q) /\ Cardinality(q) \in Nat
    BY <2>1, FS_Subset, FS_CardinalityType DEF First
  <2>3. \A o \in ahead \ q, i \in q : i < o
    BY <2>1, FirstInOrder
  <2>4. ahead # {} => q # {}
    BY <2>1, FirstSome
  <2>5. Untried \subseteq ahead
    <3>1. pass.by # None
      BY <1>3 DEF ListConcepts, Attended, NoPass
    <3>2. Untried \subseteq listing
      BY <3>1 DEF Untried, StillLacking
    <3>q. QED  BY <3>2 DEF InOrder, Passes, Objects, Untried
  <2>6. \A i \in q : pass.concepts < i
    BY <2>2 DEF Passes
  <2>7. /\ pass' = [pass EXCEPT !.step = "next", !.queue = q, !.took = Cardinality(q)]
        /\ UNCHANGED <<text, written, vector>> /\ pass.step = "listConcepts"
    BY <1>3 DEF ListConcepts
  <2> HIDE DEF q, ahead, listing
  <2>8. /\ pass' \in Passes /\ pass'.step = "next" /\ pass'.queue = q
        /\ pass'.by = pass.by /\ pass'.from = pass.from /\ pass'.concepts = pass.concepts
        /\ pass'.tried = pass.tried /\ pass'.lacking = pass.lacking
    BY <2>1, <2>2, <2>7 DEF Passes, Steps, Objects
  <2>9. Untried' = Untried
    BY <2>8 DEF Untried
  <2>10. InOrder'
    <3>1. pass.from[1] <= pass.concepts /\ \A o \in Untried : pass.concepts < o
      BY DEF InOrder
    <3>2. q \cap Concepts = q
      BY <2>1, <2>2
    <3>3. \A o \in Untried \ q : q # {} /\ \A i \in q : i < o
      BY <2>3, <2>4, <2>5
    <3>q. QED  BY <2>6, <2>8, <2>9, <3>1, <3>2, <3>3 DEF InOrder
  <2>11. Attended' /\ StillLacking'
    BY <1>1, <2>7, <2>8 DEF Attended, Serving, StillLacking, Unembedded, Live, NoPass
  <2>q. QED  BY <2>7, <2>8, <2>10, <2>11
<1>4. CASE ListFiles
  <2> DEFINE left == PassLimit - pass.took
             q == Page(Unembedded(model[pass.by]) \cap Files, pass.files, left)
  <2>1. q \subseteq Files
    BY DEF Page, First
  <2>2. /\ pass' = [pass EXCEPT !.queue = q, !.took = PassLimit]
        /\ UNCHANGED <<text, written, vector>> /\ pass.step = "next" /\ pass.queue = {}
    BY <1>4 DEF ListFiles
  <2> HIDE DEF q
  <2>3. /\ pass' \in Passes /\ pass'.step = "next" /\ pass'.queue = q
        /\ pass'.by = pass.by /\ pass'.from = pass.from /\ pass'.concepts = pass.concepts
        /\ pass'.tried = pass.tried /\ pass'.lacking = pass.lacking
    BY <2>1, <2>2 DEF Passes, Objects
  <2>4. Untried' = Untried /\ pass'.queue \cap Concepts = {}
    BY <2>1, <2>3 DEF Untried
  <2>5. InOrder'
    BY <2>2, <2>3, <2>4 DEF InOrder
  <2>6. Attended' /\ StillLacking'
    BY <1>1, <2>2, <2>3 DEF Attended, Serving, StillLacking, Unembedded, Live, NoPass
  <2>q. QED  BY <2>2, <2>3, <2>5, <2>6
<1>5. CASE Take
  <2>1. /\ pass' = [pass EXCEPT !.step = "store", !.text = text[Listed]]
        /\ UNCHANGED <<text, written, vector>> /\ pass.step = "next" /\ pass.queue # {}
    BY <1>5 DEF Take
  <2>2. text[Listed] \in Nat
    <3>1. pass.queue \in SUBSET Objects /\ pass.queue \in SUBSET Nat
      BY DEF Passes
    <3>2. Listed \in Objects
      BY <2>1, <3>1, LeastOf DEF Listed
    <3>q. QED  BY <3>2
  <2>3. /\ pass' \in Passes /\ pass'.step = "store" /\ pass'.queue = pass.queue
        /\ pass'.by = pass.by /\ pass'.from = pass.from /\ pass'.concepts = pass.concepts
        /\ pass'.tried = pass.tried /\ pass'.lacking = pass.lacking
    BY <2>1, <2>2 DEF Passes, Steps
  <2>4. Untried' = Untried
    BY <2>3 DEF Untried
  <2>5. InOrder'
    BY <2>1, <2>3, <2>4 DEF InOrder
  <2>6. Attended' /\ StillLacking'
    BY <1>1, <2>1, <2>3 DEF Attended, Serving, StillLacking, Unembedded, Live, NoPass
  <2>q. QED  BY <2>1, <2>3, <2>5, <2>6
<1>6. CASE Disappeared \/ Refused \/ StoreNext
  <2>1. /\ UNCHANGED <<text, written>> /\ pass.step \in {"next", "store"} /\ pass.queue # {}
        /\ \E failed \in BOOLEAN :
             \/ pass' = Skipped(failed) /\ UNCHANGED vector
             \/ pass' = Wait(Skipped(failed))
    <3>1. CASE Disappeared
      BY <3>1 DEF Disappeared
    <3>2. CASE Refused
      <4>1. (Listed \in Concepts) \in BOOLEAN
        OBVIOUS
      <4>q. QED  BY <3>2, <4>1 DEF Refused, InOrder
    <3>3. CASE StoreNext
      <4>1. (Listed \in Concepts /\ ~Fits(model[pass.by])) \in BOOLEAN
        OBVIOUS
      <4>q. QED  BY <3>3, <4>1 DEF StoreNext, InOrder
    <3>q. QED  BY <1>6, <3>1, <3>2, <3>3
  <2>2. PICK failed \in BOOLEAN :
             \/ pass' = Skipped(failed) /\ UNCHANGED vector
             \/ pass' = Wait(Skipped(failed))
    BY <2>1
  <2> DEFINE k == Skipped(failed)
  <2>3. /\ k \in Passes
        /\ k.step = "next" /\ k.by = pass.by /\ k.lacking = pass.lacking
    BY <2>1, SkippedIs
  <2> HIDE DEF k
  <2>4. /\ pass' \in Passes
        /\ pass'.step = k.step /\ pass'.by = k.by /\ pass'.from = k.from
        /\ pass'.concepts = k.concepts /\ pass'.queue = k.queue /\ pass'.tried = k.tried
        /\ pass'.lacking \subseteq k.lacking
    BY <2>2, <2>3, WaitIs DEF k
  <2>5. InOrder'
    BY <2>1, <2>4, SkipKeepsOrder DEF k
  <2>6. pass.by # None
    BY <2>1 DEF Attended, NoPass
  <2>7. StillLacking'
    <3>1. CASE pass' = k /\ UNCHANGED vector
      BY <1>1, <2>1, <2>3, <2>6, <3>1 DEF StillLacking, Unembedded, Live
    <3>2. CASE pass' = Wait(k)
      BY <1>1, <2>3, <3>2, WaitKeepsLacking
    <3>q. QED  BY <2>2, <3>1, <3>2 DEF k
  <2>8. Attended'
    BY <1>1, <2>3, <2>4, <2>6 DEF Attended, Serving
  <2>q. QED  BY <2>1, <2>4, <2>5, <2>7, <2>8
<1>7. CASE Count
  <2>1. /\ UNCHANGED <<text, written, vector>> /\ pass.step = "next" /\ pass.queue = {}
        /\ \/ Unembedded(model[pass.by]) = {} /\ pass' = [pass EXCEPT !.step = "done"]
           \/ /\ <<pass.concepts, pass.files>> = pass.from
              /\ pass' = [pass EXCEPT !.step = "stopped"]
           \/ pass' = [pass EXCEPT !.step = "listConcepts",
                                   !.from = <<pass.concepts, pass.files>>]
    BY <1>7 DEF Count
  <2>2. pass.by # None
    BY <2>1 DEF Attended, NoPass
  <2>3. /\ pass' \in Passes /\ pass'.queue = pass.queue
        /\ pass'.by = pass.by /\ pass'.concepts = pass.concepts
        /\ pass'.tried = pass.tried /\ pass'.lacking = pass.lacking
    <3> DEFINE cursor == <<pass.concepts, pass.files>>
    <3>1. cursor \in Nat \X Nat
      BY DEF Passes
    <3> HIDE DEF cursor
    <3>2. \/ pass' = [pass EXCEPT !.step = "done"]
          \/ pass' = [pass EXCEPT !.step = "stopped"]
          \/ pass' = [pass EXCEPT !.step = "listConcepts", !.from = cursor]
      BY <2>1, Zenon DEF cursor
    <3>3. CASE pass' = [pass EXCEPT !.step = "done"]
      BY <3>3 DEF Passes, Steps
    <3>4. CASE pass' = [pass EXCEPT !.step = "stopped"]
      BY <3>4 DEF Passes, Steps
    <3>5. CASE pass' = [pass EXCEPT !.step = "listConcepts", !.from = cursor]
      BY <3>1, <3>5 DEF Passes, Steps
    <3>q. QED  BY <3>2, <3>3, <3>4, <3>5
  <2>4. Untried' = Untried
    BY <2>3 DEF Untried
  <2>5. \A o \in Untried : pass.from[1] < pass.concepts
    BY <2>1 DEF InOrder
  <2>6. InOrder'
    <3>1. CASE Unembedded(model[pass.by]) = {} /\ pass' = [pass EXCEPT !.step = "done"]
      <4>1. Untried = {}
        BY <2>2, <3>1 DEF Untried, StillLacking
      <4>2. pass'.step = "done" /\ pass'.from = pass.from
        BY <3>1 DEF Passes
      <4>q. QED  BY <2>3, <2>4, <4>1, <4>2 DEF InOrder
    <3>2. CASE /\ <<pass.concepts, pass.files>> = pass.from
               /\ pass' = [pass EXCEPT !.step = "stopped"]
      <4>1. pass.from[1] = pass.concepts /\ pass.concepts \in Nat
        BY <3>2 DEF Passes
      <4>2. Untried = {}
        BY <2>5, <4>1
      <4>3. pass'.step = "stopped" /\ pass'.from = pass.from
        BY <3>2 DEF Passes
      <4>q. QED  BY <2>3, <2>4, <4>2, <4>3 DEF InOrder
    <3>3. CASE pass' = [pass EXCEPT !.step = "listConcepts",
                                    !.from = <<pass.concepts, pass.files>>]
      <4>1. /\ pass'.step = "listConcepts" /\ pass'.from = <<pass.concepts, pass.files>>
            /\ pass.concepts \in Nat
        BY <3>3 DEF Passes
      <4>q. QED  BY <2>3, <2>4, <4>1 DEF InOrder
    <3>q. QED  BY <2>1, <3>1, <3>2, <3>3
  <2>7. Attended' /\ StillLacking'
    BY <1>1, <2>1, <2>2, <2>3 DEF Attended, Serving, StillLacking, Unembedded, Live
  <2>q. QED  BY <2>1, <2>3, <2>6, <2>7
<1>8. CASE EndReembed
  <2>1. pass' = NoPass /\ UNCHANGED <<text, written>>
    BY <1>8 DEF EndReembed
  <2>2. NoPass \in Passes
    BY DEF NoPass, Passes, Steps
  <2>3. Attended' /\ StillLacking' /\ InOrder'
    BY <2>1 DEF Attended, StillLacking, InOrder, Untried, NoPass
  <2>q. QED  BY <2>1, <2>2, <2>3
<1>q. QED  BY <1>2, <1>3, <1>4, <1>5, <1>6, <1>7, <1>8

\* A server that serves stays as it is until it dies, and its command with it.
LEMMA StartOrDieKeepsPass ==
  ASSUME StartInv, PassInv, StartOrDie
  PROVE  PassInv'
<1> USE DEF PassInv, PassTypes
<1>1. UNCHANGED <<text, written>>
  BY DEF StartOrDie
<1>2. CASE pass' = NoPass
  <2>1. NoPass \in Passes
    BY DEF NoPass, Passes, Steps
  <2>2. Attended' /\ StillLacking' /\ InOrder'
    BY <1>2 DEF Attended, StillLacking, InOrder, Untried, NoPass
  <2>q. QED  BY <1>1, <1>2, <2>1, <2>2
<1>3. CASE pass' = pass
  <2>1. InOrder'
    BY <1>3 DEF InOrder, Untried
  <2>2. CASE pass.by = None
    BY <1>1, <1>3, <2>1, <2>2 DEF Attended, StillLacking
  <2>3. CASE pass.by # None
    <3>1. /\ pass.by \in Servers /\ up[pass.by] = "serve" /\ model[pass.by] # None
          /\ pass.lacking \subseteq Unembedded(model[pass.by])
      BY <2>3 DEF Attended, Serving, StillLacking
    <3>2. up'[pass.by] # "down" \/ pass' = NoPass
      BY <2>3 DEF StartOrDie
    <3>3. /\ up'[pass.by] = "serve" /\ model'[pass.by] = model[pass.by]
      <4>1. up'[pass.by] # "down"
        BY <1>3, <2>3, <3>2 DEF NoPass
      <4>2. PICK s \in Servers : Start(s) \/ StartStep(s) \/ Die(s)
        BY DEF StartOrDie
      <4>3. up \in [Servers -> Stages] /\ model \in [Servers -> Models \cup {None}]
        BY DEF StartInv, StartTypes
      <4>4. s # pass.by
        BY <3>1, <4>1, <4>2, <4>3
        DEF Start, Die, StartStep, AcquireMigrateLock, ReadMade, ApplyMigration, Applied,
            ComposeDocuments, WorkTheList, StampBirth, ChooseModel, AcquireVectorLock,
            VectorsUnavailable, ResizeVectorSpace, CreateVectorTables, Reach
      <4>5. /\ \A t \in Servers \ {s} : up'[t] = up[t] /\ model'[t] = model[t]
        BY <4>2, <4>3
        DEF Start, Die, StartStep, AcquireMigrateLock, ReadMade, ApplyMigration, Applied,
            ComposeDocuments, WorkTheList, StampBirth, ChooseModel, AcquireVectorLock,
            VectorsUnavailable, ResizeVectorSpace, CreateVectorTables, Reach
      <4>q. QED  BY <3>1, <4>4, <4>5
    <3>4. vector' = vector \/ vector' = [o \in Objects |-> NoVector]
      BY DEF StartOrDie
    <3>5. StillLacking'
      BY <1>1, <1>3, <3>1, <3>3, <3>4 DEF StillLacking, Unembedded, Live, NoVector
    <3>6. Attended'
      BY <1>3, <2>3, <3>1, <3>3 DEF Attended, Serving
    <3>q. QED  BY <1>1, <1>3, <2>1, <3>5, <3>6
  <2>q. QED  BY <2>2, <2>3
<1>q. QED  BY <1>2, <1>3 DEF StartOrDie

\* Every step keeps what a reembed has still to come to.
LEMMA PassNext == StartInv /\ PassInv /\ [Next]_vars => PassInv'
<1> SUFFICES ASSUME StartInv, PassInv, [Next]_vars PROVE PassInv'
  OBVIOUS
<1>1. CASE StartOrDie
  BY <1>1, StartOrDieKeepsPass
<1>2. CASE EmbeddingStep
  BY <1>2, OthersKeep, CommandKeeps DEF EmbeddingStep
<1>3. CASE UNCHANGED vars
  BY <1>3 DEF vars, migrationVars, embeddingVars, PassInv, PassTypes, Attended, Serving,
              StillLacking, Unembedded, Live, InOrder, Untried
<1>q. QED  BY <1>1, <1>2, <1>3 DEF Next

\* Whoever writes, moves, deletes, starts or dies meanwhile, and whatever the provider
\* refuses: a reembed that ends has come to every concept that lacked a vector all
\* the while (service.Reembed).
THEOREM NoConceptIsStranded == Spec => []EveryConceptGetsATurn
<1>1. Init => StartInv /\ PassInv
  BY StartInit, PassInit DEF Init
<1>2. StartInv /\ PassInv /\ [Next]_vars => (StartInv /\ PassInv)'
  BY StartNext, PassNext
<1>3. PassInv => EveryConceptGetsATurn
  BY DEF PassInv, InOrder, Untried, EveryConceptGetsATurn
<1>q. QED  BY <1>1, <1>2, <1>3, PTL DEF Spec

=============================================================================
