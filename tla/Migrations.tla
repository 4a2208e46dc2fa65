----------------------------- MODULE Migrations -----------------------------
(***************************************************************************)
(* How servers of one release start on one database                         *)
(* (internal/store/migrate.go, cmd/ochakai/main.go newService): the          *)
(* versioned migrations and the backfills under a session advisory lock, the *)
(* record of when the base was seen, the embedding model that record        *)
(* decides, and the tables vectors are kept in.  A server may die anywhere  *)
(* and start again under another configuration; its session lock ends with  *)
(* it.  Each statement, or transaction, is a step.                          *)
(***************************************************************************)
EXTENDS Integers, FiniteSetsExt

CONSTANTS
  Servers,        \* processes of this release
  None,           \* no server, no model, no record yet
  Newest,         \* the number of the newest migration file
  BirthRecorded,  \* the number of the file that made base_birth
  Found,          \* how many migrations a base may hold when first met
  Rows,           \* stored rows an older base holds, as naturals: ids in order
  Unreadable,     \* the rows among them no document can be composed of
  BackfillBatch,  \* backfillBatch
  CountMayFail,   \* whether the query that counts what a batch converted may fail
  Models,         \* embedding models a deployment can name
  OlderModel,     \* regionalEmbeddingModel
  DefaultModel,   \* defaultEmbeddingModel
  Dim,            \* the vector width of each model
  MaxStarts       \* bound: starts in a behaviour

ASSUME MigrationsAssumption ==
  /\ Newest \in Nat \ {0} /\ BirthRecorded \in 1..Newest
  /\ Found \subseteq 0..Newest
  /\ Rows \subseteq Nat /\ IsFiniteSet(Rows) /\ Unreadable \subseteq Rows
  /\ BackfillBatch \in Nat \ {0} /\ CountMayFail \in BOOLEAN
  /\ {OlderModel, DefaultModel} \subseteq Models
  /\ Dim \in [Models -> Nat \ {0}]
  /\ None \notin Servers \cup Models \cup Nat
  /\ MaxStarts \in Nat

VARIABLES
  applied,     \* schema_migrations: how many of the files, in order
  birth,       \* base_birth.migration
  uncomposed,  \* rows whose doc is still ''
  listed,      \* rows on the work lists of the other backfills
  width,       \* width of the vector columns, 0 without the tables
  holder,      \* the session holding the migration lock
  up,          \* where each server is in its start
  seen,        \* whether the server found schema_migrations empty, and whether
               \* its model was named
  model,       \* the model each server embeds with
  discovered,  \* history: the models servers chose because none was named
  starts       \* starts so far

schema == <<applied, birth, uncomposed, listed, width>>
migrationVars == <<applied, birth, uncomposed, listed, width, holder, up, seen,
                   model, discovered, starts>>

-----------------------------------------------------------------------------
\* The first rows in id order: ORDER BY ... LIMIT.
First(rows, limit) == {i \in rows : Cardinality({j \in rows : j <= i}) <= limit}
Batch(rows) == First(rows, BackfillBatch)

Reach(s, stage) == up' = [up EXCEPT ![s] = stage]
Unseen == [made |-> FALSE, named |-> FALSE]

\* Mutant: nothing keeps two starts apart.
LockFreeAlways == TRUE
LockFree == holder = None

\* The lock is a session's: it ends with the server as well.
Unlock(s) == holder' = IF holder = s THEN None ELSE holder

-----------------------------------------------------------------------------
(* The schema, under the lock.                                              *)
Start(s) ==
  /\ up[s] = "down" /\ starts < MaxStarts
  /\ starts' = starts + 1
  /\ Reach(s, "lock")
  /\ UNCHANGED <<schema, holder, seen, model, discovered>>

AcquireMigrateLock(s) ==
  /\ up[s] = "lock" /\ LockFree
  /\ holder' = s
  /\ Reach(s, "made")
  /\ UNCHANGED <<schema, seen, model, discovered, starts>>

\* Read before anything is applied.
ReadMade(s) ==
  /\ up[s] = "made"
  /\ seen' = [seen EXCEPT ![s].made = (applied = 0)]
  /\ Reach(s, "apply")
  /\ UNCHANGED <<schema, holder, model, discovered, starts>>

\* One file and its version, in one transaction.  base_birth is created holding
\* the newest version recorded before it.
ApplyMigration(s) ==
  /\ up[s] = "apply" /\ applied < Newest
  /\ applied' = applied + 1
  /\ birth' = IF applied' = BirthRecorded THEN applied ELSE birth
  /\ UNCHANGED <<uncomposed, listed, width, holder, up, seen, model, discovered,
                 starts>>

Applied(s) ==
  /\ up[s] = "apply" /\ applied = Newest
  /\ Reach(s, "compose")
  /\ UNCHANGED <<schema, holder, seen, model, discovered, starts>>

\* Mutant: a batch that was not converted whole is taken for the last one.
LastBatchShort(converted) == Cardinality(converted) < BackfillBatch
LastBatch(converted) == converted = {}
\* anyConverted: whether the count is answered.
Counts == IF CountMayFail THEN BOOLEAN ELSE {TRUE}

\* backfillDocuments: a batch is the first rows without a document; the ones the
\* renderer refuses stay, and a batch that converts nothing ends the loop, as
\* does one whose conversions could not be counted.  The server may die after
\* any of the batch's updates: done is what it had updated.
ComposeDocuments(s) ==
  /\ up[s] = "compose"
  /\ LET converted == Batch(uncomposed) \ Unreadable
     IN \/ /\ uncomposed' = uncomposed \ converted
           /\ \E counted \in Counts :
                IF counted => LastBatch(converted) THEN Reach(s, "list")
                ELSE UNCHANGED up
           /\ UNCHANGED <<holder, seen, model>>
        \/ \E done \in SUBSET converted :
             /\ uncomposed' = uncomposed \ done
             /\ Unlock(s) /\ Reach(s, "down")
             /\ seen' = [seen EXCEPT ![s] = Unseen]
             /\ model' = [model EXCEPT ![s] = None]
  /\ UNCHANGED <<applied, birth, listed, width, discovered, starts>>

\* backfillLinkForms, backfillFrontmatter: the batch leaves the work list after
\* its rows are written, the refused ones with it.
WorkTheList(s) ==
  /\ up[s] = "list"
  /\ listed' = listed \ Batch(listed)
  /\ IF listed = {} THEN Reach(s, "stamp") ELSE UNCHANGED up
  /\ UNCHANGED <<applied, birth, uncomposed, width, holder, seen, model,
                 discovered, starts>>

\* Only a base this call made from nothing is as new as this release.
StampBirth(s) ==
  /\ up[s] = "stamp"
  /\ birth' = IF seen[s].made THEN Newest ELSE birth
  /\ Unlock(s)
  /\ Reach(s, "choose")
  /\ seen' = [seen EXCEPT ![s] = Unseen]
  /\ UNCHANGED <<applied, uncomposed, listed, width, model, discovered,
                 starts>>

-----------------------------------------------------------------------------
(* The model, and the tables its vectors go to.                             *)

\* PredatesGlobalEmbedding
OlderBase == birth < BirthRecorded

\* semanticSearch: the model named, the one the base's age decides, or none when
\* embeddings are off or the probe of a discovered model gets no answer.
ChooseModel(s) ==
  /\ up[s] = "choose"
  /\ \/ \E m \in Models :
          /\ model' = [model EXCEPT ![s] = m]
          /\ seen' = [seen EXCEPT ![s].named = TRUE]
          /\ Reach(s, "vectors")
          /\ UNCHANGED discovered
     \/ LET m == IF OlderBase THEN OlderModel ELSE DefaultModel
        IN /\ model' = [model EXCEPT ![s] = m]
           /\ seen' = [seen EXCEPT ![s].named = FALSE]
           /\ discovered' = discovered \cup {m}
           /\ Reach(s, "vectors")
     \/ Reach(s, "serve") /\ UNCHANGED <<model, seen, discovered>>
  /\ UNCHANGED <<schema, holder, starts>>

\* MigrateEmbedding, under the lock again.
AcquireVectorLock(s) ==
  /\ up[s] = "vectors" /\ LockFree
  /\ holder' = s
  /\ Reach(s, "resize")
  /\ UNCHANGED <<schema, seen, model, discovered, starts>>

Widens(s) == width # 0 /\ width # Dim[model[s]]

\* The database cannot hold vectors: a model nobody named is given up.
VectorsUnavailable(s) ==
  /\ up[s] = "resize" /\ ~seen[s].named
  /\ model' = [model EXCEPT ![s] = None]
  /\ Unlock(s)
  /\ Reach(s, "serve")
  /\ UNCHANGED <<schema, seen, discovered, starts>>

\* resizeVectorSpace: the tables of another width are dropped.
ResizeVectorSpace(s) ==
  /\ up[s] = "resize"
  /\ width' = IF Widens(s) THEN 0 ELSE width
  /\ Reach(s, "tables")
  /\ UNCHANGED <<applied, birth, uncomposed, listed, holder, seen, model,
                 discovered, starts>>

CreateVectorTables(s) ==
  /\ up[s] = "tables"
  /\ width' = IF width = 0 THEN Dim[model[s]] ELSE width
  /\ Unlock(s)
  /\ Reach(s, "serve")
  /\ seen' = [seen EXCEPT ![s] = Unseen]
  /\ UNCHANGED <<applied, birth, uncomposed, listed, model, discovered, starts>>

Die(s) ==
  /\ up[s] # "down"
  /\ Reach(s, "down")
  /\ Unlock(s)
  /\ seen' = [seen EXCEPT ![s] = Unseen]
  /\ model' = [model EXCEPT ![s] = None]
  /\ UNCHANGED <<schema, discovered, starts>>

-----------------------------------------------------------------------------
MigrationsInit ==
  /\ applied \in Found
  /\ birth \in IF applied < BirthRecorded THEN {None}
              ELSE {BirthRecorded - 1} \cup BirthRecorded..applied
  /\ uncomposed = IF applied = 0 THEN {} ELSE Rows
  /\ listed = uncomposed
  /\ width \in {0} \cup {Dim[m] : m \in Models}
  /\ applied = 0 => width = 0
  /\ holder = None
  /\ up = [s \in Servers |-> "down"]
  /\ seen = [s \in Servers |-> Unseen]
  /\ model = [s \in Servers |-> None]
  /\ discovered = {} /\ starts = 0

StartStep(s) ==
  \/ AcquireMigrateLock(s) \/ ReadMade(s) \/ ApplyMigration(s) \/ Applied(s)
  \/ ComposeDocuments(s) \/ WorkTheList(s) \/ StampBirth(s) \/ ChooseModel(s)
  \/ AcquireVectorLock(s) \/ VectorsUnavailable(s)
  \/ ResizeVectorSpace(s) \/ CreateVectorTables(s)

-----------------------------------------------------------------------------
(* Properties.                                                              *)

\* Every server that was left to choose embeds with the same model, however many
\* started together, died halfway or came back: the base's record of its own age
\* never changes once anybody has read it (store.PredatesGlobalEmbedding).  Two
\* models would fill one table with two spaces.
OneSpaceDiscovered == Cardinality(discovered) <= 1

\* A server that answers has the whole schema and every document that can be
\* composed, in whichever start each of them was made (store.Migrate).
ServesMigrated ==
  \A s \in Servers :
    up[s] \in {"choose", "vectors", "resize", "tables", "serve"}
      => /\ applied = Newest /\ birth # None
         /\ uncomposed \subseteq Unreadable /\ listed = {}
=============================================================================
