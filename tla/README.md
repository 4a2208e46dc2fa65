# Ochakai: a TLA+ verification project

Ochakai is a knowledge base for people and agents: a Go server over PostgreSQL
whose concepts are OKF documents at hierarchical addresses, written over REST
and MCP, ruled on by people, searched lexically and by vector, with files beside
them.  This directory models the parts whose correctness depends on the order of
things: requests racing each other between their statements, failures halfway,
clocks that disagree, a process that is killed; and the parts that are pure but
intricate, where two pieces of code have to agree with each other.
`PROJECT.json` lists the components, runs, findings, hazards and theorems, and
maps every definition to the lines it was translated from.

Sections 1 and 2 are the inventory and the plan; 3 to 10 the modules, what their
runs show and their bounds; 11 the fairness; 12 the disagreements with the code's
own words; 13 the proofs; 14 and 15 what is left out and how to run it all.

## 1. Inventory

### How requests run

A surface (`internal/restapi`, `internal/mcpserver`) decodes a request and calls
`internal/service`, which checks scopes and rules, usually *reads through the
pool*, and then calls one method of `internal/store`.  The store method opens a
transaction (`withTx`), runs a handful of statements, and commits.  PostgreSQL
runs READ COMMITTED: each statement sees what was committed when it started;
an UPDATE that has to wait for a row lock re-evaluates its WHERE on the row it
finds, but not the subqueries it evaluated on its snapshot.  Nothing else
serializes requests.  Three advisory locks exist: blobs, access policy,
migrations.  One path uses a REPEATABLE READ snapshot: the archive.

| component | state | operations | interacts through | modules |
| --- | --- | --- | --- | --- |
| concept lifecycle (`service.go`, `store.go`, `revision.go`) | `object` row, `knowledge_revision`, `knowledge_verification` | create (or revive), update, verify (publishing a draft), delete, purge | row lock; unique keys (path, rev) and (id, seq) | `ConceptRecord`, `ConceptLedger` |
| write surfaces (`restapi`, `mcpserver`) | none | which operation, with which precondition; the MCP guards | content hash as ETag | in each component |
| files and blobs (`attachment.go`, `sweep.go`, `blob`) | file rows of `object`, `blob` rows, bytes in a bucket or in `blob_bytes` | put, delete, purge of files, sweep, read | advisory lock; row locks; storage calls | `FileStore`, `BlobStore` |
| usage (`store/usage.go`, `service/usage.go`) | two in-memory buffers, the loss counters, `knowledge_usage`, `knowledge_event`, `search_miss`, `usage_drop` | record, flush loop, outcome reports, prune | mutex; flush against move and purge | `UsageLedger` |
| process (`cmd/ochakai/main.go`) | listener, store | start, drain, final flush, close, kill | signals, `drainTimeout` | `UsageLedger`, `Migrations` |
| access policy (`access.go` in service, store, domain) | `access_rule` | read-edit-replace, prefix administrators, scope of each request | advisory lock, version as ETag | `AccessPolicy` |
| move and directory move (`move.go`, `moveprefix.go`) | every table keyed by an id, bodies of referrers | rename, rekey, rewrite referrers | row locks in id order | `ConceptMoves` |
| agent and its turns (`agent`, `agentturn.go`) | `agent_turn` | ask, keep, judge once, apply a revision | outcome reports, ETag | `AgentTurns` |
| migrations (`migrate.go`) | schema, `base_birth`, backfills | migrate under a session lock | advisory lock | `Migrations` |
| embeddings (`embed.go`, `embedding.go`) | `knowledge_embedding`, `attachment_embedding` | embed after commit, re-embed | none: outside every transaction | `Embeddings` |
| listings, browsing (`list.go`, `filter.go`, `cursor.go`, `browse.go`) | a cursor in the reader's hands | feeds, reverse lookup, enumeration, levels | rows that change between pages | `ReadRows`, `Listings`, `Reading` |
| search (`search.go` in service and store) | none | cut the question, rank words and vectors, fuse | rows that change between statements | `QueryText`, `Search`, `Reading` |
| export and import (`restapi`, `okf`, `client.go`) | one snapshot; a command's requests in flight | archive, import, dry run | every write | `OkfBundle`, `Transfer` |
| domain rules (`domain`) | none | trust tier, ruling, sameness, links, access rules | pure functions | in each component |
| connection pool (`store.go`, `iamauth.go`) | connections | acquire, sometimes a second one inside a transaction | everything | — |
| authentication, configuration, model clients, web UI, test harness | none shared | — | — | — |

### What is hard, and what has to hold

* **Concept lifecycle.**  The service's read is stale when the store writes; a
  verification takes no lock on the row it vouches for; content is stamped by the
  application's clock and verifications by the database's.  The history must say
  what the row is, a precondition must hold up to the row lock, a ruling must vouch
  only for the content it saw, destruction must take two steps, and everybody must
  get an answer.
* **Files.**  Bytes live outside the transaction that names them.  No bytes a row
  names may be erased, no bytes may lose their name, a deletion must reach the bytes.
* **Usage.**  Losing an observation is allowed; losing it silently or counting it
  twice is not.  The buffers are capped, every statement of the flush can fail
  with the database having run it or not, and a shutdown must flush after the drain.
* **Access policy.**  A document read, edited and put back whole by several
  administrators with different views of it, each deciding on a scope that may
  have been withdrawn since.
* **Moves.**  Several row locks taken in orders that cross; bodies rewritten from a
  locked read; links spelled relatively, absolutely and in the frontmatter; a mover
  who may write only part of what refers to the moved.
* **Agent turns.**  A model that may call anything in any order; a verdict that
  becomes several reports; a revision applied long after it was proposed.
* **Migrations and embeddings.**  Two servers starting on one base, dying anywhere;
  a decision about the base's age that must never come out differently; vectors
  stored after the commit they belong to; a command that works a list in passes.
* **Reading.**  A walk is a cursor and nothing else; a question and a document are
  cut by two different pieces of code that have to meet; three ranked lists are fused.
* **Export and import.**  A stream over a live base; a bundle taken apart into
  hundreds of requests, some lost; a dry run that must say what the import will do;
  claims of trust that must not be promoted or forgotten.

Every such place is listed under `hazards` in `PROJECT.json`, at its line, with
the properties that watch it or the reason none does.

## 2. Plan

| module | state | proofs |
| --- | --- | --- |
| `ConceptRecord`, `ConceptLedger` | done | types, the refinement, and all six properties of safety, three of them for verifications apart from writes |
| `FileStore`, `BlobStore` | done | types, no dangling file, named bytes, removal, the refinement |
| `UsageLedger` | done | types and all four invariants |
| `AccessPolicy` | done | types and all four properties |
| `ConceptMoves` | done | types, no edit reverted, stays in reach, links keep their meaning |
| `AgentTurns` | done | types, `OneVerdict`, `RevisionsReplaceTheirBase` |
| `Migrations`, `Embeddings` | done | all three invariants |
| `ReadRows`, `Listings`, `QueryText`, `Search`, `Reading` | done | given once, only what is readable, a miss is an absence |
| `OkfBundle`, `Transfer` | done | types and all five invariants |
| connection pool | not begun | — |

Modules that are proved about use no `RECURSIVE` operator; invariants are conjunctions
of named parts.  `BundlePaths` holds the path algebra that access rules, moves, readings
and bundles share.  `AccessPolicy` and `Reading` share no state but both rest on it — the
policy draws a boundary with `Intersect`, and a filter is narrowed to the boundary with
the same operator — so their proofs are one module, `ReadAccessProofs`.

## 3. ConceptRecord and ConceptLedger

**State.**  `obj` is the committed object row at one id (state, document,
`content_changed_at`), `revs` the revision ledger in rev order, `vers` the
verification ledger, `failed` the `last_at` of the failure reports.  `lock` is the
row lock.  For each client, `pc` is the next statement, `job` what was asked and
what the service read, `tx` what the open transaction has read and written.
Uncommitted writes live in `tx` and are published by `Commit`; a unique key that
another transaction holds uncommitted is a wait (`Revise`, `VerifyInsert`).

A document is its text, its status and the form it is laid out in; two documents
with the same text and status have the same content (`SameContent`), and a
document is its own content hash.  A clock reading counts the readings made so
far times `Tick`, plus an offset: `AppOffset` for `NowStored`, any of `DbOffsets`
for `now()`.

**Actions.**  `Request*` are the surfaces' calls.  `Guard` and `GuardTombstone` are
`RefuseIfCurated` and `RefuseIfRevivingCurated`; `Get` is `settleUpdate` with the
stamping of `Service.Update`; `GetToPublish` is `publishDraft`.  A write of the row
is two steps: the statement's snapshot (`UpdateBegin`, `CreateBegin`) and the row
as the lock finds it (`UpdateRow`, `CreateRow`).  `VerifyInsert`, `Reread`,
`DeleteRead`, `DeleteRow`, `PurgeLock`, `PurgeErase` are the statements of the store
methods, `Revise` is `addRevision`.  `NotFound` and `Occupied` are the fallbacks of
`Service.Put`.  `Abort` is any failure before the commit.

**Abstractions.**  Two distinct clock readings never fall on the same microsecond
(`job.fresh` carries whether the stamp was read); Purge's DELETEs are one step (cut
apart in `UsageLedger`, where their order matters); the purge's audit row, the
embeddings and the note of a rejection are left out.  A dry run changes nothing
and is left out.

**The promise.**  `ConceptRecord` is what one address owes its readers: a row that is
absent, live or a tombstone, its document, and a history, written by five atomic acts.
`Create` needs an entry that is not live, `Update` and `Delete` a live one, `Purge` a
tombstone; each of the first four appends its line, and a purge drops every line that
records a write.  Two things it does not promise, because the code does not: the line of
a deletion may hold an older version than the one removed (section 12), and a
verification, which takes no lock, may land on a tombstone or outlive a purge.
`ImplementsRecord` maps `state` and `doc` to the committed row and `history` to `revs`:
a commit is one act, every other step, retries and rollbacks included, shows nothing.

**Runs.**

* `ConceptLedger.cfg` — two clients, two texts, three requests, clocks skewed by
  less than a reading.  `LedgerAgrees`, `NoLostUpdate`, `ImplementsRecord` (and with it
  `PurgeTakesOnlyTombstones`, which is proved and needs no run of its own) and, under
  fairness, `RequestsAnswered` hold.  Two clients are enough for each race the hazards
  name — every one is between two transactions; three requests let a third act happen
  before or after the race.
* `LedgerRulings.cfg` — two clients, four requests and a reformat among the payloads, the
  database's clock running both behind and ahead of the application's, under `ApartSpec`:
  no write is under way beside a verification (`RulingsApart`), while writes race writes
  and verifications race verifications.  `StandingVouchesForContent`, `AgentKeepsRulings`
  and `VerifyStands` hold then.  A verification beside a write breaks the first two; see
  section 12.

## 4. FileStore and BlobStore

**State.**  `files` maps a path to the blob its row names; `rows` are the committed
`blob` rows; `primary` and `secondary` are the bytes in the store uploads go to and
in the one that was primary before (`blob.Fallback`).  `shared`/`exclusive` are the
advisory lock, `pathLock` the row locks.  `late` holds storage calls whose request
was cancelled and which may still be carried out; `LateCalls` says which kinds
may.  `orphans` and `strays` are history: blobs an overwrite or a failed sweep left
to the next sweep, and blobs an upload left without a row.

**Actions** follow `PutFile` (`LockShared`, `Upload`, `InsertRow`, `UpsertFile`,
`CommitPut`), `DeleteFile` and Purge's files (`RemoveRows`, `CommitRemove`), and
`SweepBlobs` (`LockExclusive`, `Select`, `ErasePrimary`, `EraseSecondary`,
`ForgetRows`), which the service runs after every removal.  `Abort` may happen at
any step; `AbortDuringCall` with a storage call in flight; `Land` is the store
carrying it out.

`FileStore` is what the bundle promises: a path holds what was last put there until
it is replaced or removed.  `Implements` is that specification, with a read's
answer (`Answer`) as the refinement mapping.

**Abstractions.**  The file's revision rows are left out.  The legacy `attachment`
table, which the sweep reads and nothing writes, is left out.  A read is one step;
the code reads the row and then the bytes (hazard listed).

**Run.**  `BlobStore.cfg`: two clients, two paths, two blobs, three requests, late
uploads allowed.  Two paths sharing one blob and two blobs at one path both occur;
three requests reach a removal, a re-upload and a sweep.  All five properties hold:
`NoDanglingFile`, `BytesAreNamed`, `RemovalReachesBytes`, `Implements` and
`RequestsAnswered`.

## 5. UsageLedger

**State.**  An observation is a token (when, of which concept, which kind), so a
total is the *set* it counts and losing or repeating one shows.  `rows`, `totals`,
`events`, `missRows`, `reported` are the tables `object`, `knowledge_usage`,
`knowledge_event`, `search_miss`, `usage_drop`; `buffer`, `missBuffer`, `dropped` are
`usageBuf`, `missBuf` and the drop counters; `flush` is the loop and what it carries;
`mode` is where the shutdown is; `lock` is the row locks on the object, and `KeyHeld`
says which rows of `knowledge_usage` a move or a purge under way has written.  `made`, `written`, `gone` are history.

**Actions.**  A read (`Read`) is followed by what it records: `RecordEvents`, and for
a search no word matched `RecordMiss`, with or without hits.  `RecordOutcome` writes at once.  The flush is `FlushTake`,
`FlushMisses`, `FlushEvents`, `TakeDrops`, `ReportDrops` or `ReportFails`, and
`PruneAfterFlush`; a failing statement may have been carried out all the same.
Purge and Move are `PurgeLock`/`MoveRow`, `TakeUsage`, `TakeEvents`, `Commit`: the
statements of their transactions that touch what the flush writes.  `Stop`,
`Drained`/`Close`, `CutDrain` and `Die` are the process.

**Abstractions.**  A flush whose rows of `knowledge_usage` are free is one statement,
and a deadlock PostgreSQL breaks is a failing statement or an `Abort`.  A move or a
purge holds the rows its statement found, so a kind of event first flushed after that
statement is not held back.  Create and SoftDelete are one step here.  `MoveRow` merges the probe of the destination with the UPDATE whose key
refuses the same states.  One process, pruned at most once in its life (the code
prunes once a day); `search_miss` and `usage_drop` are not pruned.  Recording may be
switched off by configuration or by an unmeasured request; then nothing is observed.
The feeds that read these tables are in `Listings`.

**Runs.**  `UsageLedger.cfg` is the safety run: two clients, two addresses (both up to
symmetry), buffers of two, two requests, one failing statement, kills allowed.  A
search of two addresses fills the buffer and a later one no longer fits; two requests
are a read and the move or purge that meets its flush, and soft deletes are free;
after a kill the new process serves the rest.  `UsageLosses.cfg` checks that losses
surface, with one address and buffers of one and without symmetry.

`TotalsCoverEvents` compares all addresses together: between a move's UPDATE of the
totals and its UPDATE of the events a flush can leave the total at the old address
and the event at the new one, so the per-address claim does not hold.  Nor does it
hold for good: a concept created at the old address, deleted and purged takes the
stranded total with it (move.go:124).  `erased` is the history of what a purge took,
and the invariant excepts exactly that; `TotalsNeverFallBehind` is the claim without
the exception (section 12).

## 6. AccessPolicy

**State.**  `policy` is the table `access_rule`, each grant with the caller that wrote
it; `admins` is `OCHAKAI_ADMINS` of the running process.  For each caller, `pc`,
`resolved`, `doc` and `match` are the request between its two statements: the scope is
resolved in one (`ScopeOf`), the policy replaced in a later transaction.  `held` is
the version a caller last read; `rooted` is history, the subtrees a configured
administrator has delegated.

**Actions.**  `GetScope`/`GetRules` are reading the policy; `PutScope` resolves the
scope and checks the document against it (`Checked`, `Valid`, `Admissible`);
`Replace` or `Conflict` is `ReplaceAccessPolicy` under its advisory lock with
`If-Match`; `ReadBack` is the answer.  `Restart` brings the server up under another
configuration, which it refuses over a policy nobody could edit.  `Listing`,
`ScopeRows`, `ArchiveAnswer` and `WriteAnswer` are what listings, answers, archives
and writes make of a scope.  Paths are sequences of opaque segments.

**Run.**  `AccessPolicy.cfg`: a configured administrator and one it delegates to, two
nested directories beside a sibling whose name extends theirs, at most two rules,
restarts with and without an administrator.  `DelegationRooted`, `PolicyHasEditors`,
`NoUnseenLoss`, `SurfacesAgree`.  Two callers are enough for a scope that is withdrawn
between the two statements; two rules for a delegation and a delegation of it; the
proofs (section 13) lift every bound.  Deadlock is checked.

## 7. ConceptMoves

**State.**  A row of `object` keeps its identity in `Rows` while its id changes:
`object` holds id, references as written, edit mark, and the two generated columns
`links` and `files`; `stored` the file paths; `newest` the newest revision.  A
reference records how it is spelled — in the body or a frontmatter field, to a
document or a file, absolute or relative with its number of `..` — because that is
what `RewriteLink` and `MovePathValue` decide on.  `lock` is the row locks, `tx` what
each transaction has read and holds.

**Actions.**  A move is `Rename`, a directory move `ReadDirectory`, `LockInDirectory`
in id order and `Rekey`; both go on with `ReadNames`/`LockName` (the rows whose
frontmatter spells the name), `ReadReferrers`/`LockReferrer` (the rows whose columns
refer) and `Rewrite`, or `RewriteRefused` when a referrer lies outside what the mover
may write.  `LockRow`, `WriteRefused` and `Commit` are an edit, a creation or a
deletion running beside it.  A list of rows to lock is the snapshot of the statement;
what is read of each row is what its lock finds.  `BreakDeadlock` is PostgreSQL
rolling back one transaction of a circle.

**Run.**  `ConceptMoves.cfg`: two requests at a time over two documents that cite each
other in every spelling, a free row, an empty directory, a file in a namespace; three
requests; an unbounded mover and one bounded to part.  `LinksKeepMeaning`,
`NoEditReverted`, `StaysInReach`, `RequestsAnswered`.  Two referrers that are each
other's are the smallest graph on which lock orders cross, and a third row is what a
creation takes while a move runs.  Usage rows against a move are in `UsageLedger`,
vectors in `Embeddings`.

## 8. AgentTurns

**State.**  `concept` is the row at each id as an agent sees it (document, whether a
verification stands, who wrote last); `turns` the rows of `agent_turn`; `reports` the
outcome events with the request that made them; `job` one run's rounds, calls, reads
and drafts.

**Actions.**  `Ask`, then `Generate` a round: the model stumbles (one retry, shared),
answers, fails, or calls up to `MaxCalls` tools, each in any order and on any id:
`GetConcept`, `WriteDraft` (`CreateKeepingCurated`, at most `maxDrafts`), `Propose` and
`ProposeBase` (`RevisableDraft`, whose base is read then), or anything else
(`CallTool`).  `OutOfRounds` ends it.  `KeepTurn` may fail without failing the answer.
`Judge`, `JudgeTurn`, `ReportOutcome`, `Judged` are one verdict and the reports that
follow it outside its transaction; `Apply`, `RevisableDraft`, `ApplyRevision` the
guard's read and the write with the turn's base as precondition.  `SomebodyWrites`
is people writing, verifying and deleting in between.

**Run.**  `AgentTurns.cfg`: two requests at a time, one question, two rounds of two
calls, one draft, three requests, two writes of people, one failing statement.
`OneVerdict`, `RevisionsReplaceTheirBase` and, under fairness, `RequestsAnswered`.  A
turn judged and applied twice at once is two of the three requests; two rounds
reach a stumble after a retry.

## 9. Migrations and Embeddings

**State.**  `Migrations` keeps the schema (`applied`, `width`), `birth`
(`base_birth.migration`), the backfills' work (`uncomposed`, `listed`), the lock's
holder, and where each server is in its start.  `Embeddings` adds the current text of
each object, the vector at each address with the model and text it was made of, the
commits whose vector is still to come (`writing`) and the command's pass.

**Actions.**  A start is `AcquireMigrateLock`, `ReadMade`, one `ApplyMigration` per
file, `ComposeDocuments` and `WorkTheList` batch by batch, `StampBirth`,
`ChooseModel`, and `MigrateEmbedding` under the lock again.  `Die` may come anywhere,
halfway through a batch too.  `Write`, `Move` and `Delete` commit first;
`StoreVector` or `EmbeddingFails` follows outside any transaction.  `BeginReembed`,
`ListConcepts`, `ListFiles`, `Take`, `Disappeared`, `Refused`, `StoreNext`, `Count` are
the command's passes with its two cursors.  A list is the set `First(rows, limit)`
of a query `ORDER BY id LIMIT`; the count that decides whether a backfill goes on may
fail, and reads as nothing converted (`CountMayFail`, migrate.go:386).

**Run.**  `Embeddings.cfg`: two servers, two starts, an empty base or one older than
`base_birth`, three rows of which one cannot be composed and a batch of two, so that
a batch short of its size is not the last; two concepts and a file, passes of one
item, one failure.  `OneSpaceDiscovered`, `ServesMigrated`, `EveryConceptGetsATurn`.
`ServesMigrated` needs fewer refused rows than a batch and a count that answers;
section 12 says what happens where the first does not hold.
What an SQL migration does, and the numbers in a vector, are left out; the loss of
the lock's connection while its server lives on is left out too.

## 10. Reading, and Transfer

**Reading.**  `ReadRows` is the rows as every read sees them — trust tier, expiry,
usage, scope — and what others commit in between.  `Listings` is each feed's ORDER BY
(`Columns`, `Values`, `Precedes`), the keyset predicate that resumes it
(`KeysetAfter`, written as the code writes it: a disjunction per column, NULLs
apart), cursors with the truncation their rendering makes, the narrowing of a filter
to the scope, and levels with their two runs.  `QueryText` is how a question is cut
(`QueryFragments`), what the index holds of a text and when one finds the other.  It
says what a cut is instead of scanning for it: a run, a window, an identifier is a stretch
of the text, a pair of its positions, and what is kept of them is a set, put in the order
of reading by `Arranged`;
`Search` the lexical score, the vector lists (any ranking: distances are not
modelled), reciprocal-rank fusion, the verified boost and the name rule.  `Reading`
composes them with one reader and its history: `open`, what was readable at some
instant since its request began; `steady`, what has not changed its part in the request;
and `granted`, the prefixes the request is drawn by — each page of a walk is a request
that resolves its scope anew (`Service.SearchOrList`, `Service.Browse`), a search
resolves it once, as it begins, and asks every list within it.

`Reading.cfg` walks every feed, reverse lookup and level a page of one at a time over
four bases of three concepts with ties, NULLs and tombstones, one write and a clock
that ticks anywhere, and a change of the reader's grants; and it asks every title of at
most three glyphs over eight glyph classes, and a few longer ones, with and
without embedding.  `RegrantedBases` leave two writes while a search runs, so that a
concept may come to be and the grants change between two of its lists (the other bases
start with all but one of `MaxWrites` spent).  `GivenOnce` (what stands still is given exactly once),
`OnlyReadable`, `NamedFirst`, `MissMeansAbsent` (a question counted as a miss is one of which no concept that stood
still `Says` any fragment).  A page of one puts a cursor at every
position; three rows make every order of two keys and a tie; three glyphs reach every
rule of the cutter but those the longer titles are there for.

**Transfer.**  `OkfBundle` is what a bundle is read as — concepts, files attributed to
the concept that shows them or lies above them, loose files, generated listings and
logs, the trust family of a document as observation or claim — and what an archive
writes.  `Transfer` is the base, the archive streaming from its snapshot (`Snapshot`,
`WriteListings`, `WriteConcepts`, `WriteFile`, `CloseArchive`, or `Cut`) while others
edit, confirm, delete, upload and sweep; and the command: `Begin` (refused by
`--strict`), then the phases concepts, attributed, loose, indexes, each with up to
`importWorkers` requests in flight (`Send`, then on the server `Look`, `Write`,
`Create`, `PutFile`, `Describe`, or `Plan` for a dry run; then `Hear` or `Lose` the
answer), `NextPhase` and `Abort`.

`Transfer.cfg` runs six bases: an archive and its way back; bundles with every verdict,
with loose, hidden, unaddressable and empty files, with renamed suffixes that collide,
and outside what the caller may write; a deployment without a bucket; two workers,
two imports or dry runs, two writes of others.  `DryRunForesees`,
`ArchiveIsOneInstant`, `EntersOrIsNamed`, `ClaimsAreKept`, `OwnArchiveIsUnchanged`.
`RoundTrip.cfg` is the finding of section 12.  A bundle that spells one path twice is
left out, as are the bytes of a tar stream.

## 11. Fairness and deadlock

Where liveness is claimed, the specification assumes weak fairness of a client's (or
worker's, or mover's) `Step`: a statement whose locks are free is eventually run, and
the server goes on with a request it has begun.  A request in progress has exactly one
next statement, and waits are on locks that PostgreSQL grants in order, so weak
fairness of the whole step is what the scheduler gives.  In `ConceptMoves` the step
includes PostgreSQL's deadlock detector; in `AgentTurns` it includes the model's
answer, whatever it is, because the model's client has a deadline.  `UsageLedger` adds
the flush loop (a ticker that keeps firing) and `Close` (Shutdown returns once requests
are answered).  Nothing makes a client send a request, an operator stop the server,
or a failure happen.

`CHECK_DEADLOCK FALSE` is set where a bounded behaviour ends: when the requests
allowed are spent and answered, nothing is left to do.  That nobody waits for ever is
`RequestsAnswered`.

## 12. Where the code and its words differ

One disagreement has a run of its own:

* `round_trip` — an import drops a document's trust family only while it equals what
  this instance observes *now* (`okf.IsObservation`).  A concept somebody verified
  between the export and the import is therefore rewritten by it: the archived family
  stays as a claim, the importer becomes the author, and the verification no longer
  stands.  docs/guides/git-review.md says a round trip moves no unchanged concept.

The following are stated as formulas in the modules, and each is *violated* by the model
of the code where the second column says; no run carries them there.  To see a schedule, put the formula in
place of the properties of the configuration named.

| formula | configuration | what happens |
| --- | --- | --- |
| `StandingVouchesForContent` | `ConceptLedger.cfg` | an UPDATE orders its stamp after the verifications its snapshot shows; it waits for a row lock, a verification commits meanwhile, and stands for content nobody verified (store.go:241) |
| `AgentKeepsRulings` | `ConceptLedger.cfg` | the MCP guard passes the version on as a precondition; a verification does not change the version, so one that lands in the window is replaced (service.go:510) |
| `DeleteRecordsWhatWas` | `ConceptLedger.cfg` | a delete without If-Match records the document it read through the pool; an update in between is deleted, and the revision shows the document before it (store.go:1028) |
| `NoDanglingFile` | `BlobStore.cfg`, `LateCalls = {"put", "delete"}` | a request cancelled with a deletion in flight releases the sweep's lock, an upload of the same bytes finds them and commits, the deletion lands (sweep.go:76) |
| `UploadsReclaimed` | `BlobStore.cfg` | an upload whose transaction fails leaves bytes without a row; the sweep selects rows and never sees them (sweep.go:55) |
| `TotalsNeverFallBehind` | `UsageLedger.cfg` with one client, four requests, buffers of one, no failures, kills or symmetry | a flush between a move's two statements leaves the total at the old address; the concept that comes to live there is purged, and the total with it (move.go:124) |
| `MovesLand` | `UsageLosses.cfg` under `Spec`, two addresses, three requests | an event flushed after its concept moved away leaves a `knowledge_usage` row at an address nothing holds; a later move there fails on the key (move.go:124) |
| `OutsideUntouched` | `AccessPolicy.cfg` | a prefix administrator's replacement writes the rules outside its reach again, and signs them with its own name (store/access.go:133) |
| `NoReferenceBreaks` | `ConceptMoves.cfg` | links to files, in bodies, are left as written by a move of what they lead to or start from (move.go:106) |
| `NewestRevisionAgrees` | `ConceptMoves.cfg` | the move's revision is composed from a read before its transaction; an edit committed in between is in the row and not in the revision (move.go:38) |
| `LinksKeepMeaning` | `ConceptMoves.cfg` under `Spec`, `Collation <- DeepCollation`, `Texts <- ClimbingTexts` | a relative link that climbs out of the bundle names nothing and is left as written; once its document has moved to a deeper directory the same text leads back into the bundle (links.go:182) |
| `MovesQueue` | `ConceptMoves.cfg` | two moves of concepts that cite each other lock in crossing orders; PostgreSQL breaks the circle and one request fails (move.go:74) |
| `OnlyUnruledDrafts` | `AgentTurns.cfg` | a verification between the guard and the write leaves the version as it was, and the revision is applied over it (agentturn.go:334) |
| `ReembedFinishes` | `Embeddings.cfg` | a vector that failed to be made leaves the older text's in place, and the command lists only what has none (embed.go:27) |
| `EveryFileGetsATurn` | `Embeddings.cfg`, two files and one concept | a file whose bytes cannot be read does not move the cursor past itself; the command gives up with the next file untried (embed.go:213) |
| `ServesMigrated` | `Embeddings.cfg`, `Unreadable = {1, 2}`, `MaxStarts = 1` | rows the renderer refuses keep an empty document and head the list again; once they fill a batch (200 in the code) the backfill ends with the readable rows after them uncomposed, and the server serves, at this start and every later one (migrate.go:226) |
| `EntersOrIsNamed` | `Transfer.cfg`, `Bases <- MCTraded`, `MaxRuns = 1`, `MaxWrites = 0` | `unclaimMarkdown` asks whether the bundle has a name, not whether another file has traded into it: of `t.md` and `t.markdown.md`, both without a type and beside `t.markdown`, one overwrites the other and nothing is reported skipped (bundle.go:159) |
| `WalksEnd` | `Reading.cfg` under `FairSpec`, `Bases <- StaleBases`, `Second = 2`, `MaxWrites = 1` | the `stale_after` cursor keeps whole seconds; two rows in the fraction of one second send the walk round for ever, and `GivenOnce` fails there too (cursor.go:140) |

Other disagreements met while translating, outside what a formula here says:

* *Import of an own archive* clears every directory description, since a listing it
  writes says "N concepts" where the description would be read (`writeIndexes`); its
  `log.md` files raise one parse note per directory, so `--strict` refuses an own
  export although the help says one imports silently.
* *Import of an edited export, twice*: the second run finds the first one's stamps, and
  keeps the document's own trust family as a claim (service.go:251).  Two spellings of one path (`./a.md`, another normal form) are
  two writes, and a dry run counts two creations.  A document over 5 MiB, or a 403 or
  404 for a caller with a boundary, aborts the run where others are skipped.
* *Archive*: bytes swept while it streams truncate it; `extractTarGz` leaves partial
  files of a truncated one.
* *Reading a file* takes the row and then the bytes; an overwrite and a sweep in between
  answer "not found" once (attachment.go:236).
* *Narrowing*: prefixes are intersected with the scope before they are normalised, so
  `prefix=teams/` gives nothing to a caller granted `teams` (list.go:112).
* *Search*: fusion compares the unfolded query with folded names; the note that 1.85
  bounds a lexical score beside a name's 1.0 does not hold of the lexical-only
  ranking; the boost outweighs a rank difference from about rank 26; a single trailing kanji after hiragana is never
  asked for; a query of one character finds only runs that begin with it, and so does one character
  left over behind a long katakana word; part of a longer identifier is no lexeme of it; snippets take
  byte offsets of a lower-cased text (snippet.go:79).
* *Agent*: a run that fails after `write_draft` leaves drafts that belong to no turn
  (agent.go:106); an error other than "not found" leaves the turn's remaining reports
  unmade and the verdict final (agentturn.go:198).
* *Embeddings*: two updates' vectors may be stored in the other order; an upsert may
  follow the deletion of its object; a batch whose count fails ends the document
  backfill as if nothing had been converted (migrate.go:386); a base whose very first start dies midway is later
  taken for an older one.

## 13. Proofs

The constants' assumptions (`ConstantsAssumption`, `BlobAssumption`, `UsageAssumption`,
`AccessAssumption`, `MovesAssumption`, `BoundsAssumption`, `MigrationsAssumption`,
`EmbeddingsAssumption`, `TransferAssumption`, `StartsAssumption`, `RowsAssumption`,
`ListingsAssumption`, `TextAssumption`, `SearchAssumption`, `BasesAssumption`) allow sets of any size, clocks with any offsets, any tree of
paths, any reference graph, any text over any alphabet in which a script character, a word, a
join and a space are different things and folding twice is folding once.  No bound of a configuration enters a proof.  A set the code
counts or pages through (addresses seen at once, concepts of a proposal, rows and objects
to work through) is assumed finite, and nothing else about its size.  Where a theorem has
a hypothesis of its own it is written in its statement: `"delete" \notin LateCalls` for
files, `BatchesMakeProgress` for the backfill, `NamesApart` and `OldClaims` for bundles,
`LinksInside` for moves, `WholeSeconds` for walks, `NamesFindThemselves` for searches,
`[]RulingsApart` for rulings (below).

**ConceptLedgerProofs.**  The inductive invariant is

    LedgerInv == TypeInv /\ Locking /\ LedgerAgrees

`LedgerAgrees` is not inductive alone: a commit appends a revision for the row it
publishes, so it must be known that the row is still what the transaction locked and
that no other transaction has a revision pending.  `Locking` says so: whoever is past
its row statement holds the lock, what it has written is a change of the row as
committed, a delete's tombstone keeps the document of a live row, and a purge cuts only the
revisions of the tombstone it locked.  From it follow `TypeCorrect`
(`[]TypeOK`), `HistoryAgrees` (`[]LedgerAgrees`), `NoUpdateLost`
(`NoLostUpdate`) and `PurgeTakesTombstones` (`PurgeTakesOnlyTombstones`).
`LedgerImplementsRecord` proves the refinement: only commits publish
(`OnlyCommitsPublish`), and `CommitActs` maps each to the act of its request from what
`Knows` says of the locked row — live for an edit or a deletion, not live for a creation, a
tombstone with the same document for what a deletion leaves, nothing but verifications past
the cut of a purge.

What a ruling is worth is not promised where a verification overlaps a write (section 12
has the counterexamples), so three theorems are of the behaviours with `[]RulingsApart`: any
number of writes, deletions and purges race one another, and so do any number of
verifications, but not one beside the other.  A second invariant,

    RulingsInv == (\A c : Aware(c)) /\ StandingVouchesForContent
                    /\ (obj.state = "absent" => vers = {})

says what a request under way may rely on at each step (`AwareAt`): an agent past its guards
faces no ruling, from the stamp an update keeps on every verification is of the content it
writes, its MAX over the verifications is past them all, a verification's stamp is not before
the content it read, and what a transaction is about to publish is vouched for by what it
leaves standing.  It is stated so that it outlives what the others commit meanwhile
(`WriteStaysAware`, `VerifyStaysAware`): a write beside it takes verifications away and adds
none, so a stored stamp that has gone stale, or a MAX read before another edit, still errs on
the safe side.  Then
`RulingsVouch` is `StandingVouchesForContent`, `RulingsOutlastAgents` is
`AgentKeepsRulings`, `VerificationsStand` is `VerifyStands`; no relation of the two clocks
is assumed (`StampVouches`).

**BlobStoreProofs.**  Under `"delete" \notin LateCalls`,

    BlobInv == TypeOK /\ JobsFit /\ Locking /\ Sweeps /\ UploadsStay /\ LatePuts
                 /\ NoDanglingFile /\ BytesAreNamed

is inductive: `Locking` (a sweep excludes uploads), `Sweeps` (what is doomed is
unreferenced and has a row, and what was erased is gone), `UploadsStay` (between upload
and commit the bytes are held) are what `NoDanglingFile` and `BytesAreNamed` rest on.
`ImplementsFileStore` proves the refinement: `CommitPut` maps to `Put`, `CommitRemove`
to `Remove`, every other step to a stutter, because erasing bytes never changes an
answer while the invariant holds.  `RemovedBytesGo` (`RemovalReachesBytes`) adds
`Reclaims`: a row no file names is an orphan, or some request has a sweep still to come or
has it among those it is about to erase.

**UsageLedgerProofs.**  The inductive invariant is

    UsageInv == TypeOK /\ FiniteBuffers /\ JobsFit /\ FlushFits /\ BufferedOnce /\ Shutdown
                  /\ LossesAreVisible /\ CountedAtMostOnce /\ TotalsCoverEvents /\ CleanShutdown

A loss is counted as a *number* while observations are a set, so `LossesAreVisible` is
arithmetic over cardinalities: `BufferedOnce` (a token waits in one place, and in the
buffer of its kind) makes the sums add up.  `FlushFits` says what a flush carries at each
step — a statement that may have been carried out gives its batch up, so nothing written
waits (`NothingIsCountedTwice`).  `Shutdown`: the last flush starts when nobody is left to
record, and then both buffers are empty once it has taken them.  `NothingIsLostSilently`,
`NothingIsCountedTwice`, `TotalsKeepUp` and `ShutdownIsClean` are the four invariants.

**ReadAccessProofs.**  *The policy.*  `DelegationComesFromAdmins` needs `Rooted`: a request in
flight still carries the prefixes its scope held when it was read, which may have been
withdrawn since; they were rooted then, and rooted subtrees never unroot.
`PolicyCanBeUndone` needs `Supported`: a document with rules was admitted by a process
that names an administrator, and requests die with their process.
`ConditionalWritesLoseNothing` is about one step.  `SurfacesAlwaysAgree` rests on
lemmas about paths (`UnderTransitive`, `UnderChain`) and on `IntersectExact`: the
prefixes `intersect` returns cover exactly the ids under both.

*The reader.*  Four inductive invariants, the third over the second, the fourth over the third:

    OnceInv == Typed /\ RowsWhole /\ Cursors /\ Steadily /\ Once /\ Told
    OpenInv == Typed /\ TextTyped /\ (Begun => HereNow \subseteq open)
                 /\ (\A a \in Objects : walk.given[a] > 0 => a \in open) /\ AskOpen
    MissInv == OpenInv /\ (reader = "asks" => Missing)
    NameInv == MissInv /\ (\A id \in Ids : \A name \in Called(id) : Searchable(name) => FindsItself(name))
                 /\ (reader = "asks" => Fronts /\ Leads /\ Numbered)

`WalksGiveOnce` is `GivenOnce`.  Its argument is the cursor's: `Passed` says of an object
whether the cursor is at or behind it, and `Once` that what stands still was given exactly
once if it is and not at all if it is not.  A page keeps that because of three facts about
operators, each for any number of columns, rows and page length.  `ColumnOrders` and
`LexicallyTotal`: ORDER BY with NULLs last, any mix of directions and the id at the end is
a total order.  `KeysetIsLater`: the predicate `keysetAfter` writes, a disjunction per
column with NULLs apart, holds of exactly the rows behind the cursor in that order.
`PageOfRead` and `PageEnds`: to read one row more than the page tells a full page from the
last one, and what leads the rows read is what leads the rows there are.  `RunGives` and
`BrowseGives` say the same of a level, whose two runs end apart.  The hypothesis
`WholeSeconds` (expiries written and stored are whole seconds) is the row of `WalksEnd` in
section 12: a cursor renders `stale_after` in whole seconds, and without it the theorem is
false.

`NothingElseIsRead` is `OnlyReadable`, of every base, with no hypothesis.  `AskOpen`: while
a search runs its filter admits nothing outside what was granted as it began
(`Confined`), and every hit of the lists it holds was readable at some instant since.
`NarrowConfines`, from `IntersectExact`, gives the first; `LexicalFinds`, `NearestFinds` and
`FuseFinds` the second, whatever the scores: a ranked list holds rows its filter admits, and
the fusion takes its hits from the lists.  That the lists are lists at all is part of it:
`Arranged` puts a finite set in order only by a total order, so the ranking and the fusion
have to be ones (`ScoredOrder`, `FusedOrder`), and the scores they compare have to be numbers
(`TotalSteps`: a sum is a number as far as it goes, by the least place where it would not be).

`MissesAreAbsent` is `MissMeansAbsent`, of every alphabet, text, question and rarity.
`Missing` is what a search knows of it: a list of words that came back empty found nothing
in any row it was about and that has stood still since, and a search that no word answered
had such a list.  Three facts carry it.  `FragmentsFit`: whatever is asked for is a piece of
one class, a window of script characters or a name, so no fragment is empty and none is
half script.  `SaidIsFound`: what a text says of a fragment, the index holds of the text —
each of the four ways to say it by a lemma on the lexemes (two characters side by side by
the windows of the run they lie in, one character at the head of a run by the run itself or
its first window).  `LexicalFinds` and `NothingFound`: the list is empty only if nothing is
found.  Question and text are each folded by the same rule and cut by different ones
(`HaystackIsFolded`), which is where a miss could be counted of something the base says.

`NamesComeFirst` is `NamedFirst`, of every base, question, rarity, vector list and answer
length.  `Fronts` is what a search knows once the words are ranked: a concept asked for by
its name is in their list behind named ones only, or the list is full of named ones; `Leads`
says the same of the answer.  The argument has three parts.  *A concept holds what its name is
asked for as.*  A name is part of the text the index is made of, set apart in it by spaces
(`NameIsSet`), so every window, word and identifier of the name is one of the text
(`LexemesAlong`), and a fragment of the name is one of those (`FragmentFound`), unless it is a
break or a dropped word, which no text holds and which weighs nothing (`NeverFound`,
`HeldWeighs`).  *It scores above what is not named.*  If W is the weight of everything asked
for and the concept holds all of it, its score is at least 20W + 10W + (6 + 20)W = 56W
twentieths, and that of a concept the question does not name is at most
20W + 10W + (6 + 1)W = 37W (`OwnScore`).  *An order that puts it before all but some has only
those before it* (`RankedFront`), which serves the words' ranking (`LexicalFront`) and the fused
one (`FuseLed`): fusion puts names first and loses no hit of the words', and a list of
`2 * limit` named ones leaves no room in an answer of `limit` for others.

Not every fragment of a name is found in it: a single character behind a long katakana word is
asked for as a prefix, and no window begins with it (section 12).  What a concept loses so
counts 20 of its 56 parts, so the hypothesis `NamesFindThemselves` says that of each name the
base begins with something is found, and that what is lost weighs less than nineteen times
the commonest fragment (`FindsItself`): `Cardinality(LostAt(name)) * Rarity[total][1] < 19 *
Rarity[total][total]`.  With one such character and `ln(1 + total / df)` that holds of a base
of up to half a million concepts, whatever they say.  Every title and name of `MCBases` has it,
`TTTK`, which loses its last character, among them.

**ConceptMovesProofs.**  The inductive invariant is

    MovesInv == TypeOK /\ Locked /\ GotCurrent /\ InReach

`Locked`: a row a transaction works on is locked by it; `GotCurrent`: so what it read of
it is what the row still says; `InReach`: what was renamed lies within the mover's
boundary on both sides.  From it follow `MovesRevertNothing` (`NoEditReverted`) and
`MovesStayInReach` (`StaysInReach`); `TypeCorrect` is the type invariant.

`MovesKeepLinks` is `LinksKeepMeaning`, under `LinksInside` (no text holds a link that climbs
out of the bundle, the row of section 12), from

    LinksInv == RowsDerived /\ OneAtEachId /\ KeysApart /\ \A m : Holds(m) /\ NoneMissed(m)

`RowsDerived`: a live row's `links` column is what its body says; `OneAtEachId` and
`KeysApart` are the primary key, of committed rows and of those being inserted; `Holds` is
what a mover knows of the rows it locked; `NoneMissed`: a referrer is passed over only if it
was committed since the mover read who refers.  The step that matters is `PagesRepaired`: a
page rewritten names what it named, followed to where it went, because what is followed
never lands on an id that is moving.

**AgentTurnsProofs.**  The inductive invariant is

    AgentInv == TypeOK /\ LiveSays /\ JobsFit /\ Judging /\ ReportsOfTurns /\ OneVerdict

`Judging`: of the requests that judge a turn only the one whose UPDATE set the verdict
reports it, so every report of the turn is its own; that is what `OneVerdict` needs of a
verdict cut in several reports outside its transaction (`JudgedOnce`).  `JobsFit`: a
request that applies a revision carries one its turn keeps, base and all, through the
guard to the write; with `LiveSays` (a live row has a document, so a missing one never
matches a base) it gives `RevisionsReplaceOnlyTheirBase`.

**EmbeddingsProofs.**  Two inductive invariants, for the two halves of the module:

    StartInv == StartTypes /\ LockHeld /\ AgeKnown /\ Progress /\ Settled /\ SettledList /\ OneAge
    PassInv  == PassTypes /\ Attended /\ StillLacking /\ InOrder

Of the starts, `AgeKnown` ties the base's birth to the schema (recorded just when
migration 0053 is applied) and `Settled` says that once anybody is past the schema nobody
takes the base for one it made: so all read one age (`OneSpace`).  With `Composed` (what
is left uncomposed after that step is unreadable) and under `BatchesMakeProgress`,
`MigratedBeforeServing` is `ServesMigrated`; section 12 shows the hypothesis is needed.  Of a reembed, `InOrder` is the cursor's argument: what lacks a vector and was
not tried lies after the cursor and, while a list is in hand, after all it holds; so a
list that comes back empty has left nothing out (`NoConceptIsStranded`).  It rests on
`First` taking a prefix of a finite set of ids.

**TransferProofs.**  What becomes of a concept, a file or a listing of a bundle is settled
when the import begins — by the bundle, the base as found, and what the caller may do —
and the operators `Verdict`, `FileVerdict` and `IndexRefusal` say it of any bundle and any
base.  The invariants follow each task from there to its answer:

    Orderly     each task waits, is in one call, or was heard of; phases come in order
    ArchiveInv  RowsFit /\ OutFits /\ Remaining /\ Faithful: what is written of an archive is
                the snapshot's, and of its concepts what is not written is left
    ConceptsGo, FilesGo   where a task stands: its call carries its verdict's next step, and
                once heard its concept or file is stored, skipped or noted as the verdict says
    Counted     while nobody else writes, the counters are the sums over the tasks heard of,
                in whatever order they came; a run that failed met a task that fails
    Foreseen    the same, of all tasks, for the run a dry run went through
    ClaimsPast, FilesKept, Elsewhere   claims bear stamps given out before, and
                never those of the row they sit on; a deployment without a bucket archives no file, an import disturbs nothing
                that its bundle does not name

`ArchivesAreOfOneInstant` follows from `ArchiveInv`; `ClaimsStay` from `ConceptsGo`;
`NothingGoesMissing` from it and `FilesGo`, for bundles of `NamesApart` (no two files kept
under one name: the row on `MCTraded` in section 12 is why it is there); `DryRunsForesee`
from `Counted` and `Foreseen`, by counting a finite set of tasks one at a time, so the
answers of a dry run and of the import may come in different orders; and
`OwnArchivesComeHome` from all of them: a document written from a row is settled against
that very row.  Its hypothesis `OldClaims` says that what the bundles and the base claim to
have been observed elsewhere is of before the base was set up, and that no concept there claims
to be what this base itself saw of it.  `MCBases` has both.

**Only model-checked.**  Liveness (`RequestsAnswered`, `LossesSurface`) is out of the
prover's reach: it needs fairness and ENABLED.  Every invariant and every action property a
passing run checks is a theorem.

## 14. Not modelled

* The connection pool: a second connection is taken inside a transaction in a few
  places; it is shared by every operation and needs a module over all of them.
* Statistics are counts over tables whose contents `UsageLedger` is about.
* Snippets, rendering and parsing of YAML and markdown, validation of each field: text
  functions without state.  The vectors' numbers.
* Authentication, configuration, the model clients, the web UI and the commands that
  send one request: no state the properties depend on.
* Pruning of old turns; the legacy `attachment` table, which nothing writes.

## 15. Running

    tlc -workers 2 -config ConceptLedger.cfg MCConceptLedger
    tlc -workers 2 -config LedgerRulings.cfg MCConceptLedger
    tlc -workers 2 -config BlobStore.cfg MCBlobStore
    tlc -workers 2 -config UsageLedger.cfg MCUsageLedger
    tlc -workers 2 -config UsageLosses.cfg UsageLedger
    tlc -workers 2 -config AccessPolicy.cfg MCAccessPolicy
    tlc -workers 2 -config ConceptMoves.cfg MCConceptMoves
    tlc -workers 2 -config AgentTurns.cfg MCAgentTurns
    tlc -workers 2 -config Embeddings.cfg MCEmbeddings
    tlc -workers 2 -config Reading.cfg MCReading
    tlc -workers 2 -config Transfer.cfg MCTransfer
    tlc -workers 2 -config RoundTrip.cfg MCTransfer
    tlapm ConceptLedgerProofs.tla
    tlapm BlobStoreProofs.tla
    tlapm ReadAccessProofs.tla
    tlapm UsageLedgerProofs.tla
    tlapm ConceptMovesProofs.tla
    tlapm AgentTurnsProofs.tla
    tlapm EmbeddingsProofs.tla
    tlapm TransferProofs.tla

`RoundTrip` ends in the counterexample of section 12; the others find no error.
The `MC` modules define the payloads, bases and symmetry the configurations use.  An
operator whose comment says *Mutant* is a plausible bug of the definition that follows
it; each property is known to fail under at least one.
