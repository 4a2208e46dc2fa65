---------------------------- MODULE ConceptMoves ----------------------------
(***************************************************************************)
(* Moving concepts and directories (internal/store/move.go, moveprefix.go,  *)
(* domain/links.go, domain/pathfields.go).  An id is an address that other  *)
(* documents spell, so a move writes rows it was not asked about: it        *)
(* renames, reads every referrer under a row lock, repairs what they say    *)
(* and commits, while others edit, create, delete and move.                 *)
(*                                                                         *)
(* A row of table object keeps its identity in Rows while its id changes.   *)
(* Postgres runs READ COMMITTED: a statement takes its snapshot, waits for  *)
(* each row it locks, and reads again what it then finds there.             *)
(***************************************************************************)
EXTENDS BundlePaths, FiniteSets

CONSTANTS
  Rows,         \* rows of table object that hold concepts
  Clients,      \* concurrent requests
  None,         \* nobody, nothing
  Collation,    \* the ids concepts live at, in the order the store sorts
  Directories,  \* the directories that are moved, and moved to
  Texts,        \* the references a written document may carry
  Scopes,       \* what a mover may write: {Root} for one with no boundary
  Starts,       \* bundles a behaviour starts from: a row for each of Rows
  Uploads,      \* paths of the files stored at the start
  MaxRequests   \* bound: requests admitted in a behaviour

Ids == {Collation[i] : i \in DOMAIN Collation}
Rank(id) == IF id \in Ids THEN CHOOSE i \in DOMAIN Collation : Collation[i] = id
            ELSE Len(Collation) + 1

RefType == [field : BOOLEAN, doc : BOOLEAN, abs : BOOLEAN,
            up : Nat, path : Seq(STRING)]

Absent == [id |-> Root, live |-> FALSE, refs |-> {}, mark |-> 0,
           links |-> {}, files |-> {}]

RowType == [id : Seq(STRING), live : BOOLEAN, refs : SUBSET RefType,
            mark : Nat, links : SUBSET Seq(STRING), files : SUBSET Seq(STRING)]

ASSUME MovesAssumption ==
  /\ None \notin Rows \cup Clients /\ None \notin RowType
  /\ Collation \in Seq(Seq(STRING)) /\ Directories \subseteq Seq(STRING)
  /\ Root \notin Ids \cup Directories
  /\ Texts \subseteq SUBSET RefType
  /\ \A s \in Scopes : s \subseteq Seq(STRING)
  /\ Starts \subseteq [Rows -> RowType]
  /\ Uploads \subseteq Seq(STRING)
  /\ MaxRequests \in Nat

VARIABLES
  object,   \* the committed rows of table object that hold concepts
  stored,   \* the paths of the rows that hold files
  newest,   \* the newest revision of each concept
  lock,     \* the transaction that locks each row
  pc,       \* where each request is
  job,      \* what it asks for
  tx,       \* what its transaction has read and holds
  late,     \* history: rows committed since its read of the referrers
  sent      \* requests admitted

vars == <<object, stored, newest, lock, pc, job, tx, late, sent>>

NoJob == [op |-> "none", from |-> Root, to |-> Root, within |-> {},
          refs |-> {}, seen |-> Absent]
NoTx(rows) == [moved |-> {}, named |-> {}, keys |-> {},
               todo |-> [c \in rows |-> 0], got |-> [c \in rows |-> None]]

-----------------------------------------------------------------------------
(* References: what they resolve to, and how a move rewrites them.           *)

\* Where a reference in the document at id leads; Root when it climbs out of
\* the bundle and so names nothing (resolveTarget, resolveFileTarget).
Resolve(id, r) ==
  IF r.abs THEN r.path
  ELSE IF r.up >= Len(id) THEN Root
  ELSE SubSeq(id, 1, Len(id) - 1 - r.up) \o r.path

\* Prose outside code, and the five keys whose values name a path.
BodyRefs(refs) == {r \in refs : ~r.field}
PathFields(refs) == {r \in refs : r.field}

LinksFromBody(id, refs) ==
  {Resolve(id, r) : r \in {q \in BodyRefs(refs) : q.doc}} \ {Root, id}

FilesFromBody(id, refs) ==
  {Resolve(id, r) : r \in {q \in BodyRefs(refs) : ~q.doc}} \ {Root}

\* What the links column of a row may be: where its body leads, with or
\* without the row's own address (a move may have brought it there).
Derived(row) ==
  LET leads == {Resolve(row.id, r) : r \in {q \in BodyRefs(row.refs) : q.doc}} \ {Root}
  IN row.links \subseteq leads /\ leads \ {row.id} \subseteq row.links

\* An id is the primary key, and the columns of a live row are those its
\* last writer derived.
ASSUME StartsAssumption ==
  \A start \in Starts : \A c \in Rows :
    /\ start[c].live => start[c].id # Root /\ Derived(start[c])
    /\ \A d \in Rows \ {c} : start[c].id # Root => start[d].id # start[c].id

Absolute(r, p) == [r EXCEPT !.abs = TRUE, !.up = 0, !.path = p]

Follow(j, p) == Rebase(p, j.from, j.to)

\* Mutant: the relative links of a moved document stay relative.
RewriteLinkRelative(id, r, j, olds, absolutize) ==
  IF Resolve(id, r) \in olds THEN Absolute(r, Follow(j, Resolve(id, r))) ELSE r

\* AbsolutizeBodyLinks, then RewriteBodyLinks for each moved id.
RewriteLink(id, r, j, olds, absolutize) ==
  LET p == Resolve(id, r) IN
  IF p \in olds THEN Absolute(r, Follow(j, p))
  ELSE IF absolutize /\ ~r.abs /\ p # Root THEN Absolute(r, p)
  ELSE r

\* ConceptMoves and PrefixMoves: the document that moves and whatever lies
\* beneath its id, or whatever lies beneath the directory.
Carried(j, r, p) ==
  \/ j.op = "move" /\ r.doc /\ p = j.from
  \/ Beneath(p, j.from)

\* A bare name is not made absolute: it may not be a path at all.
LooksLikeRelativePath(r) == ~r.abs /\ (r.up > 0 \/ Len(r.path) > 1)

MovePathValue(id, r, j, absolutize) ==
  LET p == Resolve(id, r) IN
  IF p = Root THEN r
  ELSE IF Carried(j, r, p) THEN Absolute(r, Follow(j, p))
  ELSE IF absolutize /\ LooksLikeRelativePath(r) THEN Absolute(r, p)
  ELSE r

\* repairReferences on the document that sat at id: its body, whose images and
\* links to files stay as written, and the path fields of its frontmatter.
RewriteBody(id, refs, j, olds, absolutize) ==
  {IF r.doc THEN RewriteLink(id, r, j, olds, absolutize) ELSE r : r \in BodyRefs(refs)}

RewritePathFields(id, refs, j, absolutize) ==
  {MovePathValue(id, r, j, absolutize) : r \in PathFields(refs)}

RepairReferences(id, refs, j, olds, absolutize) ==
  RewriteBody(id, refs, j, olds, absolutize) \cup RewritePathFields(id, refs, j, absolutize)

\* A candidate carries a path field and spells the moved name somewhere.
Spells(refs, name) ==
  /\ PathFields(refs) # {}
  /\ \E r \in refs : \E i \in DOMAIN r.path : r.path[i] = name

-----------------------------------------------------------------------------
(* What a transaction sees: the committed rows, its own writes on top.       *)

Exists(c) == object[c].id # Root
At(id) == {c \in Rows : Exists(c) /\ object[c].id = id}
LiveAt(id) == {c \in At(id) : object[c].live}

Mine(m) == {c \in Rows : lock[c] = m}
Got(m) == {c \in Rows : tx[m].got[c] # None}
Todo(m) == {c \in Rows : tx[m].todo[c] # 0}

\* The next row in the order of the statement.
IsNext(m, c) == c \in Todo(m) /\ \A d \in Todo(m) : tx[m].todo[c] <= tx[m].todo[d]

\* The ids a move re-addresses, and the id it sees a row at.
Olds(m) == {object[c].id : c \in tx[m].moved}
IdIn(m, c) == IF c \in tx[m].moved THEN Follow(job[m], object[c].id) ELSE object[c].id

\* A key another transaction is inserting: the outcome is not known yet.
Claimants(m, keys) == {n \in Clients \ {m} : tx[n].keys \cap keys # {}}
Free(m, c) == lock[c] \in {None, m}

\* The rows whose newest version the read of the referrers selects.
Refers(m, c) ==
  /\ object[c].live
  /\ \/ c \in tx[m].moved
     \/ object[c].links \cap Olds(m) # {}
     \/ Spells(object[c].refs, job[m].from[Len(job[m].from)])

Names(m, c) == Exists(c) /\ \E f \in object[c].files : Beneath(f, job[m].from)

Renamed(j, paths) == {IF Beneath(f, j.from) THEN Follow(j, f) ELSE f : f \in paths}

-----------------------------------------------------------------------------
JobType == [op : {"none", "edit", "create", "delete", "move", "moveprefix"},
            from : Seq(STRING), to : Seq(STRING), within : SUBSET Seq(STRING),
            refs : SUBSET RefType, seen : RowType]
TxType == [moved : SUBSET Rows, named : SUBSET Rows, keys : SUBSET Seq(STRING),
           todo : [Rows -> Nat], got : [Rows -> RowType \cup {None}]]
Steps == {"idle", "write", "commit", "rename", "dir", "lockdir",
          "names", "lockname", "lockref"}

TypeOK ==
  /\ object \in [Rows -> RowType]
  /\ stored \in SUBSET Seq(STRING)
  /\ newest \in [Rows -> RowType]
  /\ lock \in [Rows -> Clients \cup {None}]
  /\ pc \in [Clients -> Steps]
  /\ job \in [Clients -> JobType]
  /\ tx \in [Clients -> TxType]
  /\ late \in [Clients -> SUBSET Rows]
  /\ sent \in Nat

Init ==
  /\ object \in Starts
  /\ stored = Uploads
  /\ newest = object
  /\ lock = [c \in Rows |-> None]
  /\ pc = [m \in Clients |-> "idle"]
  /\ job = [m \in Clients |-> NoJob]
  /\ tx = [m \in Clients |-> NoTx(Rows)]
  /\ late = [m \in Clients |-> {}]
  /\ sent = 0

\* Mutant: a refused request keeps its transaction open.
ReleaseNever(m) == UNCHANGED lock

Release(m) == lock' = [c \in Rows |-> IF lock[c] = m THEN None ELSE lock[c]]

\* The request is over: committed, refused or rolled back.
End(m) ==
  /\ Release(m)
  /\ pc' = [pc EXCEPT ![m] = "idle"]
  /\ job' = [job EXCEPT ![m] = NoJob]
  /\ tx' = [tx EXCEPT ![m] = NoTx(Rows)]

Refuse(m) ==
  /\ End(m)
  /\ late' = [late EXCEPT ![m] = {}]
  /\ UNCHANGED <<object, stored, newest, sent>>

\* What others read before these rows were committed is no longer the newest.
Publish(m, rows) ==
  late' = [n \in Clients |-> IF n = m THEN {}
                             ELSE IF pc[n] = "lockref"
                                  THEN late[n] \cup rows ELSE late[n]]

To(m, step) == pc' = [pc EXCEPT ![m] = step]

Admit(m, step, j) ==
  /\ pc[m] = "idle" /\ sent < MaxRequests
  /\ sent' = sent + 1
  /\ To(m, step)
  /\ job' = [job EXCEPT ![m] = j]
  /\ UNCHANGED <<object, stored, newest, lock, tx, late>>

-----------------------------------------------------------------------------
(* The writes a move meets: each locks one row, and commits it whole.        *)

AskEdit(m) == \E id \in Ids, text \in Texts :
  Admit(m, "write", [NoJob EXCEPT !.op = "edit", !.from = id, !.refs = text])

\* Bound: every create in flight finds a row of its own.
AskCreate(m) == \E id \in Ids, text \in Texts :
  /\ Cardinality({n \in Clients : job[n].op = "create"})
       < Cardinality({c \in Rows : ~Exists(c)})
  /\ Admit(m, "write", [NoJob EXCEPT !.op = "create", !.from = id, !.refs = text])

AskDelete(m) == \E id \in Ids :
  Admit(m, "write", [NoJob EXCEPT !.op = "delete", !.from = id])

Fresh(c) == ~Exists(c) /\ lock[c] = None

\* The row a write finds at its address: a live one, for Create a tombstone or
\* else a row of its own.
Target(m, c) ==
  IF job[m].op # "create" THEN c \in LiveAt(job[m].from)
  ELSE IF At(job[m].from) # {} THEN c \in At(job[m].from) /\ ~object[c].live
  ELSE Fresh(c) /\ c = CHOOSE d \in Rows : Fresh(d)

Ready(m) ==
  /\ pc[m] = "write"
  /\ \A c \in At(job[m].from) : Free(m, c)
  /\ Claimants(m, {job[m].from}) = {}

LockRow(m) ==
  /\ Ready(m)
  /\ \E c \in Rows :
       /\ Target(m, c)
       /\ lock' = [lock EXCEPT ![c] = m]
       /\ tx' = [tx EXCEPT ![m].keys = IF Exists(c) THEN {} ELSE {job[m].from}]
  /\ To(m, "commit")
  /\ UNCHANGED <<object, stored, newest, job, late, sent>>

WriteRefused(m) ==
  /\ Ready(m)
  /\ IF job[m].op = "create" THEN LiveAt(job[m].from) # {} ELSE LiveAt(job[m].from) = {}
  /\ Refuse(m)

Written(j, row) ==
  IF j.op = "delete" THEN [row EXCEPT !.live = FALSE]
  ELSE [id |-> j.from, live |-> TRUE, refs |-> j.refs, mark |-> row.mark + 1,
        links |-> LinksFromBody(j.from, j.refs), files |-> FilesFromBody(j.from, j.refs)]

\* One row, and the revision that records it.
Commit(m) ==
  /\ pc[m] = "commit"
  /\ object' = [c \in Rows |-> IF lock[c] = m THEN Written(job[m], object[c]) ELSE object[c]]
  /\ newest' = [c \in Rows |-> IF lock[c] = m THEN Written(job[m], object[c]) ELSE newest[c]]
  /\ Publish(m, Mine(m))
  /\ End(m)
  /\ UNCHANGED <<stored, sent>>

-----------------------------------------------------------------------------
(* Moving a concept, up to the rename of its own row.                        *)

Within(m, id) == UnderAny(id, job[m].within)

\* The service's checks, and the Get ahead of the transaction.
AskMove(m) == \E from, to \in Ids, within \in Scopes, c \in Rows :
  /\ from # to
  /\ UnderAny(from, within) /\ UnderAny(to, within)
  /\ c \in LiveAt(from)
  /\ Admit(m, "rename", [NoJob EXCEPT !.op = "move", !.from = from, !.to = to,
                                      !.within = within, !.seen = object[c]])

\* The probe, and the UPDATE of the row itself: it waits for the row and for
\* whoever is inserting the new key.
CanRename(m) ==
  /\ pc[m] = "rename"
  /\ \A c \in LiveAt(job[m].from) : Free(m, c)
  /\ Claimants(m, {job[m].to}) = {}

Rename(m) ==
  /\ CanRename(m)
  /\ At(job[m].to) = {}
  /\ \E c \in LiveAt(job[m].from) :
       /\ lock' = [lock EXCEPT ![c] = m]
       /\ tx' = [tx EXCEPT ![m].moved = {c}, ![m].keys = {job[m].to}]
  /\ To(m, "names")
  /\ UNCHANGED <<object, stored, newest, job, late, sent>>

RenameRefused(m) ==
  /\ CanRename(m)
  /\ At(job[m].to) # {} \/ LiveAt(job[m].from) = {}
  /\ Refuse(m)

-----------------------------------------------------------------------------
(* Moving a directory, up to the rename of everything in it.                 *)

AskMovePrefix(m) == \E from, to \in Directories, within \in Scopes :
  /\ ~Under(to, from)
  /\ UnderAny(from, within) /\ UnderAny(to, within)
  /\ Admit(m, "dir", [NoJob EXCEPT !.op = "moveprefix", !.from = from, !.to = to,
                                   !.within = within])

\* SELECT ... ORDER BY id FOR UPDATE: the rows and their order are those of
\* the snapshot; tombstones are taken too.
InDirectory(m, c) == Exists(c) /\ Beneath(object[c].id, job[m].from)

ReadDirectory(m) ==
  /\ pc[m] = "dir"
  /\ tx' = [tx EXCEPT ![m].todo =
              [c \in Rows |-> IF InDirectory(m, c) THEN Rank(object[c].id) ELSE 0]]
  /\ To(m, "lockdir")
  /\ UNCHANGED <<object, stored, newest, lock, job, late, sent>>

LockInDirectory(m, c) ==
  /\ pc[m] = "lockdir"
  /\ IsNext(m, c) /\ Free(m, c)
  /\ lock' = [lock EXCEPT ![c] = m]
  /\ tx' = [tx EXCEPT ![m].todo[c] = 0,
                      ![m].moved = @ \cup {d \in {c} : InDirectory(m, d)}]
  /\ UNCHANGED <<object, stored, newest, pc, job, late, sent>>

\* Every row is re-addressed, tombstones and nothing else of theirs.
News(m) == {Follow(job[m], id) : id \in Olds(m)}
Occupied(m) ==
  \/ \E c \in Rows : Exists(c) /\ Beneath(object[c].id, job[m].to)
  \/ \E f \in stored : Beneath(f, job[m].to)
Empty(m) == tx[m].moved = {} /\ \A f \in stored : ~Beneath(f, job[m].from)

CanRekey(m) ==
  /\ pc[m] = "lockdir" /\ Todo(m) = {}
  /\ Claimants(m, News(m)) = {}

Rekey(m) ==
  /\ CanRekey(m)
  /\ ~Empty(m) /\ ~Occupied(m)
  /\ \A id \in Olds(m) \cup News(m) : Within(m, id)
  /\ tx' = [tx EXCEPT ![m].keys = News(m)]
  /\ To(m, "names")
  /\ UNCHANGED <<object, stored, newest, lock, job, late, sent>>

RekeyRefused(m) ==
  /\ CanRekey(m)
  /\ \/ Empty(m) \/ Occupied(m)
     \/ \E id \in Olds(m) \cup News(m) : ~Within(m, id)
  /\ Refuse(m)

-----------------------------------------------------------------------------
(* Both: the documents that name a moved file, then those that refer to a    *)
(* moved concept, then the rewrite.                                          *)

\* UPDATE object SET files: the rows in no particular order.
ReadNames(m) ==
  /\ pc[m] = "names"
  /\ tx' = [tx EXCEPT ![m].todo = [c \in Rows |-> IF Names(m, c) THEN 1 ELSE 0]]
  /\ To(m, "lockname")
  /\ UNCHANGED <<object, stored, newest, lock, job, late, sent>>

LockName(m, c) ==
  /\ pc[m] = "lockname"
  /\ c \in Todo(m) /\ Free(m, c)
  /\ lock' = [lock EXCEPT ![c] = m]
  /\ tx' = [tx EXCEPT ![m].todo[c] = 0,
                      ![m].named = @ \cup {d \in {c} : Names(m, d)}]
  /\ UNCHANGED <<object, stored, newest, pc, job, late, sent>>

\* The read of the referrers; a directory of nothing but files has none.
ReadReferrers(m) ==
  /\ pc[m] = "lockname" /\ Todo(m) = {}
  /\ tx' = [tx EXCEPT ![m].todo =
              [c \in Rows |-> IF tx[m].moved # {} /\ Refers(m, c)
                              THEN Rank(IdIn(m, c)) ELSE 0]]
  /\ To(m, "lockref")
  /\ UNCHANGED <<object, stored, newest, lock, job, late, sent>>

\* Mutant: the referrers are read without FOR UPDATE.
LockReferrerUnlocked(m, c) ==
  /\ pc[m] = "lockref"
  /\ IsNext(m, c)
  /\ tx' = [tx EXCEPT ![m].todo[c] = 0,
                      ![m].got[c] = IF Refers(m, c) THEN object[c] ELSE None]
  /\ UNCHANGED <<object, stored, newest, lock, pc, job, late, sent>>

LockReferrer(m, c) ==
  /\ pc[m] = "lockref"
  /\ IsNext(m, c) /\ Free(m, c)
  /\ lock' = [lock EXCEPT ![c] = m]
  /\ tx' = [tx EXCEPT ![m].todo[c] = 0,
                      ![m].got[c] = IF Refers(m, c) THEN object[c] ELSE None]
  /\ UNCHANGED <<object, stored, newest, pc, job, late, sent>>

\* What each read document says after the move; a moved one resolves from
\* where it sat, and turns absolute when its directory changed.
Parent(id) == SubSeq(id, 1, Len(id) - 1)
Repair(m, c) ==
  LET was == tx[m].got[c].id
  IN RepairReferences(was, tx[m].got[c].refs, job[m], Olds(m),
                      c \in tx[m].moved /\ Parent(was) # Parent(Follow(job[m], was)))

Repaired(m) == {c \in Got(m) : Repair(m, c) # tx[m].got[c].refs}

\* Mutant: a referrer the mover may not write is repaired all the same.
ReachesOutsideNever(m) == FALSE
\* The blast radius: one referrer out of reach refuses the whole move.
ReachesOutside(m) ==
  \E c \in Repaired(m) \ tx[m].moved : ~Within(m, object[c].id)

\* The links column is derived again only where the body changed.
Links(m, c) ==
  IF BodyRefs(Repair(m, c)) = BodyRefs(tx[m].got[c].refs) THEN tx[m].got[c].links
  ELSE LinksFromBody(IdIn(m, c), Repair(m, c))

Row(m, c) ==
  LET files == IF c \in tx[m].named THEN Renamed(job[m], object[c].files)
               ELSE object[c].files
  IN IF c \in Repaired(m)
     THEN [id |-> IdIn(m, c), live |-> TRUE, refs |-> Repair(m, c),
           mark |-> tx[m].got[c].mark, links |-> Links(m, c), files |-> files]
     ELSE [object[c] EXCEPT !.id = IdIn(m, c), !.files = files]

\* A concept's own "move" revision is written from the Get ahead of the
\* transaction, with what the repair folded into it; a directory's from the
\* locked rows.  A repaired referrer gets an "update", a tombstone nothing.
Recorded(m, c) ==
  IF job[m].op = "move" /\ c \in tx[m].moved \ Repaired(m)
  THEN [job[m].seen EXCEPT !.id = job[m].to] ELSE Row(m, c)

CanRewrite(m) == pc[m] = "lockref" /\ Todo(m) = {}

Rewrite(m) ==
  /\ CanRewrite(m)
  /\ ~ReachesOutside(m)
  /\ object' = [c \in Rows |-> Row(m, c)]
  /\ stored' = Renamed(job[m], stored)
  /\ newest' = [c \in Rows |->
                  IF c \in Repaired(m) \/ (c \in tx[m].moved /\ object[c].live)
                  THEN Recorded(m, c) ELSE newest[c]]
  /\ Publish(m, tx[m].moved \cup tx[m].named \cup Repaired(m))
  /\ End(m)
  /\ UNCHANGED sent

RewriteRefused(m) ==
  /\ CanRewrite(m)
  /\ ReachesOutside(m)
  /\ Refuse(m)

-----------------------------------------------------------------------------
(* Waiting: for a lock, or for whoever is inserting the same key.  Postgres  *)
(* breaks a circle by rolling one of its transactions back.                  *)

Holders(rows) == {lock[c] : c \in rows} \ {None}

WaitsFor(m) ==
  LET next == {c \in Rows : IsNext(m, c)} IN
  (CASE pc[m] = "write" -> Holders(At(job[m].from)) \cup Claimants(m, {job[m].from})
     [] pc[m] = "rename" -> Holders(LiveAt(job[m].from)) \cup Claimants(m, {job[m].to})
     [] pc[m] = "lockdir" -> Holders(next) \cup (IF Todo(m) = {} THEN Claimants(m, News(m)) ELSE {})
     [] pc[m] = "lockref" -> Holders(next)
     [] pc[m] = "lockname" /\ \A c \in Todo(m) : ~Free(m, c) -> Holders(Todo(m))
     [] OTHER -> {}) \ {m}

Deadlocked(m) ==
  \E circle \in SUBSET Clients :
    m \in circle /\ \A n \in circle : WaitsFor(n) \cap circle # {}

BreakDeadlock(m) == Deadlocked(m) /\ Refuse(m)

-----------------------------------------------------------------------------
Ask(m) ==
  \/ AskEdit(m) \/ AskCreate(m) \/ AskDelete(m)
  \/ AskMove(m) \/ AskMovePrefix(m)

Step(m) ==
  \/ LockRow(m) \/ WriteRefused(m) \/ Commit(m)
  \/ Rename(m) \/ RenameRefused(m)
  \/ ReadDirectory(m) \/ Rekey(m) \/ RekeyRefused(m)
  \/ \E c \in Rows : LockInDirectory(m, c) \/ LockName(m, c) \/ LockReferrer(m, c)
  \/ ReadNames(m) \/ ReadReferrers(m)
  \/ Rewrite(m) \/ RewriteRefused(m)
  \/ BreakDeadlock(m)

Next == \E m \in Clients : Ask(m) \/ Step(m)

Spec == Init /\ [][Next]_vars
FairSpec == Spec /\ \A m \in Clients : WF_vars(Step(m))

-----------------------------------------------------------------------------
(* Properties.                                                              *)

\* A move writes other documents whole, from what it read of them: it never
\* puts back a text that an edit committed in between had replaced.
NoEditReverted ==
  [][\A m \in Clients : Rewrite(m) =>
       \A c \in Rows : object'[c].mark = object[c].mark]_vars

\* What a reference means once the move is through: a moved concept at its
\* new id, a moved file at its new path, everything else what it meant.
Meaning(m, r, p) ==
  IF \/ r.doc /\ p \in Olds(m)
     \/ ~r.doc /\ Beneath(p, job[m].from)
  THEN Follow(job[m], p) ELSE p

Meanings(m, c, refs) ==
  {Meaning(m, r, Resolve(object[c].id, r)) : r \in refs} \ {Root}

Unseen(m) == late[m] \ Got(m)

\* Links between documents keep their meaning over a move, whichever of the
\* two moved, however the link is written, in every live document that was
\* committed when the move read its referrers; and the links column agrees.
LinksKeepMeaning ==
  [][\A m \in Clients : Rewrite(m) =>
       \A c \in Rows \ Unseen(m) :
         LET link(refs) == {r \in BodyRefs(refs) : r.doc}
             after == {Resolve(object'[c].id, r) : r \in link(object'[c].refs)}
         IN object[c].live =>
              /\ Meanings(m, c, link(object[c].refs)) = after \ {Root}
              /\ object'[c].links \ {object'[c].id} = after \ {Root, object'[c].id}]_vars

\* A mover with a boundary changes what no document outside it says, not
\* even part of the way through a move it is then refused.
StaysInReach ==
  [][\A m \in Clients : Rewrite(m) =>
       \A c \in Rows : [object'[c] EXCEPT !.files = {}] # [object[c] EXCEPT !.files = {}]
         => Within(m, object[c].id) /\ Within(m, object'[c].id)]_vars

\* Every request is answered, though moves lock rows in orders that cross.
RequestsAnswered == \A m \in Clients : pc[m] # "idle" ~> pc[m] = "idle"

\* No reference breaks: also those to files, and those in the frontmatter.
NoReferenceBreaks ==
  [][\A m \in Clients : Rewrite(m) =>
       \A c \in Rows \ Unseen(m) : object[c].live =>
         Meanings(m, c, object[c].refs)
           \subseteq {Resolve(object'[c].id, r) : r \in object'[c].refs}]_vars

\* The newest revision of a document says what the document says.
NewestRevisionAgrees ==
  \A c \in Rows : Exists(c) => newest[c].refs = object[c].refs /\ newest[c].mark = object[c].mark

\* Concurrent moves queue on their locks.
MovesQueue == \A m \in Clients : ~Deadlocked(m)
=============================================================================
