------------------------- MODULE ConceptMovesProofs -------------------------
(***************************************************************************)
(* What ConceptMoves promises for every number of rows, clients, documents   *)
(* and requests.                                                            *)
(***************************************************************************)
EXTENDS ConceptMoves, SequenceTheorems, TLAPS

Path == Seq(STRING)

-----------------------------------------------------------------------------
(* Types.                                                                   *)

\* A path moved with its directory is a path.
LEMMA RebaseType ==
  ASSUME NEW id \in Path, NEW from \in Path, NEW to \in Path
  PROVE  Rebase(id, from, to) \in Path
<1>1. Len(id) \in Nat /\ Len(from) \in Nat
  BY DEF Path
<1>2. \A i \in (Len(from) + 1) .. Len(id) : id[i] \in STRING
  BY <1>1 DEF Path
<1>3. SubSeq(id, Len(from) + 1, Len(id)) \in Path
  BY <1>1, <1>2, SubSeqProperties DEF Path
<1> QED
  BY <1>3 DEF Rebase, Path

\* A path is its own prefix replaced.
LEMMA RebaseSelf ==
  ASSUME NEW id \in Path, NEW to \in Path
  PROVE  Rebase(id, id, to) = to
<1>1. Len(id) \in Nat
  BY DEF Path
<1>2. SubSeq(id, Len(id) + 1, Len(id)) = << >>
  BY <1>1, SubSeqEmpty
<1> QED
  BY <1>2 DEF Rebase, Path

\* What a link names is a path.
LEMMA ResolveType ==
  ASSUME NEW id \in Path, NEW r \in RefType
  PROVE  Resolve(id, r) \in Path
<1>1. Len(id) \in Nat /\ r.up \in Nat /\ r.path \in Path /\ Root \in Path
  BY DEF Path, RefType, Root
<1>2. CASE r.up < Len(id)
  <2>1. \A i \in 1 .. (Len(id) - 1 - r.up) : id[i] \in STRING
    BY <1>1, <1>2 DEF Path
  <2>2. SubSeq(id, 1, Len(id) - 1 - r.up) \in Path
    BY <1>1, <2>1, SubSeqProperties DEF Path
  <2>3. SubSeq(id, 1, Len(id) - 1 - r.up) \o r.path \in Path
    BY <1>1, <2>2 DEF Path
  <2> QED
    BY <1>1, <2>3, Zenon DEF Resolve
<1>3. CASE r.up >= Len(id)
  BY <1>1, <1>3, Zenon DEF Resolve
<1> QED
  BY <1>1, <1>2, <1>3

\* A link respelled absolutely is a link.
LEMMA AbsoluteType ==
  ASSUME NEW r \in RefType, NEW p \in Path PROVE Absolute(r, p) \in RefType
BY DEF Absolute, RefType, Path

\* Repaired references are references.
LEMMA RepairType ==
  ASSUME NEW id \in Path, NEW refs \in SUBSET RefType, NEW j \in JobType,
         NEW olds, NEW absolutize
  PROVE  RepairReferences(id, refs, j, olds, absolutize) \in SUBSET RefType
<1>1. ASSUME NEW r \in RefType
      PROVE  /\ RewriteLink(id, r, j, olds, absolutize) \in RefType
             /\ MovePathValue(id, r, j, absolutize) \in RefType
  <2>1. Resolve(id, r) \in Path
    BY ResolveType
  <2>2. Follow(j, Resolve(id, r)) \in Path
    BY <2>1, RebaseType DEF Follow, JobType, Path
  <2>3. /\ Absolute(r, Resolve(id, r)) \in RefType
        /\ Absolute(r, Follow(j, Resolve(id, r))) \in RefType
    BY <2>1, <2>2, AbsoluteType
  <2>4. RewriteLink(id, r, j, olds, absolutize) \in RefType
    BY <2>3 DEF RewriteLink
  <2>5. MovePathValue(id, r, j, absolutize) \in RefType
    BY <2>3 DEF MovePathValue
  <2> QED
    BY <2>4, <2>5
<1> QED
  BY <1>1 DEF RepairReferences, RewriteBody, RewritePathFields, BodyRefs, PathFields

\* What a body's links name are paths.
LEMMA FromBodyType ==
  ASSUME NEW id \in Path, NEW refs \in SUBSET RefType
  PROVE  /\ LinksFromBody(id, refs) \in SUBSET Path
         /\ FilesFromBody(id, refs) \in SUBSET Path
BY ResolveType DEF LinksFromBody, FilesFromBody, BodyRefs

\* Paths renamed by a move are paths.
LEMMA RenamedType ==
  ASSUME NEW j \in JobType, NEW paths \in SUBSET Path
  PROVE  Renamed(j, paths) \in SUBSET Path
<1>1. \A f \in Path : Follow(j, f) \in Path
  BY RebaseType DEF Follow, JobType, Path
<1> QED
  BY <1>1 DEF Renamed

\* A row nothing holds is a row.
LEMMA AbsentType == Absent \in RowType
BY DEF Absent, RowType, Root

\* An idle client's job is one.
LEMMA NoJobType == NoJob \in JobType
BY AbsentType DEF NoJob, JobType, Root

\* A transaction that has read nothing is one.
LEMMA NoTxType == NoTx(Rows) \in TxType
BY DEF NoTx, TxType

\* The order rows are locked in is a number.
LEMMA RankType == ASSUME NEW id PROVE Rank(id) \in Nat
<1>1. Len(Collation) \in Nat /\ DOMAIN Collation = 1..Len(Collation)
  BY MovesAssumption
<1>2. id \in Ids => \E i \in DOMAIN Collation : Collation[i] = id
  BY DEF Ids
<1> QED
  BY <1>1, <1>2 DEF Rank

\* A row's address, before a move, after it and as its transaction sees it.
LEMMA IdInType ==
  ASSUME TypeOK, NEW m \in Clients, NEW c \in Rows
  PROVE  /\ object[c].id \in Path /\ Follow(job[m], object[c].id) \in Path
         /\ IdIn(m, c) \in Path
<1>1. object[c].id \in Path /\ job[m].from \in Path /\ job[m].to \in Path
  BY DEF TypeOK, RowType, JobType, Path
<1> QED
  BY <1>1, RebaseType DEF IdIn, Follow

\* A row as the move is about to write it.
LEMMA RowTyped ==
  ASSUME TypeOK, NEW m \in Clients, NEW c \in Rows
  PROVE  Row(m, c) \in RowType
<1>1. object[c] \in RowType /\ job[m] \in JobType
  BY DEF TypeOK
<1>2. /\ object[c].files \in SUBSET Path
      /\ Renamed(job[m], object[c].files) \in SUBSET Path
  BY <1>1, RenamedType DEF RowType, Path
<1>3. IdIn(m, c) \in Path
  BY IdInType
<1>4. CASE c \in Repaired(m)
  <2>1. tx[m].got[c] \in RowType
    BY <1>4 DEF Repaired, Got, TypeOK, TxType
  <2>2. Repair(m, c) \in SUBSET RefType
    BY <1>1, <2>1, RepairType DEF Repair, RowType, Path
  <2>3. Links(m, c) \in SUBSET Path
    BY <1>3, <2>1, <2>2, FromBodyType DEF Links, RowType, Path
  <2> QED
    BY <1>2, <1>3, <1>4, <2>1, <2>2, <2>3 DEF Row, RowType, Path
<1>5. CASE c \notin Repaired(m)
  BY <1>1, <1>2, <1>3, <1>5 DEF Row, RowType, Path
<1> QED
  BY <1>4, <1>5

\* Every address the model knows is a path.
LEMMA IdsType == Ids \subseteq Path
<1>1. DOMAIN Collation = 1..Len(Collation) /\ \A i \in DOMAIN Collation : Collation[i] \in Path
  BY MovesAssumption DEF Path
<1> QED
  BY <1>1 DEF Ids

\* What a request asks for.
LEMMA AskedType ==
  ASSUME TypeOK, NEW m \in Clients, Ask(m)
  PROVE  /\ job' \in [Clients -> JobType]
         /\ pc' \in [Clients -> Steps]
         /\ sent' \in Nat
         /\ UNCHANGED <<object, stored, newest, lock, tx, late>>
<1>1. \A text \in Texts : text \in SUBSET RefType
  BY MovesAssumption
<1>2. NoJob \in JobType /\ Ids \subseteq Seq(STRING) /\ Directories \subseteq Seq(STRING)
  BY NoJobType, IdsType, MovesAssumption DEF Path
<1>3. \A s \in Scopes : s \in SUBSET Seq(STRING)
  BY MovesAssumption
<1>4. ASSUME NEW j \in JobType, NEW step \in Steps, Admit(m, step, j)
      PROVE  /\ job' \in [Clients -> JobType]
             /\ pc' \in [Clients -> Steps]
             /\ sent' \in Nat
             /\ UNCHANGED <<object, stored, newest, lock, tx, late>>
  BY <1>4 DEF Admit, To, TypeOK
<1>5. CASE AskEdit(m)
  <2>1. PICK id \in Ids, text \in Texts :
          Admit(m, "write", [NoJob EXCEPT !.op = "edit", !.from = id, !.refs = text])
    BY <1>5 DEF AskEdit
  <2>2. [NoJob EXCEPT !.op = "edit", !.from = id, !.refs = text] \in JobType
    BY <1>1, <1>2 DEF JobType
  <2> QED
    BY <1>4, <2>1, <2>2 DEF Steps
<1>6. CASE AskCreate(m)
  <2>1. PICK id \in Ids, text \in Texts :
          Admit(m, "write", [NoJob EXCEPT !.op = "create", !.from = id, !.refs = text])
    BY <1>6 DEF AskCreate
  <2>2. [NoJob EXCEPT !.op = "create", !.from = id, !.refs = text] \in JobType
    BY <1>1, <1>2 DEF JobType
  <2> QED
    BY <1>4, <2>1, <2>2 DEF Steps
<1>7. CASE AskDelete(m)
  <2>1. PICK id \in Ids :
          Admit(m, "write", [NoJob EXCEPT !.op = "delete", !.from = id])
    BY <1>7 DEF AskDelete
  <2>2. [NoJob EXCEPT !.op = "delete", !.from = id] \in JobType
    BY <1>2 DEF JobType
  <2> QED
    BY <1>4, <2>1, <2>2 DEF Steps
<1>8. CASE AskMove(m)
  <2>1. PICK from \in Ids, to \in Ids, within \in Scopes, c \in Rows :
          Admit(m, "rename", [NoJob EXCEPT !.op = "move", !.from = from, !.to = to,
                                           !.within = within, !.seen = object[c]])
    BY <1>8 DEF AskMove
  <2>2. object[c] \in RowType
    BY DEF TypeOK
  <2>3. [NoJob EXCEPT !.op = "move", !.from = from, !.to = to,
                     !.within = within, !.seen = object[c]] \in JobType
    BY <1>2, <1>3, <2>2 DEF JobType
  <2> QED
    BY <1>4, <2>1, <2>3 DEF Steps
<1>9. CASE AskMovePrefix(m)
  <2>1. PICK from \in Directories, to \in Directories, within \in Scopes :
          Admit(m, "dir", [NoJob EXCEPT !.op = "moveprefix", !.from = from, !.to = to,
                                        !.within = within])
    BY <1>9 DEF AskMovePrefix
  <2>2. [NoJob EXCEPT !.op = "moveprefix", !.from = from, !.to = to,
                     !.within = within] \in JobType
    BY <1>2, <1>3 DEF JobType
  <2> QED
    BY <1>4, <2>1, <2>2 DEF Steps
<1> QED
  BY <1>5, <1>6, <1>7, <1>8, <1>9 DEF Ask

\* The end of a request frees its locks and keeps the types.
LEMMA EndType ==
  ASSUME TypeOK, NEW m \in Clients, End(m)
  PROVE  /\ lock' \in [Rows -> Clients \cup {None}]
         /\ pc' \in [Clients -> Steps]
         /\ job' \in [Clients -> JobType]
         /\ tx' \in [Clients -> TxType]
BY NoJobType, NoTxType DEF End, Release, TypeOK, Steps

\* A refusal publishes nothing.
LEMMA RefuseType ==
  ASSUME TypeOK, NEW m \in Clients, Refuse(m) PROVE TypeOK'
BY EndType DEF Refuse, TypeOK

\* What a commit publishes is late for the others, as rows.
LEMMA PublishType ==
  ASSUME TypeOK, NEW m \in Clients, NEW rows \in SUBSET Rows, Publish(m, rows)
  PROVE  late' \in [Clients -> SUBSET Rows]
BY DEF Publish, TypeOK

\* A row an edit writes is a row.
LEMMA WrittenType ==
  ASSUME NEW j \in JobType, NEW row \in RowType PROVE Written(j, row) \in RowType
<1>1. /\ LinksFromBody(j.from, j.refs) \in SUBSET Seq(STRING)
      /\ FilesFromBody(j.from, j.refs) \in SUBSET Seq(STRING)
      /\ j.from \in Seq(STRING) /\ j.refs \in SUBSET RefType
  BY FromBodyType DEF JobType, Path
<1>2. CASE j.op = "delete"
  BY <1>2 DEF Written, RowType
<1>3. CASE j.op # "delete"
  BY <1>1, <1>3 DEF Written, RowType
<1> QED
  BY <1>2, <1>3

\* The addresses a transaction adds are paths.
LEMMA NewsType ==
  ASSUME TypeOK, NEW m \in Clients PROVE News(m) \in SUBSET Seq(STRING)
<1>1. tx[m].moved \in SUBSET Rows
  BY DEF TypeOK, TxType
<1> QED
  BY <1>1, IdInType DEF News, Olds, Path

\* A transaction's record after a step that touches only these parts.
LEMMA TodoType ==
  ASSUME TypeOK, NEW m \in Clients, NEW todo \in [Rows -> Nat]
  PROVE  [tx EXCEPT ![m].todo = todo] \in [Clients -> TxType]
<1>1. tx \in [Clients -> TxType] /\ tx[m] \in TxType
  BY DEF TypeOK
<1>2. [tx[m] EXCEPT !.todo = todo] \in TxType
  BY <1>1 DEF TxType
<1> QED
  BY <1>1, <1>2

\* A transaction keeps its type with the unique keys it waits for.
LEMMA KeysType ==
  ASSUME TypeOK, NEW m \in Clients, NEW keys \in SUBSET Seq(STRING)
  PROVE  [tx EXCEPT ![m].keys = keys] \in [Clients -> TxType]
<1>1. tx \in [Clients -> TxType] /\ tx[m] \in TxType
  BY DEF TypeOK
<1>2. [tx[m] EXCEPT !.keys = keys] \in TxType
  BY <1>1 DEF TxType
<1> QED
  BY <1>1, <1>2

\* A transaction keeps its type as it takes its rows one by one.
LEMMA TakenType ==
  ASSUME TypeOK, NEW m \in Clients, NEW c \in Rows
  PROVE  /\ [tx EXCEPT ![m].todo[c] = 0,
                       ![m].moved = @ \cup {d \in {c} : InDirectory(m, d)}] \in [Clients -> TxType]
         /\ [tx EXCEPT ![m].todo[c] = 0,
                       ![m].named = @ \cup {d \in {c} : Names(m, d)}] \in [Clients -> TxType]
         /\ [tx EXCEPT ![m].todo[c] = 0,
                       ![m].got[c] = IF Refers(m, c) THEN object[c] ELSE None]
              \in [Clients -> TxType]
<1> DEFINE t == tx[m]
           todo == [t.todo EXCEPT ![c] = 0]
           got == [t.got EXCEPT ![c] = IF Refers(m, c) THEN object[c] ELSE None]
<1>1. tx \in [Clients -> TxType] /\ t \in TxType /\ object[c] \in RowType
  BY DEF TypeOK
<1>2. todo \in [Rows -> Nat] /\ got \in [Rows -> RowType \cup {None}]
  BY <1>1 DEF TxType
<1>3. \A rows \in SUBSET Rows :
        /\ [t EXCEPT !.todo = todo, !.moved = rows] \in TxType
        /\ [t EXCEPT !.todo = todo, !.named = rows] \in TxType
  BY <1>1, <1>2 DEF TxType
<1>4. [t EXCEPT !.todo = todo, !.got = got] \in TxType
  BY <1>1, <1>2 DEF TxType
<1>5. /\ t.moved \cup {d \in {c} : InDirectory(m, d)} \in SUBSET Rows
      /\ t.named \cup {d \in {c} : Names(m, d)} \in SUBSET Rows
  BY <1>1 DEF TxType
<1>6. /\ [t EXCEPT !.todo = todo, !.moved = t.moved \cup {d \in {c} : InDirectory(m, d)}] \in TxType
      /\ [t EXCEPT !.todo = todo, !.named = t.named \cup {d \in {c} : Names(m, d)}] \in TxType
  BY <1>3, <1>5
<1> QED
  BY <1>1, <1>4, <1>6

\* Every step keeps the types.
LEMMA TypeStep ==
  ASSUME TypeOK, [Next]_vars PROVE TypeOK'
<1>1. CASE UNCHANGED vars
  BY <1>1 DEF TypeOK, vars
<1>2. ASSUME NEW m \in Clients, Ask(m) PROVE TypeOK'
  BY <1>2, AskedType DEF TypeOK
<1>3. ASSUME NEW m \in Clients, Step(m) PROVE TypeOK'
  <2> USE <1>3
  <2>0. tx[m] \in TxType /\ job[m] \in JobType
    BY DEF TypeOK
  <2>1. CASE LockRow(m)
    <3>1. job[m].from \in Seq(STRING)
      BY <2>0 DEF JobType
    <3>2. PICK c \in Rows :
            /\ lock' = [lock EXCEPT ![c] = m]
            /\ tx' = [tx EXCEPT ![m].keys = IF Exists(c) THEN {} ELSE {job[m].from}]
      BY <2>1 DEF LockRow
    <3>3. tx' \in [Clients -> TxType]
      BY <3>1, <3>2, KeysType
    <3> QED
      BY <2>1, <3>2, <3>3 DEF LockRow, To, Steps, TypeOK
  <2>2. CASE Commit(m)
    <3>1. \A c \in Rows : object[c] \in RowType /\ newest[c] \in RowType
                           /\ Written(job[m], object[c]) \in RowType
      BY <2>0, WrittenType DEF TypeOK
    <3>2. Mine(m) \in SUBSET Rows
      BY DEF Mine
    <3>3. object' \in [Rows -> RowType] /\ newest' \in [Rows -> RowType]
      BY <2>2, <3>1 DEF Commit
    <3>4. late' \in [Clients -> SUBSET Rows]
      BY <2>2, <3>2, PublishType DEF Commit
    <3>5. UNCHANGED <<stored, sent>> /\ End(m)
      BY <2>2 DEF Commit
    <3> QED
      BY <3>3, <3>4, <3>5, EndType DEF TypeOK
  <2>3. CASE Rename(m)
    <3>1. PICK c \in Rows :
            /\ lock' = [lock EXCEPT ![c] = m]
            /\ tx' = [tx EXCEPT ![m].moved = {c}, ![m].keys = {job[m].to}]
      BY <2>3 DEF Rename, LiveAt, At
    <3>2. job[m].to \in Seq(STRING)
      BY <2>0 DEF JobType
    <3>3. [tx[m] EXCEPT !.moved = {c}, !.keys = {job[m].to}] \in TxType
      BY <2>0, <3>2 DEF TxType
    <3>4. tx' \in [Clients -> TxType]
      BY <3>1, <3>3 DEF TypeOK
    <3> QED
      BY <2>3, <3>1, <3>4 DEF Rename, To, Steps, TypeOK
  <2>4. CASE ReadDirectory(m)
    <3>1. [c \in Rows |-> IF InDirectory(m, c) THEN Rank(object[c].id) ELSE 0] \in [Rows -> Nat]
      BY RankType
    <3> QED
      BY <2>4, <3>1, TodoType DEF ReadDirectory, To, Steps, TypeOK
  <2>5. CASE Rekey(m)
    BY <2>5, NewsType, KeysType DEF Rekey, To, Steps, TypeOK
  <2>6. ASSUME NEW c \in Rows, LockInDirectory(m, c) PROVE TypeOK'
    BY <2>6, TakenType DEF LockInDirectory, TypeOK
  <2>7. ASSUME NEW c \in Rows, LockName(m, c) PROVE TypeOK'
    BY <2>7, TakenType DEF LockName, TypeOK
  <2>8. ASSUME NEW c \in Rows, LockReferrer(m, c) PROVE TypeOK'
    BY <2>8, TakenType DEF LockReferrer, TypeOK
  <2>9. CASE ReadNames(m)
    <3>1. [c \in Rows |-> IF Names(m, c) THEN 1 ELSE 0] \in [Rows -> Nat]
      OBVIOUS
    <3> QED
      BY <2>9, <3>1, TodoType DEF ReadNames, To, Steps, TypeOK
  <2>10. CASE ReadReferrers(m)
    <3>1. [c \in Rows |-> IF tx[m].moved # {} /\ Refers(m, c)
                          THEN Rank(IdIn(m, c)) ELSE 0] \in [Rows -> Nat]
      BY RankType
    <3> QED
      BY <2>10, <3>1, TodoType DEF ReadReferrers, To, Steps, TypeOK
  <2>11. CASE Rewrite(m)
    <3>1. \A c \in Rows : Row(m, c) \in RowType
      BY RowTyped
    <3>2. \A c \in Rows : Recorded(m, c) \in RowType
      <4>1. job[m].seen \in RowType /\ job[m].to \in Seq(STRING)
        BY <2>0 DEF JobType
      <4>2. [job[m].seen EXCEPT !.id = job[m].to] \in RowType
        BY <4>1 DEF RowType
      <4> QED
        BY <3>1, <4>2 DEF Recorded
    <3>3. object' \in [Rows -> RowType] /\ newest' \in [Rows -> RowType]
      BY <2>11, <3>1, <3>2 DEF Rewrite, TypeOK
    <3>4. stored' \in SUBSET Seq(STRING)
      BY <2>0, <2>11, RenamedType DEF Rewrite, TypeOK, Path
    <3>5. tx[m].moved \cup tx[m].named \cup Repaired(m) \in SUBSET Rows
      BY <2>0 DEF TxType, Repaired, Got
    <3>6. late' \in [Clients -> SUBSET Rows]
      BY <2>11, <3>5, PublishType DEF Rewrite
    <3>7. End(m) /\ UNCHANGED sent
      BY <2>11 DEF Rewrite
    <3> QED
      BY <3>3, <3>4, <3>6, <3>7, EndType DEF TypeOK
  <2>12. CASE \/ WriteRefused(m) \/ RenameRefused(m) \/ RekeyRefused(m)
              \/ RewriteRefused(m) \/ BreakDeadlock(m)
    BY <2>12, RefuseType
       DEF WriteRefused, RenameRefused, RekeyRefused, RewriteRefused, BreakDeadlock
  <2> QED
    BY <2>1, <2>2, <2>3, <2>4, <2>5, <2>6, <2>7, <2>8, <2>9, <2>10, <2>11, <2>12 DEF Step
<1> QED
  BY <1>1, <1>2, <1>3 DEF Next

\* The types hold at the start.
LEMMA TypeInit == ASSUME Init PROVE TypeOK
<1>1. object \in [Rows -> RowType] /\ stored \in SUBSET Seq(STRING)
  BY MovesAssumption DEF Init
<1> QED
  BY <1>1, NoJobType, NoTxType DEF Init, TypeOK, Steps

\* Every variable of the moves keeps its type.
THEOREM TypeCorrect == Spec => []TypeOK
<1>1. Init => TypeOK
  BY TypeInit
<1>2. TypeOK /\ [Next]_vars => TypeOK'
  BY TypeStep
<1> QED
  BY <1>1, <1>2, PTL DEF Spec

-----------------------------------------------------------------------------
(* What a transaction read under its locks is still so when it writes.       *)

\* The rows a transaction works on, it has locked.
Claims(m, c) == c \in tx[m].moved \/ c \in tx[m].named \/ tx[m].got[c] # None

Locked == \A m \in Clients, c \in Rows : Claims(m, c) => lock[c] = m

GotCurrent ==
  \A m \in Clients, c \in Rows :
    tx[m].got[c] # None => tx[m].got[c].mark = object[c].mark

\* A move of one concept was asked for within reach, and what either kind of
\* move has renamed lies within it on both sides.
InReach ==
  \A m \in Clients :
    /\ pc[m] = "rename" => Within(m, job[m].from) /\ Within(m, job[m].to)
    /\ pc[m] \in {"names", "lockname", "lockref"} =>
         \A c \in tx[m].moved :
           Within(m, object[c].id) /\ Within(m, Follow(job[m], object[c].id))

MovesInv == TypeOK /\ Locked /\ GotCurrent /\ InReach

\* The invariant of moves holds at the start.
LEMMA MovesInit == ASSUME Init PROVE MovesInv
<1>1. TypeOK
  BY TypeInit
<1> QED
  BY <1>1 DEF Init, MovesInv, Locked, GotCurrent, InReach, Claims, NoTx

\* A row keeps its mark and its address when a move writes it and it is
\* neither moved nor read by that move.
LEMMA RowKept ==
  ASSUME MovesInv, NEW m \in Clients, NEW c \in Rows
  PROVE  /\ Row(m, c).mark = object[c].mark
         /\ ~Claims(m, c) => Row(m, c) = object[c]
         /\ c \notin tx[m].moved => Row(m, c).id = object[c].id
<1>1. object[c] \in RowType
  BY DEF MovesInv, TypeOK
<1>2. CASE c \in Repaired(m)
  <2>1. tx[m].got[c] # None
    BY <1>2 DEF Repaired, Got
  <2>2. tx[m].got[c].mark = object[c].mark
    BY <2>1 DEF MovesInv, GotCurrent
  <2> QED
    BY <1>2, <2>1, <2>2 DEF Row, IdIn, Claims
<1>3. CASE c \notin Repaired(m)
  BY <1>1, <1>3 DEF Row, IdIn, Claims, RowType
<1> QED
  BY <1>2, <1>3

\* Ending a request frees its own locks and forgets its own claims.
LEMMA EndKeeps ==
  ASSUME MovesInv, NEW m \in Clients, End(m),
         \A c \in Rows : lock[c] # m =>
           object'[c].mark = object[c].mark /\ object'[c].id = object[c].id
  PROVE  Locked' /\ GotCurrent' /\ InReach'
<1>1. m # None
  BY MovesAssumption
<1>2. tx'[m] = NoTx(Rows) /\ pc'[m] = "idle"
  BY DEF End, MovesInv, TypeOK
<1>3. ASSUME NEW n \in Clients, n # m
      PROVE  /\ tx'[n] = tx[n] /\ pc'[n] = pc[n] /\ job'[n] = job[n]
             /\ \A c \in Rows : lock[c] = n => lock'[c] = n /\ lock[c] # m
  BY <1>3 DEF End, Release, MovesInv, TypeOK
<1>4. Locked'
  <2> SUFFICES ASSUME NEW n \in Clients, NEW c \in Rows, Claims(n, c)'
               PROVE  lock'[c] = n
    BY DEF Locked
  <2>1. CASE n = m
    BY <1>2, <2>1 DEF Claims, NoTx
  <2>2. CASE n # m
    BY <1>3, <2>2 DEF Claims, MovesInv, Locked
  <2> QED
    BY <2>1, <2>2
<1>5. GotCurrent'
  <2> SUFFICES ASSUME NEW n \in Clients, NEW c \in Rows, tx'[n].got[c] # None
               PROVE  tx'[n].got[c].mark = object'[c].mark
    BY DEF GotCurrent
  <2>1. CASE n = m
    BY <1>2, <2>1 DEF NoTx
  <2>2. CASE n # m
    BY <1>3, <2>2 DEF Claims, MovesInv, Locked, GotCurrent
  <2> QED
    BY <2>1, <2>2
<1>6. InReach'
  <2> SUFFICES ASSUME NEW n \in Clients
               PROVE  /\ pc'[n] = "rename" => Within(n, job[n].from)' /\ Within(n, job[n].to)'
                      /\ pc'[n] \in {"names", "lockname", "lockref"} =>
                           \A c \in tx'[n].moved :
                             Within(n, object[c].id)' /\ Within(n, Follow(job[n], object[c].id))'
    BY DEF InReach
  <2>1. CASE n = m
    BY <1>2, <2>1
  <2>2. CASE n # m
    <3>1. tx[n].moved \in SUBSET Rows
      BY DEF MovesInv, TypeOK, TxType
    <3>2. \A c \in tx[n].moved : object'[c].id = object[c].id
      BY <1>3, <2>2, <3>1 DEF Claims, MovesInv, Locked
    <3> QED
      BY <1>3, <2>2, <3>2 DEF MovesInv, InReach, Within
  <2> QED
    BY <2>1, <2>2
<1> QED
  BY <1>4, <1>5, <1>6

\* A step that locks rows nobody else holds, and claims none but those.
LEMMA LockKeeps ==
  ASSUME MovesInv, NEW m \in Clients, NEW rows \in SUBSET Rows,
         \A c \in rows : Free(m, c),
         lock' = [c \in Rows |-> IF c \in rows THEN m ELSE lock[c]],
         object' = object,
         \A n \in Clients \ {m} : tx'[n] = tx[n],
         \A c \in Rows : Claims(m, c)' => Claims(m, c) \/ c \in rows,
         \A c \in Rows : tx'[m].got[c] \in {None, tx[m].got[c], object[c]}
  PROVE  Locked' /\ GotCurrent'
<1>1. \A n \in Clients : n # None
  BY MovesAssumption
<1>2. Locked'
  <2> SUFFICES ASSUME NEW n \in Clients, NEW c \in Rows, Claims(n, c)'
               PROVE  lock'[c] = n
    BY DEF Locked
  <2>1. CASE n = m
    BY <2>1 DEF MovesInv, Locked
  <2>2. CASE n # m
    <3>1. lock[c] = n
      BY <2>2 DEF Claims, MovesInv, Locked
    <3>2. c \notin rows
      BY <1>1, <2>2, <3>1 DEF Free
    <3> QED
      BY <3>1, <3>2
  <2> QED
    BY <2>1, <2>2
<1>3. GotCurrent'
  BY DEF MovesInv, GotCurrent
<1> QED
  BY <1>2, <1>3

\* Requests and refusals change no row.
LEMMA AskKeeps ==
  ASSUME MovesInv, NEW m \in Clients, Ask(m) PROVE MovesInv'
<1>1. TypeOK' /\ UNCHANGED <<object, lock, tx>>
  BY TypeStep, AskedType DEF MovesInv, Next
<1>2. Locked' /\ GotCurrent'
  BY <1>1 DEF MovesInv, Locked, GotCurrent, Claims
<1>3. ASSUME pc'[m] \in {"write", "dir", "rename"},
             pc'[m] = "rename" => /\ UnderAny(job'[m].from, job'[m].within)
                                  /\ UnderAny(job'[m].to, job'[m].within),
             \A n \in Clients \ {m} : pc'[n] = pc[n] /\ job'[n] = job[n]
      PROVE  InReach'
  <2> SUFFICES ASSUME NEW n \in Clients
               PROVE  /\ pc'[n] = "rename" => Within(n, job[n].from)' /\ Within(n, job[n].to)'
                      /\ pc'[n] \in {"names", "lockname", "lockref"} =>
                           \A c \in tx'[n].moved :
                             Within(n, object[c].id)' /\ Within(n, Follow(job[n], object[c].id))'
    BY DEF InReach
  <2>1. CASE n = m
    BY <1>3, <2>1 DEF Within
  <2>2. CASE n # m
    <3>1. job'[n] = job[n] /\ pc'[n] = pc[n]
      BY <1>3, <2>2
    <3> QED
      BY <1>1, <3>1 DEF MovesInv, InReach, Within
  <2> QED
    BY <2>1, <2>2
<1>4. \A n \in Clients \ {m} : pc'[n] = pc[n] /\ job'[n] = job[n]
  BY DEF Ask, AskEdit, AskCreate, AskDelete, AskMove, AskMovePrefix, Admit, To, MovesInv, TypeOK
<1>5. CASE AskEdit(m) \/ AskCreate(m) \/ AskDelete(m) \/ AskMovePrefix(m)
  <2>1. pc'[m] \in {"write", "dir"}
    BY <1>5 DEF AskEdit, AskCreate, AskDelete, AskMovePrefix, Admit, To, MovesInv, TypeOK
  <2> QED
    BY <1>1, <1>2, <1>3, <1>4, <2>1 DEF MovesInv
<1>6. CASE AskMove(m)
  <2>1. PICK from \in Ids, to \in Ids, within \in Scopes, c \in Rows :
          /\ UnderAny(from, within) /\ UnderAny(to, within)
          /\ Admit(m, "rename", [NoJob EXCEPT !.op = "move", !.from = from, !.to = to,
                                              !.within = within, !.seen = object[c]])
    BY <1>6 DEF AskMove
  <2>2. pc'[m] = "rename" /\ job'[m] = [NoJob EXCEPT !.op = "move", !.from = from, !.to = to,
                                                    !.within = within, !.seen = object[c]]
    BY <2>1 DEF Admit, To, MovesInv, TypeOK
  <2>3. job'[m].from = from /\ job'[m].to = to /\ job'[m].within = within
    BY <2>2 DEF NoJob
  <2> QED
    BY <1>1, <1>2, <1>3, <1>4, <2>1, <2>2, <2>3 DEF MovesInv
<1> QED
  BY <1>5, <1>6 DEF Ask

\* A step inside a move that leaves what it has renamed as it was.
LEMMA ReachKeeps ==
  ASSUME MovesInv, NEW m \in Clients,
         UNCHANGED <<object, job>>,
         \A n \in Clients \ {m} : tx'[n] = tx[n] /\ pc'[n] = pc[n],
         pc'[m] # "rename",
         pc'[m] \in {"names", "lockname", "lockref"} =>
           \A c \in tx'[m].moved :
             Within(m, object[c].id) /\ Within(m, Follow(job[m], object[c].id))
  PROVE  InReach'
BY DEF MovesInv, InReach, Within

\* Every step of a request keeps the invariant of moves.
LEMMA StepKeeps ==
  ASSUME MovesInv, NEW m \in Clients, Step(m) PROVE MovesInv'
<1>0. TypeOK' /\ TypeOK
  BY TypeStep DEF MovesInv, Next
<1>a. tx \in [Clients -> TxType] /\ tx[m] \in TxType /\ pc \in [Clients -> Steps]
  BY <1>0 DEF TypeOK
<1>b. DOMAIN tx = Clients /\ tx[m].got \in [Rows -> RowType \cup {None}]
       /\ lock \in [Rows -> Clients \cup {None}] /\ DOMAIN pc = Clients
  BY <1>0, <1>a DEF TypeOK, TxType
<1>1. CASE Refuse(m)
  <2>1. object' = object /\ End(m)
    BY <1>1 DEF Refuse
  <2> QED
    BY <1>0, <2>1, EndKeeps DEF MovesInv
<1>2. CASE Commit(m)
  <2>1. End(m) /\ \A c \in Rows : lock[c] # m => object'[c] = object[c]
    BY <1>2 DEF Commit
  <2> QED
    BY <1>0, <2>1, EndKeeps DEF MovesInv
<1>3. CASE Rewrite(m)
  <2>1. End(m) /\ \A c \in Rows : object'[c] = Row(m, c)
    BY <1>3 DEF Rewrite
  <2>2. \A c \in Rows : lock[c] # m => ~Claims(m, c)
    BY DEF MovesInv, Locked
  <2>3. \A c \in Rows : lock[c] # m => object'[c] = object[c]
    BY <2>1, <2>2, RowKept
  <2> QED
    BY <1>0, <2>1, <2>3, EndKeeps DEF MovesInv
<1>4. CASE LockRow(m)
  <2>1. PICK c \in Rows :
          /\ Target(m, c)
          /\ lock' = [lock EXCEPT ![c] = m]
          /\ tx' = [tx EXCEPT ![m].keys = IF Exists(c) THEN {} ELSE {job[m].from}]
    BY <1>4 DEF LockRow
  <2>2. Free(m, c)
    BY <1>4, <2>1 DEF LockRow, Ready, Target, LiveAt, Fresh, Free
  <2>3. /\ tx'[m].moved = tx[m].moved /\ tx'[m].named = tx[m].named
        /\ tx'[m].got = tx[m].got /\ \A n \in Clients \ {m} : tx'[n] = tx[n]
    BY <1>a, <2>1 DEF TxType
  <2>4. lock' = [d \in Rows |-> IF d \in {c} THEN m ELSE lock[d]]
    BY <1>b, <2>1
  <2>5. UNCHANGED <<object, job>> /\ pc' = [pc EXCEPT ![m] = "commit"]
    BY <1>4 DEF LockRow, To
  <2>6. Locked' /\ GotCurrent'
    <3>1. \A d \in Rows : Claims(m, d)' => Claims(m, d) \/ d \in {c}
      BY <2>3 DEF Claims
    <3> QED
      BY <2>2, <2>3, <2>4, <2>5, <3>1, LockKeeps
  <2>7. InReach'
    BY <1>b, <2>3, <2>5, ReachKeeps
  <2> QED
    BY <1>0, <2>6, <2>7 DEF MovesInv
<1>5. CASE Rename(m)
  <2>1. PICK c \in LiveAt(job[m].from) :
          /\ lock' = [lock EXCEPT ![c] = m]
          /\ tx' = [tx EXCEPT ![m].moved = {c}, ![m].keys = {job[m].to}]
    BY <1>5 DEF Rename
  <2>2. c \in Rows /\ Free(m, c) /\ object[c].id = job[m].from
    BY <1>5, <2>1 DEF Rename, CanRename, LiveAt, At
  <2>3. /\ tx'[m].moved = {c} /\ tx'[m].named = tx[m].named
        /\ tx'[m].got = tx[m].got /\ \A n \in Clients \ {m} : tx'[n] = tx[n]
    BY <1>a, <2>1 DEF TxType
  <2>4. lock' = [d \in Rows |-> IF d \in {c} THEN m ELSE lock[d]]
    BY <1>b, <2>1
  <2>5. UNCHANGED <<object, job>> /\ pc' = [pc EXCEPT ![m] = "names"] /\ pc[m] = "rename"
    BY <1>5 DEF Rename, CanRename, To
  <2>6. Locked' /\ GotCurrent'
    <3>1. \A d \in Rows : Claims(m, d)' => Claims(m, d) \/ d \in {c}
      BY <2>3 DEF Claims
    <3> QED
      BY <2>2, <2>3, <2>4, <2>5, <3>1, LockKeeps
  <2>7. Follow(job[m], object[c].id) = job[m].to
    BY <1>0, <2>2, RebaseSelf DEF Follow, TypeOK, JobType, Path
  <2>8. Within(m, job[m].from) /\ Within(m, job[m].to)
    BY <2>5 DEF MovesInv, InReach
  <2>9. InReach'
    BY <1>b, <2>2, <2>3, <2>5, <2>7, <2>8, ReachKeeps
  <2> QED
    BY <1>0, <2>6, <2>9 DEF MovesInv
<1>6. ASSUME NEW c \in Rows, LockInDirectory(m, c) PROVE MovesInv'
  <2>1. /\ tx'[m].moved \subseteq tx[m].moved \cup {c} /\ tx'[m].named = tx[m].named
        /\ tx'[m].got = tx[m].got /\ \A n \in Clients \ {m} : tx'[n] = tx[n]
    BY <1>6, <1>a DEF LockInDirectory, TxType
  <2>2. lock' = [d \in Rows |-> IF d \in {c} THEN m ELSE lock[d]]
    BY <1>6, <1>b DEF LockInDirectory
  <2>3. UNCHANGED <<object, job, pc>> /\ pc[m] = "lockdir" /\ Free(m, c)
    BY <1>6 DEF LockInDirectory
  <2>4. Locked' /\ GotCurrent'
    <3>1. \A d \in Rows : Claims(m, d)' => Claims(m, d) \/ d \in {c}
      BY <2>1 DEF Claims
    <3> QED
      BY <2>1, <2>2, <2>3, <3>1, LockKeeps
  <2>5. InReach'
    BY <2>1, <2>3, ReachKeeps
  <2> QED
    BY <1>0, <2>4, <2>5 DEF MovesInv
<1>7. ASSUME NEW c \in Rows, LockName(m, c) PROVE MovesInv'
  <2>1. /\ tx'[m].moved = tx[m].moved /\ tx'[m].named \subseteq tx[m].named \cup {c}
        /\ tx'[m].got = tx[m].got /\ \A n \in Clients \ {m} : tx'[n] = tx[n]
    BY <1>7, <1>a DEF LockName, TxType
  <2>2. lock' = [d \in Rows |-> IF d \in {c} THEN m ELSE lock[d]]
    BY <1>7, <1>b DEF LockName
  <2>3. UNCHANGED <<object, job, pc>> /\ pc[m] = "lockname" /\ Free(m, c)
    BY <1>7 DEF LockName
  <2>4. Locked' /\ GotCurrent'
    <3>1. \A d \in Rows : Claims(m, d)' => Claims(m, d) \/ d \in {c}
      BY <2>1 DEF Claims
    <3> QED
      BY <2>1, <2>2, <2>3, <3>1, LockKeeps
  <2>5. InReach'
    BY <2>1, <2>3 DEF MovesInv, InReach, Within
  <2> QED
    BY <1>0, <2>4, <2>5 DEF MovesInv
<1>8. ASSUME NEW c \in Rows, LockReferrer(m, c) PROVE MovesInv'
  <2>1. /\ tx'[m].moved = tx[m].moved /\ tx'[m].named = tx[m].named
        /\ tx'[m].got = [tx[m].got EXCEPT ![c] = IF Refers(m, c) THEN object[c] ELSE None]
        /\ \A n \in Clients \ {m} : tx'[n] = tx[n]
    BY <1>8, <1>a DEF LockReferrer, TxType
  <2>2. lock' = [d \in Rows |-> IF d \in {c} THEN m ELSE lock[d]]
    BY <1>8, <1>b DEF LockReferrer
  <2>3. UNCHANGED <<object, job, pc>> /\ pc[m] = "lockref" /\ Free(m, c)
    BY <1>8 DEF LockReferrer
  <2>4. Locked' /\ GotCurrent'
    <3>1. \A d \in Rows : tx'[m].got[d] = IF d # c THEN tx[m].got[d]
                                            ELSE IF Refers(m, c) THEN object[c] ELSE None
      BY <1>b, <2>1
    <3>2. \A d \in Rows : Claims(m, d)' => Claims(m, d) \/ d \in {c}
      BY <2>1, <3>1 DEF Claims
    <3>3. \A d \in Rows : tx'[m].got[d] \in {None, tx[m].got[d], object[d]}
      BY <3>1
    <3>4. \A d \in {c} : Free(m, d)
      BY <2>3
    <3>5. \A n \in Clients \ {m} : tx'[n] = tx[n]
      BY <2>1
    <3> QED
      BY <2>2, <2>3, <3>2, <3>3, <3>4, <3>5, LockKeeps
  <2>5. InReach'
    BY <2>1, <2>3 DEF MovesInv, InReach, Within
  <2> QED
    BY <1>0, <2>4, <2>5 DEF MovesInv
<1>9. CASE ReadDirectory(m) \/ Rekey(m) \/ ReadNames(m) \/ ReadReferrers(m)
  <2>1. /\ tx'[m].moved = tx[m].moved /\ tx'[m].named = tx[m].named
        /\ tx'[m].got = tx[m].got /\ \A n \in Clients \ {m} : tx'[n] = tx[n]
    BY <1>9, <1>a DEF ReadDirectory, Rekey, ReadNames, ReadReferrers, TxType
  <2>2. UNCHANGED <<object, job, lock>>
    BY <1>9 DEF ReadDirectory, Rekey, ReadNames, ReadReferrers
  <2>3. Locked' /\ GotCurrent'
    <3>1. \A n \in Clients, d \in Rows : /\ Claims(n, d)' <=> Claims(n, d)
                                         /\ tx'[n].got[d] = tx[n].got[d]
      BY <2>1 DEF Claims
    <3> QED
      BY <2>2, <3>1 DEF MovesInv, Locked, GotCurrent
  <2>4. CASE ReadDirectory(m)
    <3>1. pc' = [pc EXCEPT ![m] = "lockdir"]
      BY <2>4 DEF ReadDirectory, To
    <3> QED
      BY <1>0, <1>b, <2>1, <2>2, <2>3, <3>1, ReachKeeps DEF MovesInv
  <2>5. CASE Rekey(m)
    <3>1. pc' = [pc EXCEPT ![m] = "names"] /\ \A id \in Olds(m) \cup News(m) : Within(m, id)
      BY <2>5 DEF Rekey, To
    <3>2. \A c \in tx[m].moved : Within(m, object[c].id) /\ Within(m, Follow(job[m], object[c].id))
      BY <3>1 DEF Olds, News
    <3> QED
      BY <1>0, <1>b, <2>1, <2>2, <2>3, <3>1, <3>2, ReachKeeps DEF MovesInv
  <2>6. CASE ReadNames(m) \/ ReadReferrers(m)
    <3>1. /\ pc[m] \in {"names", "lockname"}
          /\ \E step \in {"lockname", "lockref"} : pc' = [pc EXCEPT ![m] = step]
      BY <2>6 DEF ReadNames, ReadReferrers, To
    <3>2. \A c \in tx[m].moved : Within(m, object[c].id) /\ Within(m, Follow(job[m], object[c].id))
      BY <3>1 DEF MovesInv, InReach
    <3>3. pc'[m] # "rename" /\ \A n \in Clients \ {m} : pc'[n] = pc[n]
      BY <1>b, <3>1
    <3> QED
      BY <1>0, <2>1, <2>2, <2>3, <3>2, <3>3, ReachKeeps DEF MovesInv
  <2> QED
    BY <1>9, <2>4, <2>5, <2>6
<1> QED
  BY <1>1, <1>2, <1>3, <1>4, <1>5, <1>6, <1>7, <1>8, <1>9
     DEF Step, WriteRefused, RenameRefused, RekeyRefused, RewriteRefused, BreakDeadlock

\* It holds of every behaviour.
LEMMA MovesInvariant == Spec => []MovesInv
<1>1. Init => MovesInv
  BY MovesInit
<1>2. MovesInv /\ [Next]_vars => MovesInv'
  <2> SUFFICES ASSUME MovesInv, [Next]_vars PROVE MovesInv'
    OBVIOUS
  <2>1. CASE UNCHANGED vars
    <3>1. TypeOK'
      BY TypeStep DEF MovesInv
    <3> QED
      BY <2>1, <3>1 DEF vars, MovesInv, Locked, GotCurrent, InReach, Claims, Within
  <2>2. CASE Next
    BY <2>2, AskKeeps, StepKeeps DEF Next
  <2> QED
    BY <2>1, <2>2
<1> QED
  BY <1>1, <1>2, PTL DEF Spec

\* A move never puts back a text that an edit committed in between replaced,
\* because it writes only rows it locked before it read them.
THEOREM MovesRevertNothing == Spec => NoEditReverted
<1>1. MovesInv /\ [Next]_vars =>
        [\A m \in Clients : Rewrite(m) =>
           \A c \in Rows : object'[c].mark = object[c].mark]_vars
  <2> SUFFICES ASSUME MovesInv, NEW m \in Clients, Rewrite(m), NEW c \in Rows
               PROVE  object'[c].mark = object[c].mark
    OBVIOUS
  <2>1. object'[c] = Row(m, c)
    BY DEF Rewrite
  <2> QED
    BY <2>1, RowKept
<1> QED
  BY <1>1, MovesInvariant, PTL DEF Spec, NoEditReverted

\* A mover changes what no document outside its reach says, wherever the
\* documents that refer to what it moves are.
THEOREM MovesStayInReach == Spec => StaysInReach
<1>1. MovesInv /\ [Next]_vars =>
        [\A m \in Clients : Rewrite(m) =>
           \A c \in Rows :
             [object'[c] EXCEPT !.files = {}] # [object[c] EXCEPT !.files = {}]
               => Within(m, object[c].id) /\ Within(m, object'[c].id)]_vars
  <2> SUFFICES ASSUME MovesInv, NEW m \in Clients, Rewrite(m), NEW c \in Rows,
                      [object'[c] EXCEPT !.files = {}] # [object[c] EXCEPT !.files = {}]
               PROVE  Within(m, object[c].id) /\ Within(m, object'[c].id)
    OBVIOUS
  <2>1. object'[c] = Row(m, c) /\ pc[m] = "lockref" /\ ~ReachesOutside(m)
    BY DEF Rewrite, CanRewrite
  <2>2. object[c] \in RowType
    BY DEF MovesInv, TypeOK
  <2>3. CASE c \in tx[m].moved
    <3>1. Within(m, object[c].id) /\ Within(m, Follow(job[m], object[c].id))
      BY <2>1, <2>3 DEF MovesInv, InReach
    <3>2. object'[c].id = Follow(job[m], object[c].id)
      BY <2>1, <2>2, <2>3 DEF Row, IdIn, RowType
    <3> QED
      BY <3>1, <3>2
  <2>4. CASE c \in Repaired(m) \ tx[m].moved
    <3>1. object'[c].id = object[c].id
      BY <2>1, <2>4, RowKept
    <3> QED
      BY <2>1, <2>4, <3>1 DEF ReachesOutside
  <2>5. CASE c \notin Repaired(m) \cup tx[m].moved
    BY <2>1, <2>2, <2>5 DEF Row, IdIn, RowType
  <2> QED
    BY <2>3, <2>4, <2>5
<1> QED
  BY <1>1, MovesInvariant, PTL DEF Spec, StaysInReach

-----------------------------------------------------------------------------
(* What a move knows of the links in the bundle.                            *)

Pages(refs) == {r \in BodyRefs(refs) : r.doc}
Leads(id, refs) == {Resolve(id, r) : r \in Pages(refs)}

\* No relative link of a document climbs out of the bundle.
Inside(id, refs) == \A r \in Pages(refs) : r.abs \/ Resolve(id, r) # Root
LinksInside ==
  /\ \A id \in Ids, text \in Texts : Inside(id, text)
  /\ \A start \in Starts, c \in Rows : start[c].live => Inside(start[c].id, start[c].refs)

\* A live row has an address, and the links its body makes.
RowsDerived ==
  \A c \in Rows : object[c].live =>
    /\ object[c].id # Root /\ Derived(object[c]) /\ Inside(object[c].id, object[c].refs)

\* The primary key: one row at each id.
OneAtEachId == \A c, d \in Rows : Exists(c) /\ object[c].id = object[d].id => c = d

\* A key that is being inserted is nobody's yet, and one transaction's.
KeysApart ==
  \A m \in Clients :
    /\ \A k \in tx[m].keys : k # Root /\ At(k) = {}
    /\ \A n \in Clients \ {m} : tx[n].keys \cap tx[m].keys = {}

\* What a transaction holds at each step.
Holds(m) ==
  /\ pc[m] \in {"idle", "write"} => Mine(m) = {}
  /\ pc[m] = "write" => job[m].from # Root
  /\ pc[m] \in {"write", "commit"} /\ job[m].op # "delete" => Inside(job[m].from, job[m].refs)
  /\ pc[m] \in {"rename", "dir", "lockdir"} => job[m].to # Root
  /\ pc[m] = "commit" =>
       \A c \in Mine(m) : /\ Mine(m) = {c} /\ job[m].from # Root
                          /\ IF Exists(c) THEN object[c].id = job[m].from
                             ELSE job[m].from \in tx[m].keys
  /\ pc[m] = "lockdir" => \A c \in tx[m].moved : InDirectory(m, c)
  /\ pc[m] \in {"names", "lockname", "lockref"} =>
       \A c \in tx[m].moved : /\ Exists(c) /\ Under(object[c].id, job[m].from)
                              /\ Follow(job[m], object[c].id) \in tx[m].keys
  /\ tx[m].moved # {} => pc[m] \in {"lockdir", "names", "lockname", "lockref"}
  /\ Got(m) # {} => pc[m] = "lockref"
  /\ \A c \in Got(m) : tx[m].got[c] = object[c] /\ object[c].live
  /\ \A c \in late[m] : pc[m] = "lockref" /\ c \notin tx[m].moved

\* No referrer is passed over but one that came after the read.
NoneMissed(m) ==
  pc[m] = "lockref" /\ tx[m].moved # {} =>
    \A c \in Rows : Refers(m, c) => c \in Todo(m) \cup Got(m) \cup late[m]

LinksInv == RowsDerived /\ OneAtEachId /\ KeysApart
             /\ \A m \in Clients : Holds(m) /\ NoneMissed(m)

\* What a part of a path is, name by name.
LEMMA SubSeqOf ==
  ASSUME NEW s \in Path, NEW a \in 1 .. Len(s) + 1, NEW b \in a - 1 .. Len(s)
  PROVE  /\ SubSeq(s, a, b) \in Path /\ Len(SubSeq(s, a, b)) = b - a + 1
         /\ \A i \in 1 .. b - a + 1 : SubSeq(s, a, b)[i] = s[a + i - 1]
<1>1. Len(s) \in Nat /\ \A i \in a .. b : s[i] \in STRING
  BY DEF Path
<1> QED  BY <1>1, SubSeqProperties DEF Path

\* Two paths of the same names are one.
LEMMA PathsEqual ==
  ASSUME NEW s \in Path, NEW t \in Path, Len(s) = Len(t), \A i \in 1 .. Len(s) : s[i] = t[i]
  PROVE  s = t
BY SeqEqual DEF Path

\* What the beginning of a path is.
LEMMA PrefixOf ==
  ASSUME NEW s \in Path, NEW n \in 0 .. Len(s)
  PROVE  /\ SubSeq(s, 1, n) \in Path /\ Len(SubSeq(s, 1, n)) = n
         /\ \A i \in 1 .. n : SubSeq(s, 1, n)[i] = s[i]
<1>1. 1 \in 1 .. Len(s) + 1 /\ n \in 1 - 1 .. Len(s) /\ n - 1 + 1 = n
  BY DEF Path
<1>2. \A i \in 1 .. n : 1 + i - 1 = i
  BY <1>1
<1> QED  BY <1>1, <1>2, SubSeqOf

\* Two ids under one directory stay apart when it moves.
LEMMA RebaseApart ==
  ASSUME NEW x \in Path, NEW y \in Path, NEW from \in Path, NEW to \in Path,
         Under(x, from), Under(y, from), Rebase(x, from, to) = Rebase(y, from, to)
  PROVE  x = y
<1> DEFINE sx == SubSeq(x, Len(from) + 1, Len(x))
           sy == SubSeq(y, Len(from) + 1, Len(y))
<1>1. /\ Len(x) \in Nat /\ Len(y) \in Nat /\ Len(from) \in Nat /\ Len(to) \in Nat
      /\ Len(from) <= Len(x) /\ Len(from) <= Len(y)
  BY DEF Path, Under
<1>2. /\ sx \in Path /\ Len(sx) = Len(x) - Len(from)
      /\ \A i \in 1 .. Len(x) - Len(from) : sx[i] = x[Len(from) + i]
  BY <1>1, SubSeqOf
<1>3. /\ sy \in Path /\ Len(sy) = Len(y) - Len(from)
      /\ \A i \in 1 .. Len(y) - Len(from) : sy[i] = y[Len(from) + i]
  BY <1>1, SubSeqOf
<1>4. to \o sx = to \o sy
  BY DEF Rebase
<1> HIDE DEF sx, sy
<1>5. sx = sy
  BY <1>2, <1>3, <1>4, ConcatSimplifications DEF Path
<1>6. Len(x) = Len(y)
  BY <1>1, <1>2, <1>3, <1>5
<1>7. \A i \in 1 .. Len(x) : x[i] = y[i]
  <2> SUFFICES ASSUME NEW i \in 1 .. Len(x) PROVE x[i] = y[i]
    OBVIOUS
  <2>1. CASE i <= Len(from)
    BY <1>1, <2>1 DEF Under
  <2>2. CASE i > Len(from)
    <3>1. PICK k \in 1 .. Len(x) - Len(from) : i = Len(from) + k
      <4>1. i - Len(from) \in 1 .. Len(x) - Len(from) /\ i = Len(from) + (i - Len(from))
        BY <1>1, <2>2
      <4> QED  BY <4>1
    <3> QED  BY <1>2, <1>3, <1>5, <1>6, <3>1
  <2> QED  BY <1>1, <2>1, <2>2
<1> QED  BY <1>6, <1>7, PathsEqual

\* What lay in a directory lies in the one it becomes.
LEMMA RebaseBeneath ==
  ASSUME NEW x \in Path, NEW from \in Path, NEW to \in Path, Beneath(x, from)
  PROVE  Beneath(Rebase(x, from, to), to) /\ Rebase(x, from, to) # Root
<1> DEFINE sx == SubSeq(x, Len(from) + 1, Len(x))
<1>1. /\ Len(x) \in Nat /\ Len(from) \in Nat /\ Len(to) \in Nat /\ Len(from) <= Len(x)
      /\ \A i \in 1 .. Len(from) : x[i] = from[i]
  BY DEF Path, Beneath, Under
<1>2. sx \in Path /\ Len(sx) = Len(x) - Len(from)
  BY <1>1, SubSeqOf
<1>3. Len(from) # Len(x)
  BY <1>1, PathsEqual DEF Beneath
<1>4. Rebase(x, from, to) = to \o sx
  BY DEF Rebase
<1> HIDE DEF sx
<1>5. Len(sx) > 0 /\ Len(sx) \in Nat
  BY <1>1, <1>2, <1>3
<1>6. Len(to \o sx) = Len(to) + Len(sx) /\ \A i \in 1 .. Len(to) : (to \o sx)[i] = to[i]
  <2>1. to \in Seq(STRING) /\ sx \in Seq(STRING)
    BY <1>2 DEF Path
  <2>2. /\ Len(to \o sx) = Len(to) + Len(sx)
        /\ \A i \in 1 .. Len(to) + Len(sx) :
             (to \o sx)[i] = IF i <= Len(to) THEN to[i] ELSE sx[i - Len(to)]
    BY <2>1, ConcatProperties
  <2>3. \A i \in 1 .. Len(to) : i \in 1 .. Len(to) + Len(sx) /\ i <= Len(to)
    BY <1>1, <1>5
  <2> QED  BY <2>2, <2>3
<1> QED  BY <1>1, <1>4, <1>5, <1>6 DEF Beneath, Under, Root

\* A relative reference reads the same from every document of a directory.
LEMMA ResolveBeside ==
  ASSUME NEW x \in Path, NEW y \in Path, x # Root, y # Root, Parent(x) = Parent(y), NEW r \in RefType
  PROVE  Resolve(x, r) = Resolve(y, r)
<1>1. /\ Len(x) \in Nat \ {0} /\ Len(y) \in Nat \ {0} /\ r.up \in Nat
  BY EmptySeq DEF Path, Root, RefType
<1>2. /\ Len(Parent(x)) = Len(x) - 1 /\ Len(Parent(y)) = Len(y) - 1
      /\ \A i \in 1 .. Len(x) - 1 : Parent(x)[i] = x[i]
      /\ \A i \in 1 .. Len(y) - 1 : Parent(y)[i] = y[i]
  <2>1. Len(x) - 1 \in 0 .. Len(x) /\ Len(y) - 1 \in 0 .. Len(y)
    BY <1>1
  <2> QED  BY <2>1, PrefixOf DEF Parent
<1>3. Len(x) = Len(y) /\ \A i \in 1 .. Len(x) - 1 : x[i] = y[i]
  BY <1>1, <1>2
<1>4. CASE r.up < Len(x)
  <2>1. /\ SubSeq(x, 1, Len(x) - 1 - r.up) \in Path /\ SubSeq(y, 1, Len(y) - 1 - r.up) \in Path
        /\ Len(SubSeq(x, 1, Len(x) - 1 - r.up)) = Len(x) - 1 - r.up
        /\ Len(SubSeq(y, 1, Len(y) - 1 - r.up)) = Len(y) - 1 - r.up
        /\ \A i \in 1 .. Len(x) - 1 - r.up : SubSeq(x, 1, Len(x) - 1 - r.up)[i] = x[i]
        /\ \A i \in 1 .. Len(y) - 1 - r.up : SubSeq(y, 1, Len(y) - 1 - r.up)[i] = y[i]
    <3>1. Len(x) - 1 - r.up \in 0 .. Len(x) /\ Len(y) - 1 - r.up \in 0 .. Len(y)
      BY <1>1, <1>3, <1>4
    <3> QED  BY <3>1, PrefixOf
  <2>2. SubSeq(x, 1, Len(x) - 1 - r.up) = SubSeq(y, 1, Len(y) - 1 - r.up)
    BY <1>1, <1>3, <2>1, PathsEqual
  <2> QED  BY <1>3, <2>2 DEF Resolve
<1>5. CASE r.up >= Len(x)
  BY <1>3, <1>5 DEF Resolve
<1> QED  BY <1>1, <1>4, <1>5

\* An absolute link names its path from wherever it is read.
LEMMA AbsoluteIs ==
  ASSUME NEW r \in RefType, NEW p
  PROVE  /\ Absolute(r, p).field = r.field /\ Absolute(r, p).doc = r.doc
         /\ Absolute(r, p).abs /\ \A id : Resolve(id, Absolute(r, p)) = p
<1>1. /\ Absolute(r, p).field = r.field /\ Absolute(r, p).doc = r.doc
      /\ Absolute(r, p).abs = TRUE /\ Absolute(r, p).path = p
  BY DEF Absolute, RefType
<1> QED  BY <1>1 DEF Resolve

\* A rewritten link stays in its field and of its kind.
LEMMA RewriteLinkIs ==
  ASSUME NEW id, NEW r \in RefType, NEW j, NEW olds, NEW absolutize
  PROVE  LET q == RewriteLink(id, r, j, olds, absolutize)
         IN q.field = r.field /\ q.doc = r.doc
BY AbsoluteIs DEF RewriteLink

\* The links of a repaired body are its links, each rewritten.
LEMMA PagesRepaired ==
  ASSUME NEW id, NEW refs \in SUBSET RefType, NEW j, NEW olds, NEW absolutize
  PROVE  Pages(RepairReferences(id, refs, j, olds, absolutize)) =
           {RewriteLink(id, r, j, olds, absolutize) : r \in Pages(refs)}
<1> DEFINE Image(r) == RewriteLink(id, r, j, olds, absolutize)
           Fields == RewritePathFields(id, refs, j, absolutize)
<1>1. \A r \in RefType : Image(r).field = r.field /\ Image(r).doc = r.doc
  BY RewriteLinkIs
<1>2. \A q \in Fields : q.field
  <2>1. ASSUME NEW r \in PathFields(refs) PROVE MovePathValue(id, r, j, absolutize).field
    <3>1. r \in RefType /\ r.field
      BY DEF PathFields
    <3> QED  BY <3>1, AbsoluteIs DEF MovePathValue
  <2> QED  BY <2>1 DEF RewritePathFields
<1>3. RepairReferences(id, refs, j, olds, absolutize) =
        {IF r.doc THEN Image(r) ELSE r : r \in BodyRefs(refs)} \cup Fields
  BY DEF RepairReferences, RewriteBody
<1>4. \A r \in BodyRefs(refs) : r \in RefType /\ ~r.field /\ (r \in Pages(refs) <=> r.doc)
  BY DEF BodyRefs, Pages
<1>5. \A r \in Pages(refs) : r \in BodyRefs(refs)
  BY DEF Pages
<1> HIDE DEF Image, Fields
<1>6. ASSUME NEW q \in Pages(RepairReferences(id, refs, j, olds, absolutize))
      PROVE  \E r \in Pages(refs) : q = Image(r)
  <2>1. q \in RepairReferences(id, refs, j, olds, absolutize) /\ ~q.field /\ q.doc
    BY <1>6 DEF Pages, BodyRefs
  <2>2. PICK r \in BodyRefs(refs) : q = IF r.doc THEN Image(r) ELSE r
    BY <1>2, <1>3, <2>1
  <2> QED  BY <1>4, <2>1, <2>2
<1>7. ASSUME NEW r \in Pages(refs)
      PROVE  Image(r) \in Pages(RepairReferences(id, refs, j, olds, absolutize))
  <2>1. r \in BodyRefs(refs) /\ r \in RefType /\ ~r.field /\ r.doc
    BY <1>4, <1>5
  <2>2. Image(r) \in RepairReferences(id, refs, j, olds, absolutize)
    BY <1>3, <2>1
  <2> QED  BY <1>1, <2>1, <2>2 DEF Pages, BodyRefs
<1> QED  BY <1>6, <1>7 DEF Image

\* What a move renames to was nobody's id, and nobody's old id.
LEMMA NewsAreNew ==
  ASSUME MovesInv, LinksInv, NEW m \in Clients, pc[m] \in {"names", "lockname", "lockref"}
  PROVE  /\ tx[m].moved \in SUBSET Rows
         /\ \A d \in tx[m].moved : /\ object[d].id \in Olds(m) /\ object[d].id # Root
                                   /\ Follow(job[m], object[d].id) \in tx[m].keys
         /\ \A p \in Olds(m) : /\ p # Root /\ Follow(job[m], p) # Root
                               /\ Follow(job[m], p) \notin Olds(m)
         /\ \A k \in tx[m].keys : k # Root /\ At(k) = {}
<1>1. tx[m].moved \in SUBSET Rows
  BY DEF MovesInv, TypeOK, TxType
<1>2. \A d \in tx[m].moved : Exists(d) /\ Follow(job[m], object[d].id) \in tx[m].keys
  BY DEF LinksInv, Holds
<1>3. \A k \in tx[m].keys : k # Root /\ At(k) = {}
  BY DEF LinksInv, KeysApart
<1>4. \A p \in Olds(m) : p # Root /\ \E d \in Rows : d \in At(p)
  BY <1>1, <1>2 DEF Olds, At, Exists
<1>5. \A p \in Olds(m) : Follow(job[m], p) \in tx[m].keys
  BY <1>2 DEF Olds
<1> QED  BY <1>1, <1>2, <1>3, <1>4, <1>5 DEF Olds, Exists

\* A referrer a move has locked and read is the row as committed.
LEMMA GotIs ==
  ASSUME MovesInv, LinksInv, NEW m \in Clients, NEW c \in Got(m)
  PROVE  /\ c \in Rows /\ tx[m].got[c] = object[c] /\ object[c].live /\ object[c] \in RowType
         /\ object[c].id \in Path /\ object[c].id # Root
         /\ object[c].refs \in SUBSET RefType
         /\ Derived(object[c]) /\ Inside(object[c].id, object[c].refs)
<1>1. c \in Rows
  BY DEF Got
<1>2. tx[m].got[c] = object[c] /\ object[c].live
  BY DEF LinksInv, Holds
<1>3. object[c] \in RowType
  BY <1>1 DEF MovesInv, TypeOK
<1> QED  BY <1>1, <1>2, <1>3 DEF LinksInv, RowsDerived, RowType, Path

\* A link of a document that was read means after the rewrite what it should.
LEMMA LinkMeans ==
  ASSUME MovesInv, LinksInv, NEW m \in Clients, pc[m] = "lockref", NEW c \in Got(m),
         NEW r \in Pages(object[c].refs), NEW absolutize \in BOOLEAN,
         absolutize <=> /\ c \in tx[m].moved
                        /\ Parent(object[c].id) # Parent(Follow(job[m], object[c].id))
  PROVE  LET q == RewriteLink(object[c].id, r, job[m], Olds(m), absolutize)
         IN /\ Resolve(IdIn(m, c), q) = Meaning(m, r, Resolve(object[c].id, r))
            /\ q.abs \/ Resolve(IdIn(m, c), q) # Root
<1> DEFINE id == object[c].id
           p == Resolve(id, r)
           q == RewriteLink(id, r, job[m], Olds(m), absolutize)
<1>1. /\ c \in Rows /\ id \in Path /\ id # Root /\ r \in RefType /\ r.doc
      /\ r.abs \/ p # Root
  BY GotIs DEF Pages, BodyRefs, Inside
<1>2. Meaning(m, r, p) = IF p \in Olds(m) THEN Follow(job[m], p) ELSE p
  BY <1>1 DEF Meaning
<1>3. CASE p \in Olds(m)
  BY <1>1, <1>2, <1>3, AbsoluteIs DEF RewriteLink
<1>4. CASE p \notin Olds(m) /\ absolutize /\ ~r.abs
  <2>1. q = Absolute(r, p)
    BY <1>1, <1>4 DEF RewriteLink
  <2> QED  BY <1>1, <1>2, <1>4, <2>1, AbsoluteIs
<1>5. CASE p \notin Olds(m) /\ (~absolutize \/ r.abs)
  <2>1. q = r
    BY <1>5 DEF RewriteLink
  <2>2. CASE r.abs
    <3>1. Resolve(IdIn(m, c), r) = p
      BY <2>2 DEF Resolve
    <3> QED  BY <1>2, <1>5, <2>1, <2>2, <3>1
  <2>3. CASE ~r.abs
    <3>1. Resolve(IdIn(m, c), r) = p
      <4>1. CASE c \notin tx[m].moved
        BY <4>1 DEF IdIn
      <4>2. CASE c \in tx[m].moved
        <5>1. IdIn(m, c) = Follow(job[m], id) /\ Parent(id) = Parent(Follow(job[m], id))
          BY <1>5, <2>3, <4>2 DEF IdIn
        <5>2. Follow(job[m], id) # Root /\ Follow(job[m], id) \in Path
          BY <1>1, <4>2, NewsAreNew, IdInType DEF MovesInv
        <5> QED  BY <1>1, <5>1, <5>2, ResolveBeside
      <4> QED  BY <4>1, <4>2
    <3> QED  BY <1>1, <1>2, <1>5, <2>1, <2>3, <3>1
  <2> QED  BY <2>2, <2>3
<1> QED  BY <1>3, <1>4, <1>5

\* What the move will write of a referrer: its references repaired, its links derived.
LEMMA RowOfGot ==
  ASSUME MovesInv, LinksInv, NEW m \in Clients, NEW c \in Got(m)
  PROVE  /\ Row(m, c).id = IdIn(m, c) /\ Row(m, c).live
         /\ Row(m, c).refs = Repair(m, c) /\ Row(m, c).links = Links(m, c)
<1>1. tx[m].got[c] = object[c] /\ object[c].live /\ object[c] \in RowType
  BY GotIs
<1>2. CASE c \in Repaired(m)
  BY <1>2 DEF Row
<1>3. CASE c \notin Repaired(m)
  <2>1. Repair(m, c) = object[c].refs
    BY <1>1, <1>3 DEF Repaired
  <2>2. Links(m, c) = object[c].links
    BY <1>1, <2>1 DEF Links
  <2> QED  BY <1>1, <1>3, <2>1, <2>2 DEF Row, RowType
<1> QED  BY <1>2, <1>3

\* A repaired document's links lead where they led, moved along with what moved.
LEMMA RepairLeads ==
  ASSUME MovesInv, LinksInv, NEW m \in Clients, pc[m] = "lockref", NEW c \in Got(m)
  PROVE  /\ Leads(IdIn(m, c), Repair(m, c)) =
              {Meaning(m, r, Resolve(object[c].id, r)) : r \in Pages(object[c].refs)}
         /\ Inside(IdIn(m, c), Repair(m, c))
         /\ Pages(Repair(m, c)) = Pages(object[c].refs) =>
              \A r \in Pages(object[c].refs) : Resolve(object[c].id, r) \notin Olds(m)
<1> DEFINE id == object[c].id
           refs == object[c].refs
           absolutize == c \in tx[m].moved /\ Parent(id) # Parent(Follow(job[m], id))
           Image(r) == RewriteLink(id, r, job[m], Olds(m), absolutize)
<1>1. refs \in SUBSET RefType /\ tx[m].got[c] = object[c]
  BY GotIs
<1>2. Repair(m, c) = RepairReferences(id, refs, job[m], Olds(m), absolutize)
  BY <1>1 DEF Repair
<1>3. Pages(Repair(m, c)) = {Image(r) : r \in Pages(refs)}
  BY <1>1, <1>2, PagesRepaired
<1>4. \A r \in Pages(refs) : /\ Resolve(IdIn(m, c), Image(r)) = Meaning(m, r, Resolve(id, r))
                             /\ Image(r).abs \/ Resolve(IdIn(m, c), Image(r)) # Root
  BY LinkMeans
<1>5. \A r \in Pages(refs) : Resolve(id, Image(r)) \notin Olds(m)
  <2> SUFFICES ASSUME NEW r \in Pages(refs) PROVE Resolve(id, Image(r)) \notin Olds(m)
    OBVIOUS
  <2>1. r \in RefType
    BY <1>1 DEF Pages, BodyRefs
  <2>2. CASE Resolve(id, r) \in Olds(m)
    <3>1. Image(r) = Absolute(r, Follow(job[m], Resolve(id, r)))
      BY <2>2 DEF RewriteLink
    <3> QED  BY <2>1, <2>2, <3>1, AbsoluteIs, NewsAreNew
  <2>3. CASE Resolve(id, r) \notin Olds(m)
    <3>1. Image(r) = r \/ Image(r) = Absolute(r, Resolve(id, r))
      BY <2>3 DEF RewriteLink
    <3> QED  BY <2>1, <2>3, <3>1, AbsoluteIs
  <2> QED  BY <2>2, <2>3
<1> HIDE DEF Image, absolutize
<1>6. Leads(IdIn(m, c), Repair(m, c)) = {Meaning(m, r, Resolve(id, r)) : r \in Pages(refs)}
  BY <1>3, <1>4 DEF Leads
<1>7. Inside(IdIn(m, c), Repair(m, c))
  BY <1>3, <1>4 DEF Inside
<1>8. Pages(Repair(m, c)) = Pages(refs) => \A r \in Pages(refs) : Resolve(id, r) \notin Olds(m)
  BY <1>3, <1>5
<1> QED  BY <1>6, <1>7, <1>8

\* The links column of a row that was read is derived from what it then says.
LEMMA GotDerived ==
  ASSUME MovesInv, LinksInv, NEW m \in Clients, pc[m] = "lockref", NEW c \in Got(m)
  PROVE  /\ Derived(Row(m, c)) /\ Inside(Row(m, c).id, Row(m, c).refs)
         /\ Row(m, c).id # Root /\ Row(m, c).live
         /\ Leads(Row(m, c).id, Row(m, c).refs) =
              {Meaning(m, r, Resolve(object[c].id, r)) : r \in Pages(object[c].refs)}
<1> DEFINE id == object[c].id
           refs == object[c].refs
<1>1. /\ Row(m, c).id = IdIn(m, c) /\ Row(m, c).live
      /\ Row(m, c).refs = Repair(m, c) /\ Row(m, c).links = Links(m, c)
  BY RowOfGot
<1>2. /\ Leads(IdIn(m, c), Repair(m, c)) = {Meaning(m, r, Resolve(id, r)) : r \in Pages(refs)}
      /\ Inside(IdIn(m, c), Repair(m, c))
      /\ Pages(Repair(m, c)) = Pages(refs) => \A r \in Pages(refs) : Resolve(id, r) \notin Olds(m)
  BY RepairLeads
<1>3. /\ c \in Rows /\ id # Root /\ tx[m].got[c] = object[c]
      /\ object[c].links \subseteq Leads(id, refs) \ {Root}
      /\ Leads(id, refs) \ {Root, id} \subseteq object[c].links
  BY GotIs DEF Derived, Leads, Pages
<1>4. /\ c \in tx[m].moved => id \in Olds(m)
      /\ IdIn(m, c) # Root /\ IdIn(m, c) # id => c \in tx[m].moved
  BY <1>3, NewsAreNew DEF IdIn
<1>5. IdIn(m, c) # Root
  BY <1>3, NewsAreNew DEF IdIn
<1>6. /\ Links(m, c) \subseteq Leads(IdIn(m, c), Repair(m, c)) \ {Root}
      /\ Leads(IdIn(m, c), Repair(m, c)) \ {Root, IdIn(m, c)} \subseteq Links(m, c)
  <2>1. CASE BodyRefs(Repair(m, c)) = BodyRefs(refs)
    <3>1. Pages(Repair(m, c)) = Pages(refs) /\ Links(m, c) = object[c].links
      BY <1>3, <2>1 DEF Pages, Links
    <3>2. \A r \in Pages(refs) : Resolve(id, r) \notin Olds(m)
      BY <1>2, <3>1
    <3>3. \A r \in Pages(refs) : r.doc
      BY DEF Pages
    <3>4. \A r \in Pages(refs) : Meaning(m, r, Resolve(id, r)) = Resolve(id, r)
      BY <3>2, <3>3 DEF Meaning
    <3>5. Leads(IdIn(m, c), Repair(m, c)) = Leads(id, refs)
      BY <1>2, <3>4 DEF Leads
    <3>6. IdIn(m, c) # id => id \notin Leads(id, refs)
      BY <1>4, <1>5, <3>2 DEF Leads
    <3> QED  BY <1>3, <3>1, <3>5, <3>6
  <2>2. CASE BodyRefs(Repair(m, c)) # BodyRefs(refs)
    <3>1. Links(m, c) = LinksFromBody(IdIn(m, c), Repair(m, c))
      BY <1>3, <2>2 DEF Links
    <3>2. LinksFromBody(IdIn(m, c), Repair(m, c)) =
            Leads(IdIn(m, c), Repair(m, c)) \ {Root, IdIn(m, c)}
      BY DEF LinksFromBody, Leads, Pages
    <3> QED  BY <3>1, <3>2
  <2> QED  BY <2>1, <2>2
<1>7. Derived(Row(m, c))
  BY <1>1, <1>6 DEF Derived, Leads, Pages
<1> QED  BY <1>1, <1>2, <1>5, <1>7

\* A live row that was not read, and was there to be read, refers to nothing
\* that moves.
LEMMA OthersKept ==
  ASSUME MovesInv, LinksInv, NEW m \in Clients, CanRewrite(m),
         NEW c \in Rows \ (Got(m) \cup late[m]), object[c].live
  PROVE  /\ c \notin tx[m].moved
         /\ \A r \in Pages(object[c].refs) : Resolve(object[c].id, r) \notin Olds(m)
<1>1. pc[m] = "lockref" /\ Todo(m) = {}
  BY DEF CanRewrite
<1>2. CASE tx[m].moved = {}
  BY <1>2 DEF Olds
<1>3. CASE tx[m].moved # {}
  <2>1. ~Refers(m, c)
    BY <1>1, <1>3 DEF LinksInv, NoneMissed
  <2>2. c \notin tx[m].moved /\ object[c].links \cap Olds(m) = {}
    BY <2>1 DEF Refers
  <2> SUFFICES ASSUME NEW r \in Pages(object[c].refs), Resolve(object[c].id, r) \in Olds(m)
               PROVE  FALSE
    BY <2>2
  <2>3. Resolve(object[c].id, r) # Root
    BY <1>1, NewsAreNew
  <2>4. CASE Resolve(object[c].id, r) # object[c].id
    <3>1. Resolve(object[c].id, r) \in object[c].links
      BY <2>3, <2>4 DEF LinksInv, RowsDerived, Derived, Pages
    <3> QED  BY <2>2, <3>1
  <2>5. CASE Resolve(object[c].id, r) = object[c].id
    <3>1. PICK d \in tx[m].moved : object[d].id = object[c].id
      BY <2>5 DEF Olds
    <3>2. d \in Rows /\ Exists(c)
      BY <1>1, <2>3, <2>5, NewsAreNew DEF Exists
    <3>3. d = c
      BY <3>1, <3>2 DEF LinksInv, OneAtEachId
    <3> QED  BY <2>2, <3>1, <3>3
  <2> QED  BY <2>4, <2>5
<1> QED  BY <1>2, <1>3

\* Every row has a turn in the locking order.
LEMMA RankPositive == ASSUME NEW id PROVE Rank(id) # 0
<1>1. Len(Collation) \in Nat /\ DOMAIN Collation = 1..Len(Collation)
  BY MovesAssumption
<1>2. id \in Ids => \E i \in DOMAIN Collation : Collation[i] = id
  BY DEF Ids
<1> QED
  BY <1>1, <1>2 DEF Rank

\* What a rewrite leaves of every row.
LEMMA RowIs ==
  ASSUME MovesInv, LinksInv, NEW m \in Clients, NEW c \in Rows
  PROVE  /\ Row(m, c).id = IdIn(m, c)
         /\ Row(m, c).live <=> object[c].live
         /\ c \notin Got(m) => Row(m, c).refs = object[c].refs /\ Row(m, c).links = object[c].links
         /\ c \notin tx[m].moved \cup tx[m].named \cup Repaired(m) => Row(m, c) = object[c]
<1>1. object[c] \in RowType
  BY DEF MovesInv, TypeOK
<1>2. CASE c \in Got(m)
  <2>1. Row(m, c).id = IdIn(m, c) /\ Row(m, c).live /\ object[c].live
    BY <1>2, RowOfGot, GotIs
  <2> QED  BY <1>1, <1>2, <2>1 DEF Row, IdIn, RowType
<1>3. CASE c \notin Got(m)
  <2>1. c \notin Repaired(m)
    BY <1>3 DEF Repaired
  <2> QED  BY <1>1, <2>1 DEF Row, IdIn, RowType
<1> QED  BY <1>2, <1>3

\* What a base starts from satisfies the invariant of links.
LEMMA LinksInit == LinksInside /\ Init => LinksInv
<1> SUFFICES ASSUME LinksInside, Init PROVE LinksInv
  OBVIOUS
<1>1. RowsDerived
  BY StartsAssumption DEF Init, RowsDerived, LinksInside
<1>2. OneAtEachId
  BY StartsAssumption DEF Init, OneAtEachId, Exists
<1>3. \A m \in Clients : /\ tx[m] = NoTx(Rows) /\ pc[m] = "idle" /\ late[m] = {}
                         /\ \A c \in Rows : lock[c] # m
  BY MovesAssumption DEF Init
<1>4. \A m \in Clients : /\ tx[m].keys = {} /\ tx[m].moved = {} /\ Mine(m) = {} /\ Got(m) = {}
  BY <1>3 DEF NoTx, Mine, Got
<1>5. KeysApart
  BY <1>4 DEF KeysApart
<1>6. \A m \in Clients : Holds(m) /\ NoneMissed(m)
  BY <1>3, <1>4 DEF Holds, NoneMissed
<1> QED  BY <1>1, <1>2, <1>5, <1>6 DEF LinksInv

\* What another transaction holds is as it was when this one has ended.
LEMMA OthersHold ==
  ASSUME MovesInv, LinksInv, NEW m \in Clients, NEW n \in Clients \ {m},
         tx'[n] = tx[n], pc'[n] = pc[n], job'[n] = job[n],
         \A c \in Rows : lock'[c] = n <=> lock[c] = n,
         \A c \in Rows : lock[c] = n => object'[c] = object[c],
         \A c \in late'[n] : c \in late[n] \/ (pc[n] = "lockref" /\ lock[c] # n /\ c \in Rows)
  PROVE  Holds(n)'
<1>1. /\ tx[n].moved \in SUBSET Rows
      /\ \A c \in tx[n].moved : lock[c] = n
      /\ \A c \in Got(n) : c \in Rows /\ lock[c] = n
  <2>1. tx[n].moved \in SUBSET Rows
    BY DEF MovesInv, TypeOK, TxType
  <2> QED  BY <2>1 DEF MovesInv, Locked, Claims, Got
<1>2. Mine(n)' = Mine(n) /\ Got(n)' = Got(n)
  BY DEF Mine, Got
<1>3. \A c \in Mine(n) : object'[c] = object[c]
  BY DEF Mine
<1>4. \A c \in tx[n].moved \cup Got(n) : object'[c] = object[c]
  BY <1>1
<1>5. Holds(n)
  BY DEF LinksInv
<1>6. /\ pc'[n] \in {"idle", "write"} => Mine(n)' = {}
      /\ pc'[n] = "write" => job'[n].from # Root
      /\ pc'[n] \in {"write", "commit"} /\ job'[n].op # "delete"
           => Inside(job'[n].from, job'[n].refs)
      /\ pc'[n] \in {"rename", "dir", "lockdir"} => job'[n].to # Root
  BY <1>2, <1>5 DEF Holds
<1>7. pc'[n] = "commit" =>
        \A c \in Mine(n)' : /\ Mine(n)' = {c} /\ job'[n].from # Root
                           /\ IF Exists(c)' THEN object'[c].id = job'[n].from
                              ELSE job'[n].from \in tx'[n].keys
  BY <1>2, <1>3, <1>5 DEF Holds, Exists
<1>8. pc'[n] = "lockdir" => \A c \in tx'[n].moved : InDirectory(n, c)'
  BY <1>4, <1>5 DEF Holds, InDirectory, Exists
<1>9. pc'[n] \in {"names", "lockname", "lockref"} =>
        \A c \in tx'[n].moved : /\ Exists(c)' /\ Under(object'[c].id, job'[n].from)
                               /\ Follow(job'[n], object'[c].id) \in tx'[n].keys
  BY <1>4, <1>5 DEF Holds, Exists
<1>10. /\ tx'[n].moved # {} => pc'[n] \in {"lockdir", "names", "lockname", "lockref"}
       /\ Got(n)' # {} => pc'[n] = "lockref"
       /\ \A c \in Got(n)' : tx'[n].got[c] = object'[c] /\ object'[c].live
  BY <1>2, <1>4, <1>5 DEF Holds
<1>11. \A c \in late'[n] : pc'[n] = "lockref" /\ c \notin tx'[n].moved
  BY <1>1, <1>5 DEF Holds
<1> QED  BY <1>6, <1>7, <1>8, <1>9, <1>10, <1>11 DEF Holds

\* A commit leaves every other move as informed as it was, or told what is late.
LEMMA OthersMissNothing ==
  ASSUME MovesInv, LinksInv, NEW m \in Clients, NEW n \in Clients \ {m}, NEW rows \in SUBSET Rows,
         tx'[n] = tx[n], pc'[n] = pc[n], job'[n] = job[n],
         \A c \in Rows : lock[c] = n => object'[c] = object[c],
         \A c \in Rows \ rows : object'[c] = object[c],
         pc[n] = "lockref" => late'[n] = late[n] \cup rows
  PROVE  NoneMissed(n)'
<1> SUFFICES ASSUME pc[n] = "lockref", tx[n].moved # {}, NEW c \in Rows, Refers(n, c)'
             PROVE  c \in Todo(n)' \cup Got(n)' \cup late'[n]
  BY DEF NoneMissed
<1>1. \A d \in tx[n].moved : d \in Rows /\ object'[d] = object[d]
  <2>1. tx[n].moved \in SUBSET Rows
    BY DEF MovesInv, TypeOK, TxType
  <2> QED  BY <2>1 DEF MovesInv, Locked, Claims
<1>2. Olds(n)' = Olds(n)
  BY <1>1 DEF Olds
<1>3. CASE c \in rows
  BY <1>3
<1>4. CASE c \notin rows
  <2>1. object'[c] = object[c]
    BY <1>4
  <2>2. Refers(n, c)
    BY <1>2, <2>1 DEF Refers
  <2>3. c \in Todo(n) \cup Got(n) \cup late[n]
    BY <2>2 DEF LinksInv, NoneMissed
  <2>4. Todo(n)' = Todo(n) /\ Got(n)' = Got(n)
    BY DEF Todo, Got
  <2> QED  BY <2>3, <2>4
<1> QED  BY <1>3, <1>4

\* A transaction that commits changes rows it locked, to ids that were theirs
\* or that it was inserting.
LEMMA WroteKeeps ==
  ASSUME MovesInv, LinksInv, NEW m \in Clients, NEW rows \in SUBSET Rows,
         End(m), Publish(m, rows),
         \A c \in rows : lock[c] = m,
         \A c \in Rows \ rows : object'[c] = object[c],
         \A c \in Rows : object'[c].id = object[c].id \/ object'[c].id \in tx[m].keys,
         \A c, d \in Rows : object'[c].id = object'[d].id /\ object'[c].id \in tx[m].keys => c = d,
         \A c \in Rows : object'[c].live =>
           /\ object'[c].id # Root /\ Derived(object'[c])
           /\ Inside(object'[c].id, object'[c].refs)
  PROVE  LinksInv'
<1>0. m # None /\ \A n \in Clients : n # None
  BY MovesAssumption
<1>1. /\ tx'[m] = NoTx(Rows) /\ pc'[m] = "idle" /\ late'[m] = {}
      /\ \A c \in Rows : lock'[c] # m
  BY <1>0 DEF End, Release, Publish, MovesInv, TypeOK
<1>2. ASSUME NEW n \in Clients \ {m}
      PROVE  /\ tx'[n] = tx[n] /\ pc'[n] = pc[n] /\ job'[n] = job[n]
             /\ late'[n] = IF pc[n] = "lockref" THEN late[n] \cup rows ELSE late[n]
             /\ \A c \in Rows : lock'[c] = n <=> lock[c] = n
  BY <1>0 DEF End, Release, Publish, MovesInv, TypeOK
<1>3. RowsDerived'
  BY DEF RowsDerived
<1>4. OneAtEachId'
  <2> SUFFICES ASSUME NEW c \in Rows, NEW d \in Rows, object'[c].id # Root,
                      object'[c].id = object'[d].id
               PROVE  c = d
    BY DEF OneAtEachId, Exists
  <2>1. CASE object'[c].id \in tx[m].keys
    BY <2>1
  <2>2. CASE object'[c].id \notin tx[m].keys
    <3>1. object[c].id = object'[c].id /\ object[d].id = object'[d].id
      BY <2>2
    <3> QED  BY <3>1 DEF LinksInv, OneAtEachId, Exists
  <2> QED  BY <2>1, <2>2
<1>5. KeysApart'
  <2> SUFFICES ASSUME NEW n \in Clients, NEW k \in tx'[n].keys
               PROVE  /\ k # Root /\ At(k)' = {}
                      /\ \A o \in Clients \ {n} : k \notin tx'[o].keys
    BY DEF KeysApart
  <2>1. tx'[m].keys = {}
    BY <1>1 DEF NoTx
  <2>2. n # m /\ k \in tx[n].keys
    BY <1>2, <2>1
  <2>3. k # Root /\ At(k) = {} /\ \A o \in Clients \ {n} : k \notin tx[o].keys
    BY <2>2 DEF LinksInv, KeysApart
  <2>4. \A o \in Clients \ {n} : k \notin tx'[o].keys
    BY <1>2, <2>1, <2>3
  <2>5. \A c \in Rows : object'[c].id # k
    BY <2>2, <2>3 DEF At, Exists
  <2> QED  BY <2>3, <2>4, <2>5 DEF At
<1>6. Holds(m)' /\ NoneMissed(m)'
  <2>1. tx'[m].moved = {} /\ Got(m)' = {} /\ Mine(m)' = {}
    BY <1>1 DEF NoTx, Got, Mine
  <2> QED  BY <1>1, <2>1 DEF Holds, NoneMissed
<1>7. ASSUME NEW n \in Clients \ {m} PROVE Holds(n)' /\ NoneMissed(n)'
  <2>1. \A c \in Rows : lock[c] = n => object'[c] = object[c]
    BY <1>7
  <2>2. \A c \in late'[n] : c \in late[n] \/ (pc[n] = "lockref" /\ lock[c] # n /\ c \in Rows)
    <3>1. \A c \in rows : lock[c] # n /\ c \in Rows
      BY <1>7
    <3>2. CASE pc[n] = "lockref"
      BY <1>2, <3>1, <3>2
    <3>3. CASE pc[n] # "lockref"
      BY <1>2, <3>3
    <3> QED  BY <3>2, <3>3
  <2>3. Holds(n)'
    BY <1>2, <2>1, <2>2, OthersHold
  <2>4. NoneMissed(n)'
    BY <1>2, <2>1, OthersMissNothing
  <2> QED  BY <2>3, <2>4
<1> QED  BY <1>3, <1>4, <1>5, <1>6, <1>7 DEF LinksInv

\* A step that commits nothing.
LEMMA QuietKeeps ==
  ASSUME MovesInv, LinksInv, NEW m \in Clients, object' = object,
         \A n \in Clients \ {m} : /\ tx'[n] = tx[n] /\ pc'[n] = pc[n] /\ job'[n] = job[n]
                                  /\ late'[n] = late[n],
         \A c \in Rows : lock'[c] # lock[c] => lock[c] \in {None, m} /\ lock'[c] \in {None, m},
         \A k \in tx'[m].keys : \/ k \in tx[m].keys
                                \/ k # Root /\ At(k) = {} /\ Claimants(m, {k}) = {},
         Holds(m)', NoneMissed(m)'
  PROVE  LinksInv'
<1>0. m # None /\ \A n \in Clients : n # None
  BY MovesAssumption
<1>1. RowsDerived' /\ OneAtEachId'
  BY DEF LinksInv, RowsDerived, OneAtEachId, Exists
<1>2. KeysApart'
  <2>1. \A k : At(k)' = At(k)
    BY DEF At, Exists
  <2>2. \A k \in tx'[m].keys : /\ k # Root /\ At(k) = {}
                               /\ \A n \in Clients \ {m} : k \notin tx[n].keys
    BY DEF LinksInv, KeysApart, Claimants
  <2>3. \A n \in Clients \ {m} : \A k \in tx[n].keys :
          /\ k # Root /\ At(k) = {}
          /\ \A o \in Clients \ {n} : k \notin tx[o].keys
    BY DEF LinksInv, KeysApart
  <2> QED  BY <2>1, <2>2, <2>3 DEF KeysApart
<1>3. ASSUME NEW n \in Clients \ {m} PROVE Holds(n)' /\ NoneMissed(n)'
  <2>1. \A c \in Rows : lock'[c] = n <=> lock[c] = n
    BY <1>0, <1>3
  <2>2. Holds(n)'
    BY <1>3, <2>1, OthersHold
  <2>3. late'[n] = late[n] \cup {}
    BY <1>3
  <2>4. NoneMissed(n)'
    BY <1>3, <2>3, OthersMissNothing
  <2> QED  BY <2>2, <2>4
<1> QED  BY <1>1, <1>2, <1>3 DEF LinksInv

-----------------------------------------------------------------------------
(* The steps of a request.                                                  *)

\* A request that begins changes no document.
LEMMA AskHolds ==
  ASSUME LinksInside, MovesInv, LinksInv, NEW m \in Clients, Ask(m) PROVE LinksInv'
<1>0. /\ UNCHANGED <<object, lock, tx, late>> /\ pc[m] = "idle"
      /\ \A n \in Clients \ {m} : pc'[n] = pc[n] /\ job'[n] = job[n]
  BY DEF Ask, AskEdit, AskCreate, AskDelete, AskMove, AskMovePrefix, Admit, To, MovesInv, TypeOK
<1>1. /\ Mine(m) = {} /\ tx[m].moved = {} /\ Got(m) = {} /\ late[m] = {}
  BY <1>0 DEF LinksInv, Holds
<1>2. /\ Mine(m)' = {} /\ tx'[m].moved = {} /\ Got(m)' = {} /\ late'[m] = {}
  BY <1>0, <1>1 DEF Mine, Got
<1>3. \A id \in Ids \cup Directories : id # Root
  BY MovesAssumption
<1>4. \/ /\ pc'[m] = "write" /\ job'[m].from # Root
         /\ job'[m].op # "delete" => Inside(job'[m].from, job'[m].refs)
      \/ pc'[m] \in {"rename", "dir"} /\ job'[m].to # Root
  <2>1. pc \in [Clients -> Steps] /\ job \in [Clients -> JobType]
    BY DEF MovesInv, TypeOK
  <2>2. CASE AskEdit(m)
    <3>1. PICK id \in Ids, text \in Texts :
            Admit(m, "write", [NoJob EXCEPT !.op = "edit", !.from = id, !.refs = text])
      BY <2>2 DEF AskEdit
    <3>2. pc'[m] = "write" /\ job'[m].from = id /\ job'[m].refs = text
      BY <2>1, <3>1 DEF Admit, To, NoJob
    <3> QED  BY <1>3, <3>2 DEF LinksInside
  <2>3. CASE AskCreate(m)
    <3>1. PICK id \in Ids, text \in Texts :
            Admit(m, "write", [NoJob EXCEPT !.op = "create", !.from = id, !.refs = text])
      BY <2>3 DEF AskCreate
    <3>2. pc'[m] = "write" /\ job'[m].from = id /\ job'[m].refs = text
      BY <2>1, <3>1 DEF Admit, To, NoJob
    <3> QED  BY <1>3, <3>2 DEF LinksInside
  <2>4. CASE AskDelete(m)
    <3>1. PICK id \in Ids : Admit(m, "write", [NoJob EXCEPT !.op = "delete", !.from = id])
      BY <2>4 DEF AskDelete
    <3>2. pc'[m] = "write" /\ job'[m].from = id /\ job'[m].op = "delete"
      BY <2>1, <3>1 DEF Admit, To, NoJob
    <3> QED  BY <1>3, <3>2
  <2>5. CASE AskMove(m)
    <3>1. PICK from \in Ids, to \in Ids, within \in Scopes, c \in Rows :
            Admit(m, "rename", [NoJob EXCEPT !.op = "move", !.from = from, !.to = to,
                                             !.within = within, !.seen = object[c]])
      BY <2>5 DEF AskMove
    <3>2. pc'[m] = "rename" /\ job'[m].to = to
      BY <2>1, <3>1 DEF Admit, To, NoJob
    <3> QED  BY <1>3, <3>2
  <2>6. CASE AskMovePrefix(m)
    <3>1. PICK from \in Directories, to \in Directories, within \in Scopes :
            Admit(m, "dir", [NoJob EXCEPT !.op = "moveprefix", !.from = from, !.to = to,
                                          !.within = within])
      BY <2>6 DEF AskMovePrefix
    <3>2. pc'[m] = "dir" /\ job'[m].to = to
      BY <2>1, <3>1 DEF Admit, To, NoJob
    <3> QED  BY <1>3, <3>2
  <2> QED  BY <2>2, <2>3, <2>4, <2>5, <2>6 DEF Ask
<1>5. Holds(m)'
  BY <1>2, <1>4 DEF Holds
<1>6. NoneMissed(m)'
  BY <1>2 DEF NoneMissed
<1> QED  BY <1>0, <1>5, <1>6, QuietKeeps

\* A refusal changes no document.
LEMMA RefuseHolds ==
  ASSUME MovesInv, LinksInv, NEW m \in Clients, Refuse(m) PROVE LinksInv'
<1>0. m # None
  BY MovesAssumption
<1>1. /\ tx'[m] = NoTx(Rows) /\ pc'[m] = "idle" /\ late'[m] = {} /\ object' = object
      /\ \A c \in Rows : lock'[c] = IF lock[c] = m THEN None ELSE lock[c]
      /\ \A n \in Clients \ {m} : /\ tx'[n] = tx[n] /\ pc'[n] = pc[n] /\ job'[n] = job[n]
                                  /\ late'[n] = late[n]
  BY DEF Refuse, End, Release, MovesInv, TypeOK
<1>2. tx'[m].moved = {} /\ tx'[m].keys = {} /\ Got(m)' = {} /\ Mine(m)' = {}
  BY <1>0, <1>1 DEF NoTx, Got, Mine
<1>3. Holds(m)' /\ NoneMissed(m)'
  BY <1>1, <1>2 DEF Holds, NoneMissed
<1> QED  BY <1>1, <1>2, <1>3, QuietKeeps

\* Taking the lock of the row to be written.
LEMMA LockRowHolds ==
  ASSUME MovesInv, LinksInv, NEW m \in Clients, LockRow(m) PROVE LinksInv'
<1>0. /\ tx \in [Clients -> TxType] /\ tx[m] \in TxType /\ pc \in [Clients -> Steps]
      /\ lock \in [Rows -> Clients \cup {None}]
  BY DEF MovesInv, TypeOK
<1>1. PICK c \in Rows :
        /\ Target(m, c)
        /\ lock' = [lock EXCEPT ![c] = m]
        /\ tx' = [tx EXCEPT ![m].keys = IF Exists(c) THEN {} ELSE {job[m].from}]
  BY DEF LockRow
<1>2. /\ Ready(m) /\ pc[m] = "write" /\ pc'[m] = "commit"
      /\ UNCHANGED <<object, job, late>>
      /\ \A n \in Clients \ {m} : pc'[n] = pc[n]
  BY <1>0 DEF LockRow, Ready, To
<1>3. /\ Mine(m) = {} /\ tx[m].moved = {} /\ Got(m) = {} /\ late[m] = {} /\ job[m].from # Root
      /\ job[m].op # "delete" => Inside(job[m].from, job[m].refs)
  BY <1>2 DEF LinksInv, Holds
<1>4. /\ tx'[m].moved = {} /\ tx'[m].got = tx[m].got
      /\ tx'[m].keys = IF Exists(c) THEN {} ELSE {job[m].from}
      /\ \A n \in Clients \ {m} : tx'[n] = tx[n]
  BY <1>0, <1>1, <1>3 DEF TxType
<1>5. Mine(m)' = {c}
  BY <1>0, <1>1, <1>3 DEF Mine
<1>6. Got(m)' = {} /\ late'[m] = {} /\ (Exists(c)' <=> Exists(c))
  BY <1>2, <1>3, <1>4 DEF Got, Exists
<1>7. IF Exists(c) THEN object[c].id = job[m].from ELSE At(job[m].from) = {}
  BY <1>1 DEF Target, LiveAt, At, Fresh
<1>8. lock[c] \in {None, m}
  BY <1>1, <1>2 DEF Ready, Target, LiveAt, At, Free, Fresh
<1>9. Claimants(m, {job[m].from}) = {}
  BY <1>2 DEF Ready
<1>10. pc'[m] = "commit" =>
         \A d \in Mine(m)' : /\ Mine(m)' = {d} /\ job'[m].from # Root
                            /\ IF Exists(d)' THEN object'[d].id = job'[m].from
                               ELSE job'[m].from \in tx'[m].keys
  BY <1>2, <1>3, <1>4, <1>5, <1>6, <1>7
<1>11. Holds(m)'
  BY <1>2, <1>3, <1>4, <1>6, <1>10 DEF Holds
<1>12. NoneMissed(m)'
  BY <1>4 DEF NoneMissed
<1>13. \A d \in Rows : lock'[d] # lock[d] => lock[d] \in {None, m} /\ lock'[d] \in {None, m}
  BY <1>0, <1>1, <1>8
<1>14. \A k \in tx'[m].keys : k # Root /\ At(k) = {} /\ Claimants(m, {k}) = {}
  BY <1>3, <1>4, <1>7, <1>9
<1> QED  BY <1>2, <1>4, <1>11, <1>12, <1>13, <1>14, QuietKeeps

\* The lock of the row that moves, and the key it will have.
LEMMA RenameHolds ==
  ASSUME MovesInv, LinksInv, NEW m \in Clients, Rename(m) PROVE LinksInv'
<1>0. /\ tx \in [Clients -> TxType] /\ tx[m] \in TxType /\ pc \in [Clients -> Steps]
      /\ lock \in [Rows -> Clients \cup {None}] /\ job[m].from \in Path /\ job[m].to \in Path
  BY DEF MovesInv, TypeOK, JobType, Path
<1>1. PICK c \in LiveAt(job[m].from) :
        /\ lock' = [lock EXCEPT ![c] = m]
        /\ tx' = [tx EXCEPT ![m].moved = {c}, ![m].keys = {job[m].to}]
  BY DEF Rename
<1>2. /\ CanRename(m) /\ pc[m] = "rename" /\ pc'[m] = "names" /\ At(job[m].to) = {}
      /\ UNCHANGED <<object, job, late>>
      /\ \A n \in Clients \ {m} : pc'[n] = pc[n]
  BY <1>0 DEF Rename, CanRename, To
<1>3. Got(m) = {} /\ late[m] = {} /\ job[m].to # Root
  BY <1>2 DEF LinksInv, Holds
<1>4. /\ tx'[m].moved = {c} /\ tx'[m].got = tx[m].got /\ tx'[m].keys = {job[m].to}
      /\ \A n \in Clients \ {m} : tx'[n] = tx[n]
  BY <1>0, <1>1 DEF TxType
<1>5. c \in Rows /\ Exists(c) /\ object[c].id = job[m].from /\ lock[c] \in {None, m}
  BY <1>1, <1>2 DEF LiveAt, At, CanRename, Free
<1>6. Got(m)' = {} /\ late'[m] = {} /\ Exists(c)'
  BY <1>2, <1>3, <1>4, <1>5 DEF Got, Exists
<1>7. Under(job[m].from, job[m].from) /\ Follow(job[m], job[m].from) = job[m].to
  BY <1>0, RebaseSelf DEF Under, Follow, Path
<1>8. \A d \in tx'[m].moved : /\ Exists(d)' /\ Under(object'[d].id, job'[m].from)
                              /\ Follow(job'[m], object'[d].id) \in tx'[m].keys
  BY <1>2, <1>4, <1>5, <1>6, <1>7
<1>9. Holds(m)'
  BY <1>2, <1>4, <1>6, <1>8 DEF Holds
<1>10. NoneMissed(m)'
  BY <1>2 DEF NoneMissed
<1>11. \A d \in Rows : lock'[d] # lock[d] => lock[d] \in {None, m} /\ lock'[d] \in {None, m}
  BY <1>0, <1>1, <1>5
<1>12. \A k \in tx'[m].keys : k # Root /\ At(k) = {} /\ Claimants(m, {k}) = {}
  BY <1>2, <1>3, <1>4 DEF CanRename
<1> QED  BY <1>2, <1>4, <1>9, <1>10, <1>11, <1>12, QuietKeeps

\* What a step that only reads, or locks a row nobody else holds, leaves alone.
LEMMA InsideHolds ==
  ASSUME MovesInv, LinksInv, NEW m \in Clients, UNCHANGED <<object, job, late>>,
         \A n \in Clients \ {m} : tx'[n] = tx[n] /\ pc'[n] = pc[n],
         \A c \in Rows : lock'[c] # lock[c] => lock[c] \in {None, m} /\ lock'[c] \in {None, m},
         tx'[m].keys = tx[m].keys, tx'[m].moved = tx[m].moved,
         \/ pc[m] = "dir" /\ pc'[m] = "lockdir"
         \/ pc[m] = "names" /\ pc'[m] = "lockname"
         \/ pc[m] = "lockname" /\ pc'[m] \in {"lockname", "lockref"}
         \/ pc[m] = "lockref" /\ pc'[m] = "lockref",
         \A c \in Got(m)' : tx'[m].got[c] = object[c] /\ object[c].live /\ pc'[m] = "lockref",
         NoneMissed(m)'
  PROVE  LinksInv'
<1>1. Holds(m)
  BY DEF LinksInv
<1>2. \A c \in tx'[m].moved : Exists(c)' <=> Exists(c)
  BY DEF Exists
<1>3. pc'[m] = "lockdir" => tx'[m].moved = {}
  BY <1>1 DEF Holds
<1>4. pc'[m] \in {"names", "lockname", "lockref"} =>
        \A c \in tx'[m].moved : /\ Exists(c)' /\ Under(object'[c].id, job'[m].from)
                               /\ Follow(job'[m], object'[c].id) \in tx'[m].keys
  BY <1>1, <1>2 DEF Holds
<1>5. pc'[m] \in {"lockdir", "lockname", "lockref"} /\ (pc'[m] = "lockdir" => job'[m].to # Root)
  BY <1>1 DEF Holds
<1>6. \A c \in late'[m] : pc'[m] = "lockref" /\ c \notin tx'[m].moved
  BY <1>1 DEF Holds
<1>7. Holds(m)'
  BY <1>3, <1>4, <1>5, <1>6 DEF Holds
<1> QED  BY <1>7, QuietKeeps

\* The reads that list what a move has to take.
LEMMA ReadsHold ==
  ASSUME MovesInv, LinksInv, NEW m \in Clients,
         ReadDirectory(m) \/ ReadNames(m) \/ ReadReferrers(m)
  PROVE  LinksInv'
<1>0. /\ tx \in [Clients -> TxType] /\ tx[m] \in TxType /\ pc \in [Clients -> Steps]
      /\ lock \in [Rows -> Clients \cup {None}]
  BY DEF MovesInv, TypeOK
<1>1. /\ UNCHANGED <<object, lock, job, late>>
      /\ tx'[m].keys = tx[m].keys /\ tx'[m].moved = tx[m].moved /\ tx'[m].got = tx[m].got
      /\ \A n \in Clients \ {m} : tx'[n] = tx[n] /\ pc'[n] = pc[n]
  BY <1>0 DEF ReadDirectory, ReadNames, ReadReferrers, To, TxType
<1>2. \/ ReadDirectory(m) /\ pc[m] = "dir" /\ pc'[m] = "lockdir"
      \/ ReadNames(m) /\ pc[m] = "names" /\ pc'[m] = "lockname"
      \/ ReadReferrers(m) /\ pc[m] = "lockname" /\ pc'[m] = "lockref"
  BY <1>0 DEF ReadDirectory, ReadNames, ReadReferrers, To
<1>3. Got(m) = {} /\ Got(m)' = {}
  BY <1>1, <1>2 DEF LinksInv, Holds, Got
<1>4. NoneMissed(m)'
  <2> SUFFICES ASSUME pc'[m] = "lockref", tx'[m].moved # {}, NEW c \in Rows, Refers(m, c)'
               PROVE  c \in Todo(m)'
    BY DEF NoneMissed
  <2>1. ReadReferrers(m) /\ Refers(m, c) /\ tx[m].moved # {}
    BY <1>1, <1>2 DEF Refers, Olds
  <2>2. tx'[m].todo = [d \in Rows |-> IF tx[m].moved # {} /\ Refers(m, d)
                                      THEN Rank(IdIn(m, d)) ELSE 0]
    BY <1>0, <2>1 DEF ReadReferrers, TxType
  <2>3. tx'[m].todo[c] # 0
    BY <2>1, <2>2, RankPositive
  <2> QED  BY <2>3 DEF Todo
<1> QED  BY <1>1, <1>2, <1>3, <1>4, InsideHolds

\* Taking a row that names a file of the moved directory.
LEMMA LockNameHolds ==
  ASSUME MovesInv, LinksInv, NEW m \in Clients, NEW c \in Rows, LockName(m, c) PROVE LinksInv'
<1>0. /\ tx \in [Clients -> TxType] /\ tx[m] \in TxType
      /\ lock \in [Rows -> Clients \cup {None}]
  BY DEF MovesInv, TypeOK
<1>1. /\ UNCHANGED <<object, pc, job, late>> /\ lock' = [lock EXCEPT ![c] = m]
      /\ tx'[m].keys = tx[m].keys /\ tx'[m].moved = tx[m].moved /\ tx'[m].got = tx[m].got
      /\ \A n \in Clients \ {m} : tx'[n] = tx[n]
      /\ pc[m] = "lockname" /\ Free(m, c)
  BY <1>0 DEF LockName, TxType
<1>2. Got(m) = {} /\ Got(m)' = {}
  BY <1>1 DEF LinksInv, Holds, Got
<1>3. NoneMissed(m)'
  BY <1>1 DEF NoneMissed
<1>4. \A d \in Rows : lock'[d] # lock[d] => lock[d] \in {None, m} /\ lock'[d] \in {None, m}
  BY <1>0, <1>1 DEF Free
<1> QED  BY <1>1, <1>2, <1>3, <1>4, InsideHolds

\* Taking a referrer: what is read of it is what will be relinked.
LEMMA LockReferrerHolds ==
  ASSUME MovesInv, LinksInv, NEW m \in Clients, NEW c \in Rows, LockReferrer(m, c)
  PROVE  LinksInv'
<1>0. /\ tx \in [Clients -> TxType] /\ tx[m] \in TxType
      /\ tx[m].got \in [Rows -> RowType \cup {None}] /\ tx[m].todo \in [Rows -> Nat]
      /\ lock \in [Rows -> Clients \cup {None}] /\ object[c] \in RowType
  BY DEF MovesInv, TypeOK, TxType
<1>1. /\ UNCHANGED <<object, pc, job, late>> /\ lock' = [lock EXCEPT ![c] = m]
      /\ tx'[m].keys = tx[m].keys /\ tx'[m].moved = tx[m].moved
      /\ tx'[m].todo = [tx[m].todo EXCEPT ![c] = 0]
      /\ tx'[m].got = [tx[m].got EXCEPT ![c] = IF Refers(m, c) THEN object[c] ELSE None]
      /\ \A n \in Clients \ {m} : tx'[n] = tx[n]
      /\ pc[m] = "lockref" /\ Free(m, c)
  BY <1>0 DEF LockReferrer, TxType
<1>2. /\ \A d \in Rows \ {c} : d \in Got(m)' <=> d \in Got(m)
      /\ \A d \in Rows \ {c} : tx'[m].got[d] = tx[m].got[d]
      /\ c \in Got(m)' <=> Refers(m, c)
      /\ Refers(m, c) => tx'[m].got[c] = object[c]
  <2>1. object[c] # None
    BY <1>0, MovesAssumption
  <2>2. \A d \in Rows : tx'[m].got[d] = IF d # c THEN tx[m].got[d]
                                          ELSE IF Refers(m, c) THEN object[c] ELSE None
    BY <1>0, <1>1
  <2>3. \A d \in Rows : d \in Got(m)' <=> tx'[m].got[d] # None
    BY DEF Got
  <2>4. \A d \in Rows : d \in Got(m) <=> tx[m].got[d] # None
    BY DEF Got
  <2>5. Refers(m, c) => tx'[m].got[c] = object[c]
    BY <2>2
  <2>6. ~Refers(m, c) => tx'[m].got[c] = None
    BY <2>2
  <2> QED  BY <2>1, <2>2, <2>3, <2>4, <2>5, <2>6
<1>3. \A d \in Got(m)' : tx'[m].got[d] = object[d] /\ object[d].live
  <2> SUFFICES ASSUME NEW d \in Got(m)' PROVE tx'[m].got[d] = object[d] /\ object[d].live
    OBVIOUS
  <2>1. d \in Rows
    BY DEF Got
  <2>2. CASE d = c
    BY <1>2, <2>2 DEF Refers
  <2>3. CASE d # c
    BY <1>2, <2>1, <2>3 DEF LinksInv, Holds
  <2> QED  BY <2>2, <2>3
<1>4. NoneMissed(m)'
  <2> SUFFICES ASSUME tx[m].moved # {}, NEW d \in Rows, Refers(m, d)'
               PROVE  d \in Todo(m)' \cup Got(m)' \cup late'[m]
    BY <1>1 DEF NoneMissed
  <2>1. Refers(m, d)
    BY <1>1 DEF Refers, Olds
  <2>2. d \in Todo(m) \cup Got(m) \cup late[m]
    BY <1>1, <2>1 DEF LinksInv, NoneMissed
  <2>3. CASE d = c
    BY <1>2, <2>1, <2>3
  <2>4. CASE d # c
    <3>1. d \in Todo(m) => d \in Todo(m)'
      BY <1>0, <1>1, <2>4 DEF Todo
    <3> QED  BY <1>1, <1>2, <2>2, <2>4, <3>1
  <2> QED  BY <2>3, <2>4
<1>5. \A d \in Rows : lock'[d] # lock[d] => lock[d] \in {None, m} /\ lock'[d] \in {None, m}
  BY <1>0, <1>1 DEF Free
<1> QED  BY <1>1, <1>3, <1>4, <1>5, InsideHolds

\* Taking a row of the moved directory.
LEMMA LockInDirectoryHolds ==
  ASSUME MovesInv, LinksInv, NEW m \in Clients, NEW c \in Rows, LockInDirectory(m, c)
  PROVE  LinksInv'
<1>0. /\ tx \in [Clients -> TxType] /\ tx[m] \in TxType
      /\ lock \in [Rows -> Clients \cup {None}]
  BY DEF MovesInv, TypeOK
<1>1. /\ UNCHANGED <<object, pc, job, late>> /\ lock' = [lock EXCEPT ![c] = m]
      /\ tx'[m].keys = tx[m].keys /\ tx'[m].got = tx[m].got
      /\ tx'[m].moved = tx[m].moved \cup {d \in {c} : InDirectory(m, d)}
      /\ \A n \in Clients \ {m} : tx'[n] = tx[n]
      /\ pc[m] = "lockdir" /\ Free(m, c)
  BY <1>0 DEF LockInDirectory, TxType
<1>2. /\ Got(m) = {} /\ late[m] = {} /\ job[m].to # Root
      /\ \A d \in tx[m].moved : InDirectory(m, d)
  BY <1>1 DEF LinksInv, Holds
<1>3. Got(m)' = {}
  BY <1>1, <1>2 DEF Got
<1>4. \A d \in tx'[m].moved : InDirectory(m, d)
  BY <1>1, <1>2
<1>5. \A d \in tx'[m].moved : InDirectory(m, d)'
  BY <1>1, <1>4 DEF InDirectory, Exists
<1>6. Holds(m)'
  BY <1>1, <1>2, <1>3, <1>5 DEF Holds
<1>7. NoneMissed(m)'
  BY <1>1 DEF NoneMissed
<1>8. \A d \in Rows : lock'[d] # lock[d] => lock[d] \in {None, m} /\ lock'[d] \in {None, m}
  BY <1>0, <1>1 DEF Free
<1> QED  BY <1>1, <1>6, <1>7, <1>8, QuietKeeps

\* The unique keys of the new addresses.
LEMMA RekeyHolds ==
  ASSUME MovesInv, LinksInv, NEW m \in Clients, Rekey(m) PROVE LinksInv'
<1>0. /\ tx \in [Clients -> TxType] /\ tx[m] \in TxType /\ pc \in [Clients -> Steps]
      /\ job[m].from \in Path /\ job[m].to \in Path /\ tx[m].moved \in SUBSET Rows
  BY DEF MovesInv, TypeOK, TxType, JobType, Path
<1>1. /\ UNCHANGED <<object, lock, job, late>>
      /\ tx'[m].keys = News(m) /\ tx'[m].got = tx[m].got /\ tx'[m].moved = tx[m].moved
      /\ \A n \in Clients \ {m} : tx'[n] = tx[n] /\ pc'[n] = pc[n]
      /\ CanRekey(m) /\ ~Occupied(m) /\ pc[m] = "lockdir" /\ pc'[m] = "names"
  BY <1>0 DEF Rekey, CanRekey, To, TxType
<1>2. Got(m) = {} /\ late[m] = {} /\ \A d \in tx[m].moved : InDirectory(m, d)
  BY <1>1 DEF LinksInv, Holds
<1>3. Got(m)' = {}
  BY <1>1, <1>2 DEF Got
<1>4. \A d \in tx[m].moved : /\ Exists(d) /\ Under(object[d].id, job[m].from)
                             /\ Beneath(object[d].id, job[m].from)
                             /\ Follow(job[m], object[d].id) \in News(m)
  BY <1>2 DEF InDirectory, Beneath, News, Olds
<1>5. \A d \in tx'[m].moved : /\ Exists(d)' /\ Under(object'[d].id, job'[m].from)
                              /\ Follow(job'[m], object'[d].id) \in tx'[m].keys
  BY <1>1, <1>4 DEF Exists
<1>6. Holds(m)'
  BY <1>1, <1>2, <1>3, <1>5 DEF Holds
<1>7. NoneMissed(m)'
  BY <1>1 DEF NoneMissed
<1>8. ASSUME NEW k \in News(m) PROVE k # Root /\ At(k) = {} /\ Claimants(m, {k}) = {}
  <2>1. PICK d \in tx[m].moved : k = Follow(job[m], object[d].id)
    BY DEF News, Olds
  <2>2. d \in Rows /\ object[d].id \in Path
    BY <1>0, IdInType DEF MovesInv
  <2>3. Beneath(k, job[m].to) /\ k # Root
    BY <1>0, <1>4, <2>1, <2>2, RebaseBeneath DEF Follow
  <2>4. At(k) = {}
    BY <1>1, <2>3 DEF Occupied, At
  <2>5. Claimants(m, {k}) = {}
    BY <1>1 DEF CanRekey, Claimants
  <2> QED  BY <2>3, <2>4, <2>5
<1> QED  BY <1>1, <1>6, <1>7, <1>8, QuietKeeps

\* A write publishes one row, whose links are derived from its body.
LEMMA CommitHolds ==
  ASSUME MovesInv, LinksInv, NEW m \in Clients, Commit(m) PROVE LinksInv'
<1>1. /\ pc[m] = "commit" /\ End(m) /\ Publish(m, Mine(m))
      /\ \A c \in Mine(m) : c \in Rows /\ lock[c] = m /\ object'[c] = Written(job[m], object[c])
      /\ \A c \in Rows \ Mine(m) : object'[c] = object[c]
  BY DEF Commit, Mine
<1>2. /\ \A c \in Mine(m) : /\ Mine(m) = {c} /\ job[m].from # Root
                            /\ IF Exists(c) THEN object[c].id = job[m].from
                               ELSE job[m].from \in tx[m].keys
      /\ job[m].op # "delete" => Inside(job[m].from, job[m].refs)
  BY <1>1 DEF LinksInv, Holds
<1>3. ASSUME NEW c \in Mine(m)
      PROVE  /\ object'[c].id = object[c].id \/ object'[c].id \in tx[m].keys
             /\ object'[c].live => /\ object'[c].id # Root /\ Derived(object'[c])
                                   /\ Inside(object'[c].id, object'[c].refs)
  <2>1. object[c] \in RowType
    BY <1>1 DEF MovesInv, TypeOK
  <2>2. CASE job[m].op = "delete"
    <3>1. object'[c].id = object[c].id /\ ~object'[c].live
      BY <1>1, <2>1, <2>2 DEF Written, RowType
    <3> QED  BY <3>1
  <2>3. CASE job[m].op # "delete"
    <3>1. /\ object'[c].id = job[m].from /\ object'[c].refs = job[m].refs
          /\ object'[c].links = LinksFromBody(job[m].from, job[m].refs)
      <4>1. Written(job[m], object[c]) =
              [id |-> job[m].from, live |-> TRUE, refs |-> job[m].refs, mark |-> object[c].mark + 1,
               links |-> LinksFromBody(job[m].from, job[m].refs),
               files |-> FilesFromBody(job[m].from, job[m].refs)]
        BY <2>3 DEF Written
      <4>2. object'[c] = Written(job[m], object[c])
        BY <1>1
      <4> QED  BY <4>1, <4>2
    <3>2. Derived(object'[c])
      BY <3>1 DEF Derived, LinksFromBody
    <3> QED  BY <1>2, <2>3, <3>1, <3>2
  <2> QED  BY <2>2, <2>3
<1>4. \A c \in Rows : object'[c].id = object[c].id \/ object'[c].id \in tx[m].keys
  BY <1>1, <1>3
<1>5. \A c \in Rows : object'[c].live => /\ object'[c].id # Root /\ Derived(object'[c])
                                         /\ Inside(object'[c].id, object'[c].refs)
  <2> SUFFICES ASSUME NEW c \in Rows, object'[c].live
               PROVE  /\ object'[c].id # Root /\ Derived(object'[c])
                      /\ Inside(object'[c].id, object'[c].refs)
    OBVIOUS
  <2>1. CASE c \in Mine(m)
    BY <1>3, <2>1
  <2>2. CASE c \notin Mine(m)
    <3>1. object'[c] = object[c]
      BY <1>1, <2>2
    <3> QED  BY <3>1 DEF LinksInv, RowsDerived
  <2> QED  BY <2>1, <2>2
<1>6. \A c \in Rows : object'[c].id \in tx[m].keys => c \in Mine(m)
  BY <1>1 DEF LinksInv, KeysApart, At, Exists
<1>7. \A c, d \in Rows : object'[c].id = object'[d].id /\ object'[c].id \in tx[m].keys => c = d
  <2> SUFFICES ASSUME NEW c \in Rows, NEW d \in Rows, object'[c].id = object'[d].id,
                      object'[c].id \in tx[m].keys
               PROVE  c = d
    OBVIOUS
  <2>1. c \in Mine(m) /\ d \in Mine(m)
    BY <1>6
  <2> QED  BY <1>2, <2>1
<1>8. Mine(m) \in SUBSET Rows
  BY DEF Mine
<1> QED  BY <1>1, <1>4, <1>5, <1>7, <1>8, WroteKeeps

\* A move publishes its rows: every link leads where it led, at the moved address when
\* that is what moved.
LEMMA RewriteHolds ==
  ASSUME MovesInv, LinksInv, NEW m \in Clients, Rewrite(m) PROVE LinksInv'
<1> DEFINE rows == tx[m].moved \cup tx[m].named \cup Repaired(m)
<1>1. /\ CanRewrite(m) /\ pc[m] = "lockref" /\ End(m) /\ Publish(m, rows)
      /\ \A c \in Rows : object'[c] = Row(m, c)
  BY DEF Rewrite, CanRewrite
<1>2. rows \in SUBSET Rows /\ \A c \in rows : lock[c] = m
  <2>1. tx[m].moved \in SUBSET Rows /\ tx[m].named \in SUBSET Rows
    BY DEF MovesInv, TypeOK, TxType
  <2>2. \A c \in Repaired(m) : c \in Rows /\ tx[m].got[c] # None
    BY DEF Repaired, Got
  <2> QED  BY <2>1, <2>2 DEF MovesInv, Locked, Claims
<1>3. \A c \in Rows \ rows : object'[c] = object[c]
  BY <1>1, RowIs
<1>4. /\ \A c \in tx[m].moved : object'[c].id = Follow(job[m], object[c].id)
      /\ \A c \in tx[m].moved : object'[c].id \in tx[m].keys /\ Exists(c)
                                /\ Under(object[c].id, job[m].from)
      /\ \A c \in Rows \ tx[m].moved : object'[c].id = object[c].id
  <2>1. \A c \in Rows : object'[c].id = IdIn(m, c)
    BY <1>1, RowIs
  <2>2. \A c \in tx[m].moved : /\ c \in Rows /\ Exists(c) /\ Under(object[c].id, job[m].from)
                               /\ Follow(job[m], object[c].id) \in tx[m].keys
    BY <1>1, <1>2 DEF LinksInv, Holds
  <2> QED  BY <2>1, <2>2 DEF IdIn
<1>5. \A c \in Rows : object'[c].id = object[c].id \/ object'[c].id \in tx[m].keys
  BY <1>4
<1>6. \A c, d \in Rows : object'[c].id = object'[d].id /\ object'[c].id \in tx[m].keys => c = d
  <2> SUFFICES ASSUME NEW c \in Rows, NEW d \in Rows, object'[c].id = object'[d].id,
                      object'[c].id \in tx[m].keys
               PROVE  c = d
    OBVIOUS
  <2>1. \A k \in tx[m].keys : \A e \in Rows : object[e].id # k
    BY DEF LinksInv, KeysApart, At, Exists
  <2>2. c \in tx[m].moved /\ d \in tx[m].moved
    BY <1>4, <2>1
  <2>3. Follow(job[m], object[c].id) = Follow(job[m], object[d].id)
    BY <1>4, <2>2
  <2>4. /\ object[c].id \in Path /\ object[d].id \in Path
        /\ job[m].from \in Path /\ job[m].to \in Path
    BY IdInType DEF MovesInv, TypeOK, JobType, Path
  <2>5. object[c].id = object[d].id
    BY <1>4, <2>2, <2>3, <2>4, RebaseApart DEF Follow
  <2> QED  BY <1>4, <2>2, <2>5 DEF LinksInv, OneAtEachId
<1>7. \A c \in Rows : object'[c].live => /\ object'[c].id # Root /\ Derived(object'[c])
                                         /\ Inside(object'[c].id, object'[c].refs)
  <2> SUFFICES ASSUME NEW c \in Rows, object'[c].live
               PROVE  /\ object'[c].id # Root /\ Derived(object'[c])
                      /\ Inside(object'[c].id, object'[c].refs)
    OBVIOUS
  <2>1. object'[c] = Row(m, c)
    BY <1>1
  <2>2. CASE c \in Got(m)
    BY <1>1, <2>1, <2>2, GotDerived
  <2>3. CASE c \notin Got(m)
    <3>1. object[c].live /\ object'[c].refs = object[c].refs /\ object'[c].links = object[c].links
      BY <2>1, <2>3, RowIs
    <3>2. c \notin tx[m].moved
      <4>1. CASE c \in late[m]
        BY <4>1 DEF LinksInv, Holds
      <4>2. CASE c \notin late[m]
        BY <1>1, <2>3, <3>1, <4>2, OthersKept
      <4> QED  BY <4>1, <4>2
    <3>3. object'[c].id = object[c].id
      BY <1>4, <3>2
    <3>4. object[c].id # Root /\ Derived(object[c]) /\ Inside(object[c].id, object[c].refs)
      BY <3>1 DEF LinksInv, RowsDerived
    <3> QED  BY <3>1, <3>3, <3>4 DEF Derived
  <2> QED  BY <2>2, <2>3
<1> HIDE DEF rows
<1> QED  BY <1>1, <1>2, <1>3, <1>5, <1>6, <1>7, WroteKeeps

\* Both invariants hold of every behaviour.
LEMMA LinksInvariant ==
  ASSUME LinksInside PROVE Spec => [](MovesInv /\ LinksInv)
<1>1. MovesInv /\ LinksInv /\ [Next]_vars => LinksInv'
  <2> SUFFICES ASSUME MovesInv, LinksInv, [Next]_vars PROVE LinksInv'
    OBVIOUS
  <2>1. CASE UNCHANGED vars
    BY <2>1 DEF vars, LinksInv, RowsDerived, OneAtEachId, KeysApart, Holds, NoneMissed, Exists,
       At, Mine, Got, Todo, InDirectory, Refers, Olds
  <2>2. ASSUME NEW m \in Clients, Step(m) PROVE LinksInv'
    BY <2>2, RefuseHolds, LockRowHolds, CommitHolds, RenameHolds, ReadsHold, RekeyHolds,
       LockInDirectoryHolds, LockNameHolds, LockReferrerHolds, RewriteHolds
       DEF Step, WriteRefused, RenameRefused, RekeyRefused, RewriteRefused, BreakDeadlock
  <2> QED  BY <2>1, <2>2, AskHolds DEF Next
<1> QED  BY <1>1, LinksInit, MovesInvariant, PTL DEF Spec

\* Links between documents keep their meaning over a move, whichever end moved and
\* however the link is written, in every live document the move could have read, and
\* the links column agrees (repairReferences) -- of links that do not climb out of the
\* bundle, which a move to a deeper directory may lead back in.
THEOREM MovesKeepLinks == ASSUME LinksInside PROVE Spec => LinksKeepMeaning
<1>1. MovesInv /\ LinksInv =>
        [\A m \in Clients : Rewrite(m) =>
           \A c \in Rows \ Unseen(m) :
             LET link(refs) == {r \in BodyRefs(refs) : r.doc}
                 after == {Resolve(object'[c].id, r) : r \in link(object'[c].refs)}
             IN object[c].live =>
                  /\ Meanings(m, c, link(object[c].refs)) = after \ {Root}
                  /\ object'[c].links \ {object'[c].id} = after \ {Root, object'[c].id}]_vars
  <2> SUFFICES ASSUME MovesInv, LinksInv, NEW m \in Clients, Rewrite(m),
                      NEW c \in Rows \ Unseen(m), object[c].live
               PROVE  /\ Meanings(m, c, Pages(object[c].refs))
                           = Leads(object'[c].id, object'[c].refs) \ {Root}
                      /\ object'[c].links \ {object'[c].id}
                           = Leads(object'[c].id, object'[c].refs) \ {Root, object'[c].id}
    BY DEF Pages, Leads
  <2>1. object'[c] = Row(m, c) /\ CanRewrite(m) /\ pc[m] = "lockref"
    BY DEF Rewrite, CanRewrite
  <2>2. Meanings(m, c, Pages(object[c].refs)) =
          {Meaning(m, r, Resolve(object[c].id, r)) : r \in Pages(object[c].refs)} \ {Root}
    BY DEF Meanings
  <2>3. CASE c \in Got(m)
    <3>1. /\ Derived(object'[c])
          /\ Leads(object'[c].id, object'[c].refs) =
               {Meaning(m, r, Resolve(object[c].id, r)) : r \in Pages(object[c].refs)}
      BY <2>1, <2>3, GotDerived
    <3> QED  BY <2>2, <3>1 DEF Derived, Leads, Pages
  <2>4. CASE c \notin Got(m)
    <3>1. c \notin late[m]
      BY <2>4 DEF Unseen
    <3>2. /\ c \notin tx[m].moved
          /\ \A r \in Pages(object[c].refs) : Resolve(object[c].id, r) \notin Olds(m)
      BY <2>1, <2>4, <3>1, OthersKept
    <3>3. /\ object'[c].id = object[c].id /\ object'[c].refs = object[c].refs
          /\ object'[c].links = object[c].links
      BY <2>1, <2>4, <3>2, RowIs DEF IdIn
    <3>4. \A r \in Pages(object[c].refs) :
            Meaning(m, r, Resolve(object[c].id, r)) = Resolve(object[c].id, r)
      BY <3>2 DEF Meaning, Pages
    <3>5. Derived(object[c])
      BY DEF LinksInv, RowsDerived
    <3> QED  BY <2>2, <3>3, <3>4, <3>5 DEF Derived, Leads, Pages
  <2> QED  BY <2>3, <2>4
<1> QED  BY <1>1, LinksInvariant, PTL DEF LinksKeepMeaning
=============================================================================
