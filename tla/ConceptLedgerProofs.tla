------------------------ MODULE ConceptLedgerProofs ------------------------
(* That the history of a concept agrees with its row, that a precondition   *)
(* protects the version it names, and that purging takes only tombstones:   *)
(* for any number of requests, clients and documents.                       *)
EXTENDS ConceptLedger, SequenceTheorems, WellFoundedInduction, TLAPS

-----------------------------------------------------------------------------
(* Maxima of sets of naturals: SQL's MAX and GREATEST are FiniteSetsExt's   *)
(* Max.                                                                     *)

\* A set of naturals has a least element: what the bound of a column rests on.
LEMMA LeastElement ==
  ASSUME NEW T \in SUBSET Nat, T # {}
  PROVE  \E m \in T : \A y \in T : ~ (y < m)
<1>1. PICK m \in T : \A y \in T : ~ (<<y, m>> \in OpToRel(<, Nat))
  BY NatLessThanWellFounded, WFMin, Zenon
<1>2. \A y \in T : ~ (y < m)
  BY <1>1 DEF OpToRel
<1>q. QED  BY <1>2

\* MAX over a bounded, non-empty set of naturals is one of them and bounds them.
LEMMA MaxBounded ==
  ASSUME NEW S \in SUBSET Nat, S # {}, NEW n \in Nat, \A s \in S : s <= n
  PROVE  Max(S) \in S /\ \A s \in S : s <= Max(S)
<1> DEFINE T == {m \in Nat : \A s \in S : s <= m}
<1>1. PICK m \in T : \A y \in T : ~ (y < m)
  <2>1. T \in SUBSET Nat /\ T # {}
    OBVIOUS
  <2>q. QED  BY <2>1, LeastElement
<1>2. m \in Nat /\ \A s \in S : s \in Nat /\ s <= m
  OBVIOUS
<1>3. m \in S
  <2>1. SUFFICES ASSUME m \notin S PROVE FALSE
    OBVIOUS
  <2>2. \A s \in S : s <= m - 1
    BY <1>2, <2>1
  <2>3. m - 1 \in T
    <3>1. PICK s \in S : s <= m - 1 /\ s \in Nat
      BY <2>2, <1>2
    <3>2. m - 1 \in Nat
      BY <3>1, <1>2
    <3>q. QED  BY <3>2, <2>2
  <2>q. QED  BY <1>1, <2>3, <1>2
<1>4. m \in S /\ \A y \in S : m >= y
  BY <1>2, <1>3
<1>q. QED  BY <1>4, <1>2 DEF Max

\* GREATEST of two.
LEMMA MaxOfTwo ==
  ASSUME NEW a \in Nat, NEW b \in Nat
  PROVE  Max({a, b}) \in Nat /\ a <= Max({a, b}) /\ b <= Max({a, b})
<1>1. PICK n \in Nat : a <= n /\ b <= n
  BY a <= a + b, b <= a + b, a + b \in Nat
<1>q. QED  BY <1>1, MaxBounded

\* GREATEST of four.
LEMMA MaxOfFour ==
  ASSUME NEW a \in Nat, NEW b \in Nat, NEW c \in Nat, NEW d \in Nat
  PROVE  /\ Max({a, b, c, d}) \in Nat
         /\ a <= Max({a, b, c, d}) /\ b <= Max({a, b, c, d})
         /\ c <= Max({a, b, c, d}) /\ d <= Max({a, b, c, d})
<1>1. PICK n \in Nat : a <= n /\ b <= n /\ c <= n /\ d <= n
  <2>1. a + b + c + d \in Nat
    OBVIOUS
  <2>2. /\ a <= a + b + c + d /\ b <= a + b + c + d
        /\ c <= a + b + c + d /\ d <= a + b + c + d
    OBVIOUS
  <2>q. QED  BY <2>1, <2>2
<1>q. QED  BY <1>1, MaxBounded

-----------------------------------------------------------------------------
(* What makes the history agree: an inductive strengthening.                *)

Writers == {"put", "putCreate", "update", "create", "publish"}

\* The steps of each kind of request.
StepsOf(op) ==
  CASE op = "none"                   -> {"idle"}
    [] op = "put"                    -> {"get", "update", "updateRow", "revise", "commit"}
    [] op = "update"                 -> {"guard", "guardTombstone", "get", "update",
                                         "updateRow", "revise", "commit"}
    [] op = "publish"                -> {"get", "update", "updateRow", "revise", "commit"}
    [] op \in {"create", "putCreate"} -> {"create", "createRow", "clear", "revise", "commit"}
    [] op = "verify"                 -> {"verify", "reread", "revise", "commit"}
    [] op = "delete"                 -> {"delete", "deleteRow", "revise", "commit"}
    [] op = "purge"                  -> {"purge", "erase", "commit"}

\* What a request carries at each step: the document it writes, the row it
\* has pending, the document its revision will hold.
CarriesAt(at, j, t) ==
  /\ at \in StepsOf(j.op)
  /\ j.op \in Writers /\ (j.op = "publish" => at # "get") => j.want \in Docs
  /\ j.op \in {"create", "putCreate", "purge"} => j.match = None
  /\ at \in {"guard", "guardTombstone"} => j.match = None
  /\ j.op \in Writers /\ at \in {"clear", "revise", "commit"} =>
       t.row \in Rows /\ t.row.state = "live" /\ t.row.doc = j.want
  /\ j.op = "delete" /\ at # "delete" => t.doc \in Docs
  /\ j.op = "delete" /\ at \in {"revise", "commit"} =>
       t.row \in Rows /\ t.row.state = "deleted" /\ t.row.doc \in Docs
  /\ at \notin {"clear", "revise", "commit"} \/ j.op = "verify" => t.row = None
  /\ j.op = "verify" /\ at \in {"revise", "commit"} => t.doc \in Docs
  /\ j.op = "purge" /\ at = "commit" => t.row = Absent

Carries(c) == CarriesAt(pc[c], job[c], tx[c])

\* Stamps stay below some bound, so MAX(at) and MAX(seq) are numbers.
Bounded(vs) == \E n \in Nat : \A v \in vs : v.at <= n /\ v.seq <= n

TypeInv == TypeOK /\ Bounded(vers) /\ \A c \in Clients : Carries(c)

\* The steps a request takes while it holds the row's lock.
Holds(c) ==
  \/ pc[c] \in {"clear", "erase"}
  \/ pc[c] \in {"revise", "commit"} /\ job[c].op # "verify"

\* What the lock's holder knows of the row it is about to replace.
Knows(c) ==
  /\ job[c].op \in {"put", "update", "publish", "delete"} =>
       obj.state = "live" /\ job[c].match \in {None, obj.doc}
  /\ job[c].op \in {"create", "putCreate"} => obj.state # "live"
  /\ job[c].op = "delete" => tx[c].row.doc = obj.doc
  /\ job[c].op = "purge" => obj.state = "deleted"
  /\ job[c].op = "purge" /\ pc[c] = "commit" => tx[c].cut <= Len(revs)
  /\ job[c].op = "purge" /\ pc[c] = "commit" =>
       \A i \in 1 .. Len(revs) : i > tx[c].cut => revs[i].change = "verify"

Locking == \A c \in Clients :
  /\ Holds(c) <=> lock = c
  /\ Holds(c) => Knows(c)

LedgerInv == TypeInv /\ Locking /\ LedgerAgrees

-----------------------------------------------------------------------------
(* Types.                                                                   *)

\* MAX(at) over a ledger with bounded stamps is a number past none of them.
LEMMA NewestType ==
  ASSUME NEW vs \in SUBSET Verifications, Bounded(vs)
  PROVE  Newest(vs) \in Nat /\ \A v \in vs : v.at <= Newest(vs)
<1> DEFINE S == {0} \cup {v.at : v \in vs}
<1>1. S \in SUBSET Nat /\ S # {}
  BY DEF Verifications
<1>2. PICK n \in Nat : \A v \in vs : v.at <= n
  BY DEF Bounded
<1>3. \A s \in S : s <= n
  BY <1>2
<1>4. Max(S) \in S /\ \A s \in S : s <= Max(S)
  BY <1>1, <1>3, MaxBounded
<1>5. \A v \in vs : v.at \in S
  OBVIOUS
<1>q. QED  BY <1>1, <1>4, <1>5 DEF Newest

\* MAX(seq) + 1 is a number.
LEMMA NextSeqType ==
  ASSUME NEW vs \in SUBSET Verifications, Bounded(vs)
  PROVE  NextSeq(vs) \in Nat
<1> DEFINE S == {0} \cup {v.seq : v \in vs}
<1>1. S \in SUBSET Nat /\ S # {}
  BY DEF Verifications
<1>2. PICK n \in Nat : \A v \in vs : v.seq <= n
  BY DEF Bounded
<1>3. \A s \in S : s <= n
  BY <1>2
<1>4. Max(S) \in S
  BY <1>1, <1>3, MaxBounded
<1>q. QED  BY <1>1, <1>4 DEF NextSeq

\* Forgetting rows and adding one keeps a ledger's stamps bounded.
LEMMA BoundedStep ==
  ASSUME NEW vs \in SUBSET Verifications, Bounded(vs), NEW drop,
         NEW new \in SUBSET Verifications,
         new = {} \/ \E v \in Verifications : new = {v}
  PROVE  Bounded((vs \ drop) \cup new)
<1>1. PICK n \in Nat : \A v \in vs : v.at <= n /\ v.seq <= n
  BY DEF Bounded
<1>2. CASE new = {}
  BY <1>1, <1>2 DEF Bounded
<1>3. ASSUME NEW v \in Verifications, new = {v}
      PROVE  Bounded((vs \ drop) \cup new)
  <2>1. v.at \in Nat /\ v.seq \in Nat
    BY DEF Verifications
  <2>2. n + v.at + v.seq \in Nat
    BY <2>1
  <2>3. \A w \in (vs \ drop) \cup new :
          w.at <= n + v.at + v.seq /\ w.seq <= n + v.at + v.seq
    <3>1. TAKE w \in (vs \ drop) \cup new
    <3>2. w.at \in Nat /\ w.seq \in Nat
      BY DEF Verifications
    <3>3. CASE w \in vs
      BY <1>1, <2>1, <3>2, <3>3
    <3>4. CASE w = v
      BY <2>1, <3>4
    <3>q. QED  BY <1>3, <3>3, <3>4
  <2>q. QED  BY <2>2, <2>3 DEF Bounded
<1>q. QED  BY <1>2, <1>3

\* The constant requests and transactions are well typed.
LEMMA NoJobType ==
  /\ NoJob \in Jobs /\ NoTx \in Txs /\ Absent \in Rows
  /\ NoJob.op = "none" /\ NoTx.row = None
BY DEF NoJob, NoTx, Jobs, Txs, Ops, Absent, Rows

\* A step of one request that leaves the tables alone keeps the types, when
\* the request carries what its next step needs.
LEMMA StepType ==
  ASSUME TypeInv, NEW c \in Clients, NEW at \in Steps, NEW j \in Jobs, NEW t \in Txs,
         CarriesAt(at, j, t),
         pc' = [pc EXCEPT ![c] = at],
         job' = [job EXCEPT ![c] = j],
         tx' = [tx EXCEPT ![c] = t],
         lock' \in Clients \cup {None}, clock' \in Nat,
         budget' \in 0 .. MaxRequests, UNCHANGED db
  PROVE  TypeInv'
<1>1. TypeOK'
  BY DEF TypeInv, TypeOK, db
<1>2. Bounded(vers')
  BY DEF TypeInv, db
<1>3. ASSUME NEW d \in Clients  PROVE Carries(d)'
  <2>1. CASE d = c
    BY <2>1 DEF TypeInv, TypeOK, Carries
  <2>2. CASE d # c
    <3>1. pc'[d] = pc[d] /\ job'[d] = job[d] /\ tx'[d] = tx[d]
      BY <2>2 DEF TypeInv, TypeOK
    <3>q. QED  BY <3>1 DEF TypeInv, Carries
  <2>q. QED  BY <2>1, <2>2
<1>q. QED  BY <1>1, <1>2, <1>3 DEF TypeInv

\* The same when only the request's job moves.
LEMMA JobStepType ==
  ASSUME TypeInv, NEW c \in Clients, NEW at \in Steps, NEW j \in Jobs,
         CarriesAt(at, j, tx[c]), Go(c, at),
         job' = [job EXCEPT ![c] = j],
         clock' \in Nat, UNCHANGED <<db, tx, lock, budget>>
  PROVE  TypeInv'
<1>1. tx[c] \in Txs /\ tx' = [tx EXCEPT ![c] = tx[c]]
  BY DEF TypeInv, TypeOK
<1>2. lock' \in Clients \cup {None} /\ budget' \in 0 .. MaxRequests
  BY DEF TypeInv, TypeOK
<1>q. QED  BY <1>1, <1>2, StepType DEF Go

\* The same when only its transaction moves.
LEMMA TxStepType ==
  ASSUME TypeInv, NEW c \in Clients, NEW at \in Steps, NEW t \in Txs,
         CarriesAt(at, job[c], t), Go(c, at),
         tx' = [tx EXCEPT ![c] = t], lock' \in Clients \cup {None},
         clock' \in Nat, UNCHANGED <<db, job, budget>>
  PROVE  TypeInv'
<1>1. job[c] \in Jobs /\ job' = [job EXCEPT ![c] = job[c]]
  BY DEF TypeInv, TypeOK
<1>2. budget' \in 0 .. MaxRequests
  BY DEF TypeInv, TypeOK
<1>q. QED  BY <1>1, <1>2, StepType DEF Go

\* Answering a request, or rolling it back, keeps the types.
LEMMA FinishType ==
  ASSUME TypeInv, NEW c \in Clients, Finish(c), UNCHANGED <<db, budget>>, clock' \in Nat
  PROVE  TypeInv'
<1>1. CarriesAt("idle", NoJob, NoTx) /\ "idle" \in Steps
  BY NoJobType DEF CarriesAt, StepsOf, Writers, Steps
<1>2. lock' \in Clients \cup {None} /\ budget' \in 0 .. MaxRequests
  BY DEF Finish, Release, TypeInv, TypeOK
<1>q. QED  BY <1>1, <1>2, NoJobType, StepType DEF Finish

\* Admitting a request keeps the types, provided it carries what its first
\* step needs.
LEMMA AdmitType ==
  ASSUME TypeInv, NEW c \in Clients, NEW at \in Steps, NEW j \in Jobs, Admit(c, at, j),
         tx[c].row = None => CarriesAt(at, j, tx[c])
  PROVE  TypeInv'
<1>0. tx[c].row = None
  BY DEF Admit, TypeInv, Carries, CarriesAt
<1>1. tx[c] \in Txs /\ tx' = [tx EXCEPT ![c] = tx[c]]
  BY DEF TypeInv, TypeOK, Admit
<1>2. /\ lock' \in Clients \cup {None} /\ budget' \in 0 .. MaxRequests
      /\ clock' \in Nat /\ UNCHANGED db
  BY ConstantsAssumption DEF TypeInv, TypeOK, Admit
<1>q. QED  BY <1>0, <1>1, <1>2, StepType DEF Admit, Go

\* Every request is admitted well typed.
LEMMA RequestType ==
  ASSUME TypeInv, NEW c \in Clients, Request(c)
  PROVE  TypeInv'
<1>1. CASE RequestPut(c)
  <2>1. PICK d \in Payloads, m \in Preconditions :
          Admit(c, "get", [NoJob EXCEPT !.op = "put", !.want = d, !.match = m])
    BY <1>1 DEF RequestPut
  <2>2. d \in Docs /\ m \in Docs \cup {None}
    BY ConstantsAssumption DEF TypeInv, TypeOK, Preconditions
  <2>q. QED  BY <2>1, <2>2, AdmitType DEF NoJob, Jobs, Ops, Steps, CarriesAt, StepsOf, Writers
<1>2. CASE RequestCreate(c)
  <2>1. PICK d \in Payloads :
          Admit(c, "create", [NoJob EXCEPT !.op = "create", !.want = d])
    BY <1>2 DEF RequestCreate
  <2>q. QED  BY <2>1, AdmitType, ConstantsAssumption DEF NoJob, Jobs, Ops, Steps, CarriesAt, StepsOf, Writers
<1>3. CASE RequestAgentPut(c)
  <2>1. PICK d \in Payloads :
          Admit(c, "guard", [NoJob EXCEPT !.op = "update", !.agent = TRUE, !.want = d])
    BY <1>3 DEF RequestAgentPut
  <2>q. QED  BY <2>1, AdmitType, ConstantsAssumption DEF NoJob, Jobs, Ops, Steps, CarriesAt, StepsOf, Writers
<1>4. CASE RequestVerify(c)
  BY <1>4, AdmitType DEF RequestVerify, NoJob, Jobs, Ops, Steps,
       CarriesAt, StepsOf, Writers
<1>5. CASE RequestDelete(c)
  <2>1. PICK m \in Preconditions :
          Admit(c, "delete", [NoJob EXCEPT !.op = "delete", !.match = m])
    BY <1>5 DEF RequestDelete
  <2>2. m \in Docs \cup {None}
    BY ConstantsAssumption DEF TypeInv, TypeOK, Preconditions
  <2>q. QED  BY <2>1, <2>2, AdmitType DEF NoJob, Jobs, Ops, Steps, CarriesAt, StepsOf, Writers
<1>6. CASE RequestPurge(c)
  BY <1>6, AdmitType DEF RequestPurge, NoJob, Jobs, Ops, Steps,
       CarriesAt, StepsOf, Writers
<1>q. QED  BY <1>1, <1>2, <1>3, <1>4, <1>5, <1>6 DEF Request

\* Put's fallbacks keep the types.
LEMMA NotFoundType ==
  ASSUME TypeInv, NEW c \in Clients, NotFound(c),
         UNCHANGED <<db, budget>>, clock' \in Nat
  PROVE  TypeInv'
<1>1. CASE job[c].op = "put" /\ job[c].match = None
  <2> DEFINE j == [job[c] EXCEPT !.op = "putCreate"]
  <2>1. j \in Jobs /\ job[c] \in Jobs
    BY DEF TypeInv, TypeOK, Jobs, Ops
  <2>2. CarriesAt("create", j, NoTx)
    <3>1. job[c].want \in Docs
      BY <1>1 DEF TypeInv, Carries, CarriesAt, Writers
    <3>q. QED
      BY <1>1, <2>1, <3>1, NoJobType DEF CarriesAt, StepsOf, Writers, Jobs
  <2>3. /\ pc' = [pc EXCEPT ![c] = "create"] /\ job' = [job EXCEPT ![c] = j]
        /\ tx' = [tx EXCEPT ![c] = NoTx] /\ lock' \in Clients \cup {None}
    BY <1>1 DEF NotFound, Go, Release, TypeInv, TypeOK
  <2>4. "create" \in Steps /\ budget' \in 0 .. MaxRequests
    BY DEF Steps, TypeInv, TypeOK
  <2> HIDE DEF j
  <2>q. QED  BY <2>1, <2>2, <2>3, <2>4, NoJobType, StepType
<1>2. CASE ~ (job[c].op = "put" /\ job[c].match = None)
  BY <1>2, FinishType DEF NotFound
<1>q. QED  BY <1>1, <1>2

\* Falling back from a creation to an update keeps the types.
LEMMA OccupiedType ==
  ASSUME TypeInv, NEW c \in Clients, Occupied(c), UNCHANGED <<db, clock, budget>>
  PROVE  TypeInv'
<1>0. clock' \in Nat
  BY DEF TypeInv, TypeOK
<1>1. CASE job[c].op = "putCreate"
  <2> DEFINE j == [job[c] EXCEPT !.op = "update"]
  <2>1. j \in Jobs /\ job[c] \in Jobs
    BY DEF TypeInv, TypeOK, Jobs, Ops
  <2>2. CarriesAt("get", j, NoTx)
    <3>1. job[c].want \in Docs
      BY <1>1 DEF TypeInv, Carries, CarriesAt, Writers
    <3>q. QED
      BY <1>1, <2>1, <3>1, NoJobType DEF CarriesAt, StepsOf, Writers, Jobs
  <2>3. /\ pc' = [pc EXCEPT ![c] = "get"] /\ job' = [job EXCEPT ![c] = j]
        /\ tx' = [tx EXCEPT ![c] = NoTx] /\ lock' \in Clients \cup {None}
    BY <1>1 DEF Occupied, Go, Release, TypeInv, TypeOK
  <2>4. "get" \in Steps /\ budget' \in 0 .. MaxRequests
    BY DEF Steps, TypeInv, TypeOK
  <2> HIDE DEF j
  <2>q. QED  BY <1>0, <2>1, <2>2, <2>3, <2>4, NoJobType, StepType
<1>2. CASE job[c].op # "putCreate"
  BY <1>0, <1>2, FinishType DEF Occupied
<1>q. QED  BY <1>1, <1>2

\* settleUpdate's stamping keeps the types.
LEMMA SettleType ==
  ASSUME TypeInv, NEW c \in Clients, NEW want \in Docs, NEW match \in Docs \cup {None},
         Settle(c, want, match), job[c].op \in {"put", "update", "publish"},
         tx[c].row = None, UNCHANGED <<db, budget>>
  PROVE  TypeInv'
<1> DEFINE fresh == ~ SameContent(want, obj.doc)
           j == [job[c] EXCEPT !.want = want, !.match = match, !.fresh = fresh,
                               !.stamp = IF fresh THEN AppNow ELSE obj.cca]
<1>1. AppNow \in Nat /\ obj.cca \in Nat /\ clock' \in Nat
  BY ConstantsAssumption DEF TypeInv, TypeOK, AppNow, Settle, Rows
<1>2. fresh \in BOOLEAN
  BY DEF SameContent
<1> HIDE DEF fresh
<1>3. j \in Jobs /\ job[c] \in Jobs
  BY <1>1, <1>2 DEF TypeInv, TypeOK, Jobs
<1>4. CarriesAt("update", j, tx[c])
  BY <1>3 DEF CarriesAt, StepsOf, Writers, Jobs
<1>5. job' = [job EXCEPT ![c] = j]
  BY DEF Settle, fresh, TypeInv, TypeOK
<1>6. "update" \in Steps
  BY DEF Steps
<1> HIDE DEF j
<1>q. QED  BY <1>1, <1>3, <1>4, <1>5, <1>6, JobStepType DEF Settle

\* The MCP guards keep the types.
LEMMA GuardType ==
  ASSUME TypeInv, NEW c \in Clients, Guard(c) \/ GuardTombstone(c)
  PROVE  TypeInv'
<1>0. clock' \in Nat /\ job[c] \in Jobs /\ Carries(c) /\ UNCHANGED <<db, clock, budget>>
  BY DEF TypeInv, TypeOK, Guard, GuardTombstone
<1>1. CASE Finish(c)
  BY <1>0, <1>1, FinishType
<1>2. CASE Guard(c) /\ ~ Finish(c) /\ obj.state # "live"
  <2>1. CarriesAt("guardTombstone", job[c], tx[c]) /\ "guardTombstone" \in Steps
    BY <1>0, <1>2 DEF Guard, Carries, CarriesAt, StepsOf, Writers, Steps, Jobs, Ops
  <2>2. job' = [job EXCEPT ![c] = job[c]]
    BY <1>2 DEF Guard, TypeInv, TypeOK
  <2>q. QED  BY <1>0, <1>2, <2>1, <2>2, JobStepType DEF Guard
<1>3. CASE Guard(c) /\ ~ Finish(c) /\ obj.state = "live"
  <2> DEFINE j == [job[c] EXCEPT !.match = obj.doc]
  <2>1. j \in Jobs /\ job' = [job EXCEPT ![c] = j]
    BY <1>0, <1>3 DEF Guard, TypeInv, TypeOK, Jobs
  <2>2. CarriesAt("get", j, tx[c]) /\ "get" \in Steps
    BY <1>0, <1>3 DEF Guard, Carries, CarriesAt, StepsOf, Writers, Steps, Jobs, Ops
  <2> HIDE DEF j
  <2>q. QED  BY <1>0, <1>3, <2>1, <2>2, JobStepType DEF Guard
<1>4. CASE GuardTombstone(c) /\ ~ Finish(c)
  <2> DEFINE j == [job[c] EXCEPT !.op = "create"]
  <2>1. j \in Jobs /\ job' = [job EXCEPT ![c] = j]
    BY <1>0, <1>4 DEF GuardTombstone, TypeInv, TypeOK, Jobs, Ops
  <2>2. CarriesAt("create", j, tx[c]) /\ "create" \in Steps
    BY <1>0, <1>4 DEF GuardTombstone, Carries, CarriesAt, StepsOf, Writers, Steps, Jobs, Ops
  <2> HIDE DEF j
  <2>q. QED  BY <1>0, <1>4, <2>1, <2>2, JobStepType DEF GuardTombstone
<1>q. QED  BY <1>1, <1>2, <1>3, <1>4

\* The service's reads keep the types.
LEMMA GetType ==
  ASSUME TypeInv, NEW c \in Clients, Get(c) \/ GetToPublish(c)
  PROVE  TypeInv'
<1>0. /\ UNCHANGED <<db, budget>> /\ job[c] \in Jobs /\ clock \in Nat
      /\ Carries(c) /\ obj \in Rows /\ (obj.state # "absent" => obj.doc \in Docs)
  BY DEF Get, GetToPublish, TypeInv, TypeOK
<1>1. CASE NotFound(c) /\ UNCHANGED clock
  BY <1>0, <1>1, NotFoundType
<1>2. CASE Finish(c) /\ UNCHANGED clock
  BY <1>0, <1>2, FinishType
<1>9. tx[c].row = None
  BY <1>0 DEF Get, GetToPublish, Carries, CarriesAt
<1>3. CASE /\ pc[c] = "get" /\ job[c].op # "publish"
           /\ job[c].match \in {None, obj.doc}
           /\ Settle(c, job[c].want, job[c].match)
  <2>1. job[c].op \in {"put", "update"} /\ job[c].want \in Docs
    BY <1>0, <1>3 DEF Carries, CarriesAt, StepsOf, Writers, Jobs, Ops
  <2>2. job[c].match \in Docs \cup {None}
    BY <1>0 DEF Jobs
  <2>q. QED  BY <1>0, <1>3, <1>9, <2>1, <2>2, SettleType
<1>4. CASE /\ job[c].op = "publish" /\ obj.state = "live"
           /\ Settle(c, [obj.doc EXCEPT !.status = "stable"], obj.doc)
  <2>1. obj.doc \in Docs
    BY <1>0, <1>4
  <2>2. [obj.doc EXCEPT !.status = "stable"] \in Docs
    BY <2>1 DEF Docs, Statuses
  <2>q. QED  BY <1>0, <1>4, <1>9, <2>1, <2>2, SettleType
<1>5. CASE /\ pc[c] = "get" /\ job[c].op = "publish"
           /\ Go(c, "verify") /\ job' = [job EXCEPT ![c].op = "verify"]
           /\ UNCHANGED <<tx, lock, clock>>
  <2> DEFINE j == [job[c] EXCEPT !.op = "verify"]
  <2>1. j \in Jobs /\ job' = [job EXCEPT ![c] = j]
    BY <1>0, <1>5 DEF TypeInv, TypeOK, Jobs, Ops
  <2>2. CarriesAt("verify", j, tx[c]) /\ "verify" \in Steps
    BY <1>0, <1>5 DEF Carries, CarriesAt, StepsOf, Writers, Steps, Jobs, Ops
  <2> HIDE DEF j
  <2>q. QED  BY <1>0, <1>5, <2>1, <2>2, JobStepType
<1>q. QED  BY <1>1, <1>2, <1>3, <1>4, <1>5 DEF Get, GetToPublish

\* The stamp a write carries is a number.
LEMMA NextChangedAtType ==
  ASSUME NEW row \in Rows, NEW stamp \in Nat, NEW fresh, NEW newest \in Nat
  PROVE  NextChangedAt(row, stamp, fresh, newest) \in Nat
<1>1. row.cca \in Nat /\ newest + 1 \in Nat
  BY DEF Rows
<1>2. Max({stamp, newest + 1}) \in Nat
  BY <1>1, MaxOfTwo
<1>q. QED  BY <1>1, <1>2 DEF NextChangedAt, ChangedAfterVerified

\* Store.Update keeps the types.
LEMMA UpdateType ==
  ASSUME TypeInv, NEW c \in Clients, UpdateBegin(c) \/ UpdateRow(c)
  PROVE  TypeInv'
<1>0. /\ UNCHANGED <<db, budget, clock>> /\ job[c] \in Jobs /\ tx[c] \in Txs
      /\ clock' \in Nat /\ lock \in Clients \cup {None} /\ Carries(c) /\ obj \in Rows
      /\ vers \in SUBSET Verifications /\ Bounded(vers)
  BY DEF UpdateBegin, UpdateRow, TypeInv, TypeOK
<1>1. CASE UpdateBegin(c) /\ Updatable(obj, job[c].match)
  <2> DEFINE t == [tx[c] EXCEPT !.newest = Newest(vers)]
  <2>1. t \in Txs /\ t.row = tx[c].row /\ t.doc = tx[c].doc
    BY <1>0, NewestType DEF Txs
  <2>2. tx' = [tx EXCEPT ![c] = t]
    BY <1>1 DEF UpdateBegin, TypeInv, TypeOK
  <2> HIDE DEF t
  <2>3. CarriesAt("updateRow", job[c], t) /\ "updateRow" \in Steps
    BY <1>0, <1>1, <2>1 DEF UpdateBegin, Carries, CarriesAt, StepsOf, Writers, Steps, Jobs, Ops
  <2>q. QED  BY <1>0, <1>1, <2>1, <2>2, <2>3, TxStepType DEF UpdateBegin
<1>2. CASE UpdateRow(c) /\ Updatable(obj, job[c].match)
  <2> DEFINE cca == NextChangedAt(obj, job[c].stamp, job[c].fresh, tx[c].newest)
             row == [state |-> "live", doc |-> job[c].want, cca |-> cca]
             t == [tx[c] EXCEPT !.row = row]
  <2>1. cca \in Nat
    BY <1>0, NextChangedAtType DEF Jobs, Txs
  <2>2. Hold(c, row) /\ Go(c, "revise") /\ UNCHANGED job /\ pc[c] = "updateRow"
    BY <1>2 DEF UpdateRow
  <2> HIDE DEF cca
  <2>3. job[c].want \in Docs
    BY <1>0, <2>2 DEF Carries, CarriesAt, StepsOf, Writers, Jobs, Ops
  <2>4. row \in Rows /\ row.state = "live" /\ row.doc = job[c].want
    BY <2>1, <2>3 DEF Rows
  <2> HIDE DEF row
  <2>5. t \in Txs /\ t.row = row /\ t.doc = tx[c].doc
    BY <1>0, <2>4 DEF Txs
  <2>6. tx' = [tx EXCEPT ![c] = t] /\ lock' \in Clients \cup {None}
    BY <2>2 DEF Hold, TypeInv, TypeOK
  <2> HIDE DEF t
  <2>7. CarriesAt("revise", job[c], t) /\ "revise" \in Steps
    BY <1>0, <2>2, <2>4, <2>5
       DEF Carries, CarriesAt, StepsOf, Writers, Steps, Jobs, Ops
  <2>q. QED  BY <1>0, <2>2, <2>5, <2>6, <2>7, TxStepType
<1>3. CASE (UpdateBegin(c) \/ UpdateRow(c)) /\ ~ Updatable(obj, job[c].match)
  BY <1>0, <1>3, NotFoundType DEF UpdateBegin, UpdateRow
<1>q. QED  BY <1>1, <1>2, <1>3

\* Store.Create keeps the types.
LEMMA CreateType ==
  ASSUME TypeInv, NEW c \in Clients, CreateBegin(c) \/ CreateRow(c) \/ ClearVerifications(c)
  PROVE  TypeInv'
<1>0. /\ UNCHANGED <<db, budget>> /\ job[c] \in Jobs /\ tx[c] \in Txs
      /\ clock' \in Nat /\ lock \in Clients \cup {None} /\ Carries(c)
      /\ budget \in 0 .. MaxRequests /\ vers \in SUBSET Verifications
  BY DEF CreateBegin, CreateRow, ClearVerifications, TypeInv, TypeOK
<1>1. CASE CreateBegin(c)
  <2> DEFINE j == [job[c] EXCEPT !.stamp = AppNow]
             t == [tx[c] EXCEPT !.ruled = vers # {}]
  <2>1. t \in Txs /\ t.row = tx[c].row /\ t.doc = tx[c].doc
    BY <1>0 DEF Txs
  <2>2. AppNow \in Nat
    BY ConstantsAssumption DEF AppNow, TypeInv, TypeOK
  <2>3. j \in Jobs /\ j.op = job[c].op /\ j.want = job[c].want /\ j.match = job[c].match
    BY <1>0, <2>2 DEF Jobs
  <2>4. tx' = [tx EXCEPT ![c] = t] /\ job' = [job EXCEPT ![c] = j]
    BY <1>1 DEF CreateBegin, TypeInv, TypeOK
  <2> HIDE DEF t, j
  <2>5. CarriesAt("createRow", j, t) /\ "createRow" \in Steps
    BY <1>0, <1>1, <2>1, <2>3
       DEF CreateBegin, Carries, CarriesAt, StepsOf, Writers, Steps, Jobs, Ops
  <2>q. QED  BY <1>0, <1>1, <2>1, <2>3, <2>4, <2>5, StepType DEF CreateBegin, Go
<1>2. CASE CreateRow(c) /\ Creatable(obj, job[c].agent, tx[c].ruled)
  <2> DEFINE row == [state |-> "live", doc |-> job[c].want, cca |-> job[c].stamp]
             t == [tx[c] EXCEPT !.row = row]
  <2>2. Hold(c, row) /\ Go(c, "clear") /\ UNCHANGED job /\ pc[c] = "createRow"
    BY <1>2 DEF CreateRow
  <2>3. job[c].want \in Docs /\ job[c].stamp \in Nat
    BY <1>0, <2>2 DEF Carries, CarriesAt, StepsOf, Writers, Jobs, Ops
  <2>4. row \in Rows /\ row.state = "live" /\ row.doc = job[c].want
    BY <2>3 DEF Rows
  <2> HIDE DEF row
  <2>5. t \in Txs /\ t.row = row /\ t.doc = tx[c].doc
    BY <1>0, <2>4 DEF Txs
  <2>6. tx' = [tx EXCEPT ![c] = t] /\ lock' \in Clients \cup {None}
    BY <2>2 DEF Hold, TypeInv, TypeOK
  <2> HIDE DEF t
  <2>7. CarriesAt("clear", job[c], t) /\ "clear" \in Steps
    BY <1>0, <2>2, <2>4, <2>5
       DEF Carries, CarriesAt, StepsOf, Writers, Steps, Jobs, Ops
  <2>q. QED  BY <1>0, <2>2, <2>5, <2>6, <2>7, TxStepType
<1>3. CASE CreateRow(c) /\ ~ Creatable(obj, job[c].agent, tx[c].ruled)
  BY <1>0, <1>3, OccupiedType DEF CreateRow
<1>4. CASE ClearVerifications(c)
  <2> DEFINE t == [tx[c] EXCEPT !.erased = vers]
  <2>1. t \in Txs /\ t.row = tx[c].row /\ t.doc = tx[c].doc
    BY <1>0 DEF Txs
  <2>2. tx' = [tx EXCEPT ![c] = t]
    BY <1>4 DEF ClearVerifications, TypeInv, TypeOK
  <2> HIDE DEF t
  <2>3. CarriesAt("revise", job[c], t) /\ "revise" \in Steps
    BY <1>0, <1>4, <2>1
       DEF ClearVerifications, Carries, CarriesAt, StepsOf, Writers, Steps, Jobs, Ops
  <2>q. QED  BY <1>0, <1>4, <2>1, <2>2, <2>3, TxStepType DEF ClearVerifications
<1>q. QED  BY <1>1, <1>2, <1>3, <1>4

\* Store.Verify's statements keep the types.
LEMMA VerifyType ==
  ASSUME TypeInv, NEW c \in Clients, VerifyInsert(c) \/ Reread(c)
  PROVE  TypeInv'
<1>0. /\ UNCHANGED <<db, budget>> /\ job[c] \in Jobs /\ tx[c] \in Txs
      /\ clock' \in Nat /\ lock \in Clients \cup {None} /\ Carries(c)
      /\ obj \in Rows /\ (obj.state = "live" => obj.doc \in Docs)
      /\ vers \in SUBSET Verifications /\ Bounded(vers) /\ failed \in Nat
  BY DEF VerifyInsert, Reread, TypeInv, TypeOK
<1>1. CASE Finish(c)
  BY <1>0, <1>1, FinishType
<1>2. CASE VerifyInsert(c) /\ ~ Finish(c)
  <2>1. PICK offset \in DbOffsets :
          tx' = [tx EXCEPT ![c].seq = NextSeq(vers),
                           ![c].at = VerifiedAt(DbNow(offset), obj, Newest(vers), failed)]
    BY <1>2 DEF VerifyInsert
  <2> DEFINE at == VerifiedAt(DbNow(offset), obj, Newest(vers), failed)
             t == [tx[c] EXCEPT !.seq = NextSeq(vers), !.at = at]
  <2>2. at \in Nat
    <3>1. /\ DbNow(offset) \in Nat /\ obj.cca \in Nat
          /\ Newest(vers) + 1 \in Nat /\ failed + 1 \in Nat
      <4>1. DbNow(offset) \in Nat
        BY ConstantsAssumption DEF DbNow, TypeInv, TypeOK
      <4>2. obj.cca \in Nat
        BY <1>0 DEF Rows
      <4>3. Newest(vers) \in Nat
        BY <1>0, NewestType
      <4>q. QED  BY <1>0, <4>1, <4>2, <4>3
    <3>q. QED  BY <3>1, MaxOfFour DEF VerifiedAt
  <2>3. NextSeq(vers) \in Nat
    BY <1>0, NextSeqType
  <2>4. tx' = [tx EXCEPT ![c] = t]
    BY <2>1 DEF TypeInv, TypeOK
  <2> HIDE DEF at
  <2>5. t \in Txs /\ t.row = tx[c].row
    BY <1>0, <2>2, <2>3 DEF Txs
  <2> HIDE DEF t
  <2>6. Go(c, "reread") /\ UNCHANGED <<job, lock>> /\ pc[c] = "verify"
    BY <1>2 DEF VerifyInsert
  <2>7. CarriesAt("reread", job[c], t) /\ "reread" \in Steps
    BY <1>0, <2>5, <2>6 DEF Carries, CarriesAt, StepsOf, Writers, Steps, Jobs, Ops
  <2>q. QED  BY <1>0, <2>4, <2>5, <2>6, <2>7, TxStepType
<1>3. CASE Reread(c) /\ ~ Finish(c)
  <2> DEFINE t == [tx[c] EXCEPT !.doc = obj.doc]
  <2>1. t \in Txs /\ t.row = tx[c].row /\ t.doc \in Docs
    BY <1>0, <1>3 DEF Reread, Txs
  <2>2. /\ tx' = [tx EXCEPT ![c] = t] /\ Go(c, "revise") /\ UNCHANGED job
        /\ pc[c] = "reread" /\ lock' \in Clients \cup {None}
    BY <1>0, <1>3 DEF Reread, Hold, TypeInv, TypeOK
  <2> HIDE DEF t
  <2>3. CarriesAt("revise", job[c], t) /\ "revise" \in Steps
    BY <1>0, <2>1, <2>2 DEF Carries, CarriesAt, StepsOf, Writers, Steps, Jobs, Ops
  <2>q. QED  BY <1>0, <2>1, <2>2, <2>3, TxStepType
<1>q. QED  BY <1>1, <1>2, <1>3

\* SoftDelete keeps the types.
LEMMA DeleteType ==
  ASSUME TypeInv, NEW c \in Clients, DeleteRead(c) \/ DeleteRow(c)
  PROVE  TypeInv'
<1>0. /\ UNCHANGED <<db, budget>> /\ job[c] \in Jobs /\ tx[c] \in Txs
      /\ clock' \in Nat /\ lock \in Clients \cup {None} /\ Carries(c)
      /\ obj \in Rows /\ (obj.state = "live" => obj.doc \in Docs) /\ UNCHANGED clock
  BY DEF DeleteRead, DeleteRow, TypeInv, TypeOK
<1>1. CASE Finish(c)
  BY <1>0, <1>1, FinishType
<1>2. CASE DeleteRead(c) /\ ~ Finish(c)
  <2> DEFINE t == [tx[c] EXCEPT !.doc = obj.doc]
  <2>1. t \in Txs /\ t.row = tx[c].row /\ t.doc \in Docs
    BY <1>0, <1>2 DEF DeleteRead, Txs
  <2>2. /\ tx' = [tx EXCEPT ![c] = t] /\ Go(c, "deleteRow") /\ UNCHANGED job
        /\ pc[c] = "delete" /\ lock' \in Clients \cup {None}
    BY <1>0, <1>2 DEF DeleteRead, Hold, TypeInv, TypeOK
  <2> HIDE DEF t
  <2>3. CarriesAt("deleteRow", job[c], t) /\ "deleteRow" \in Steps
    BY <1>0, <2>1, <2>2 DEF Carries, CarriesAt, StepsOf, Writers, Steps, Jobs, Ops
  <2>q. QED  BY <1>0, <2>1, <2>2, <2>3, TxStepType
<1>3. CASE DeleteRow(c) /\ ~ Finish(c)
  <2> DEFINE row == [obj EXCEPT !.state = "deleted"]
             t == [tx[c] EXCEPT !.row = row]
  <2>1. row \in Rows /\ row.state = "deleted" /\ row.doc \in Docs
    BY <1>0, <1>3 DEF DeleteRow, Updatable, Rows
  <2>2. /\ Hold(c, row) /\ Go(c, "revise") /\ UNCHANGED job
        /\ pc[c] = "deleteRow" /\ lock' \in Clients \cup {None}
    BY <1>3 DEF DeleteRow, Hold
  <2> HIDE DEF row
  <2>3. t \in Txs /\ t.row = row /\ t.doc = tx[c].doc
    BY <1>0, <2>1 DEF Txs
  <2>4. tx' = [tx EXCEPT ![c] = t]
    BY <2>2 DEF Hold, TypeInv, TypeOK
  <2> HIDE DEF t
  <2>5. CarriesAt("revise", job[c], t) /\ "revise" \in Steps
    BY <1>0, <2>1, <2>2, <2>3 DEF Carries, CarriesAt, StepsOf, Writers, Steps, Jobs, Ops
  <2>q. QED  BY <1>0, <2>2, <2>3, <2>4, <2>5, TxStepType
<1>q. QED  BY <1>1, <1>2, <1>3

\* Purge's statements keep the types.
LEMMA PurgeType ==
  ASSUME TypeInv, NEW c \in Clients, PurgeLock(c) \/ PurgeErase(c)
  PROVE  TypeInv'
<1>0. /\ UNCHANGED <<db, budget>> /\ job[c] \in Jobs /\ tx[c] \in Txs
      /\ clock' \in Nat /\ lock \in Clients \cup {None} /\ Carries(c)
      /\ revs \in Seq(Revisions) /\ vers \in SUBSET Verifications /\ UNCHANGED clock
  BY DEF PurgeLock, PurgeErase, TypeInv, TypeOK
<1>1. CASE Finish(c)
  BY <1>0, <1>1, FinishType
<1>2. CASE PurgeLock(c) /\ ~ Finish(c)
  <2> DEFINE t == [tx[c] EXCEPT !.row = None]
  <2>1. t \in Txs /\ t.row = None /\ t.doc = tx[c].doc
    BY <1>0, <1>2 DEF PurgeLock, Txs
  <2>2. /\ tx' = [tx EXCEPT ![c] = t] /\ Go(c, "erase") /\ UNCHANGED job
        /\ pc[c] = "purge" /\ lock' \in Clients \cup {None}
    BY <1>0, <1>2 DEF PurgeLock, Hold, TypeInv, TypeOK
  <2> HIDE DEF t
  <2>3. CarriesAt("erase", job[c], t) /\ "erase" \in Steps
    BY <1>0, <2>1, <2>2 DEF Carries, CarriesAt, StepsOf, Writers, Steps, Jobs, Ops
  <2>q. QED  BY <1>0, <2>1, <2>2, <2>3, TxStepType
<1>3. CASE PurgeErase(c) /\ ~ Finish(c)
  <2> DEFINE t == [tx[c] EXCEPT !.row = Absent, !.erased = vers, !.cut = Len(revs)]
  <2>1. t \in Txs /\ t.row = Absent /\ t.doc = tx[c].doc
    BY <1>0, <1>3, NoJobType, LenProperties DEF PurgeErase, Txs
  <2>2. /\ tx' = [tx EXCEPT ![c] = t] /\ Go(c, "commit") /\ UNCHANGED job
        /\ pc[c] = "erase" /\ lock' \in Clients \cup {None}
    BY <1>0, <1>3 DEF PurgeErase, Hold, TypeInv, TypeOK
  <2> HIDE DEF t
  <2>3. CarriesAt("commit", job[c], t) /\ "commit" \in Steps
    BY <1>0, <2>1, <2>2 DEF Carries, CarriesAt, StepsOf, Writers, Steps, Jobs, Ops
  <2>q. QED  BY <1>0, <2>1, <2>2, <2>3, TxStepType
<1>q. QED  BY <1>1, <1>2, <1>3

\* Writing the revision keeps the types.
LEMMA ReviseType ==
  ASSUME TypeInv, NEW c \in Clients, Revise(c)
  PROVE  TypeInv'
<1>0. /\ UNCHANGED <<db, budget, lock, tx>> /\ job[c] \in Jobs /\ tx[c] \in Txs
      /\ clock' \in Nat /\ Carries(c) /\ pc[c] = "revise" /\ Go(c, "commit")
  BY DEF Revise, TypeInv, TypeOK
<1>1. CarriesAt("commit", job[c], tx[c]) /\ "commit" \in Steps
  BY <1>0 DEF Carries, CarriesAt, StepsOf, Writers, Steps, Jobs, Ops
<1>2. job' = [job EXCEPT ![c] = job[c]]
  BY DEF Revise, TypeInv, TypeOK
<1>q. QED  BY <1>0, <1>1, <1>2, JobStepType

\* A rollback keeps the types.
LEMMA AbortType ==
  ASSUME TypeInv, NEW c \in Clients, Abort(c)
  PROVE  TypeInv'
<1>1. clock' \in Nat
  BY DEF Abort, TypeInv, TypeOK
<1>q. QED  BY <1>1, FinishType DEF Abort

\* A failure report keeps the types.
LEMMA ReportType ==
  ASSUME TypeInv, ReportFailed
  PROVE  TypeInv'
<1>1. PICK offset \in DbOffsets : failed' = Max({DbNow(offset), Newest(vers) + 1})
  BY DEF ReportFailed
<1>2. DbNow(offset) \in Nat /\ Newest(vers) + 1 \in Nat /\ clock' \in Nat
  BY NewestType, ConstantsAssumption DEF DbNow, TypeInv, TypeOK, ReportFailed
<1>3. failed' \in Nat
  BY <1>1, <1>2, MaxOfTwo
<1>4. budget' \in 0 .. MaxRequests
  BY ConstantsAssumption DEF TypeInv, TypeOK, ReportFailed
<1>5. \A d \in Clients : Carries(d)'
  BY DEF TypeInv, Carries, ReportFailed
<1>q. QED  BY <1>2, <1>3, <1>4, <1>5 DEF TypeInv, TypeOK, ReportFailed

-----------------------------------------------------------------------------
(* What a commit publishes.                                                 *)

\* The row a commit publishes, when it publishes one, is the kind its request
\* promises.
LEMMA CommittedRow ==
  ASSUME TypeInv, NEW c \in Clients, pc[c] = "commit"
  PROVE  /\ job[c].op \in Writers \cup {"delete", "purge", "verify"}
         /\ job[c].op \in Writers =>
              /\ tx[c].row \in Rows /\ tx[c].row.state = "live"
              /\ tx[c].row.doc = job[c].want /\ tx[c].row.doc \in Docs
         /\ job[c].op = "delete" =>
              /\ tx[c].row \in Rows /\ tx[c].row.state = "deleted"
              /\ tx[c].row.doc \in Docs /\ tx[c].doc \in Docs
         /\ job[c].op = "purge" => tx[c].row = Absent
         /\ job[c].op = "verify" => tx[c].row = None /\ tx[c].doc \in Docs
         /\ tx[c].row \in Rows => tx[c].row # None
<1>1. CarriesAt("commit", job[c], tx[c]) /\ job[c] \in Jobs
  BY DEF TypeInv, TypeOK, Carries
<1>2. \A r \in Rows : r # None
  BY ConstantsAssumption
<1>q. QED  BY <1>1, <1>2 DEF CarriesAt, StepsOf, Writers, Jobs, Ops

\* The revision a commit appends is one.
LEMMA CommittedRevision ==
  ASSUME TypeInv, NEW c \in Clients, pc[c] = "commit", job[c].op # "purge"
  PROVE  /\ Revision(c) \in Revisions
         /\ Revision(c).change = Change(job[c].op)
         /\ Revision(c).doc = IF job[c].op \in {"delete", "verify"} THEN tx[c].doc
                              ELSE tx[c].row.doc
<1>1. Change(job[c].op) \in Changes
  BY CommittedRow DEF Change, Changes, Writers
<1>q. QED  BY <1>1, CommittedRow DEF Revision, Revisions, Writers

\* A commit keeps the types.
LEMMA CommitType ==
  ASSUME TypeInv, NEW c \in Clients, Commit(c)
  PROVE  TypeInv'
<1> USE DEF Commit
<1>0. /\ job[c] \in Jobs /\ tx[c] \in Txs /\ Carries(c) /\ pc[c] = "commit"
      /\ UNCHANGED <<clock, budget>> /\ vers \in SUBSET Verifications
  BY DEF TypeInv, TypeOK
<1>1. obj' \in Rows /\ (obj'.state # "absent" => obj'.doc \in Docs)
  <2>1. obj \in Rows /\ (obj.state # "absent" => obj.doc \in Docs) /\ Absent \in Rows
    BY NoJobType DEF TypeInv, TypeOK
  <2>2. CASE tx[c].row = None
    BY <2>1, <2>2
  <2>3. CASE tx[c].row # None
    <3>1. obj' = tx[c].row
      BY <2>3
    <3>q. QED  BY <1>0, <2>1, <2>3, <3>1, CommittedRow DEF Absent
  <2>q. QED  BY <2>2, <2>3
<1>2. revs' \in Seq(Revisions) /\ failed' \in Nat
  <2>1. revs \in Seq(Revisions) /\ failed \in Nat
    BY DEF TypeInv, TypeOK
  <2>2. CASE job[c].op = "purge"
    <3>1. tx[c].cut + 1 \in Int /\ Len(revs) \in Nat /\ tx[c].cut + 1 >= 1
      BY <1>0, <2>1, LenProperties DEF Txs
    <3>2. \A i \in tx[c].cut + 1 .. Len(revs) : revs[i] \in Revisions
      BY <2>1, <3>1
    <3>3. SubSeq(revs, tx[c].cut + 1, Len(revs)) \in Seq(Revisions)
      BY <2>1, <3>1, <3>2, SubSeqProperties
    <3>4. revs' = SubSeq(revs, tx[c].cut + 1, Len(revs)) /\ failed' = 0
      BY <2>2
    <3>q. QED  BY <3>3, <3>4, Zenon
  <2>3. CASE job[c].op # "purge"
    BY <1>0, <2>1, <2>3, CommittedRevision, AppendProperties
  <2>q. QED  BY <2>2, <2>3
<1>3. vers' \in SUBSET Verifications /\ Bounded(vers')
  <2> DEFINE v == [seq |-> tx[c].seq, at |-> tx[c].at, doc |-> tx[c].doc]
             new == IF job[c].op = "verify" THEN {v} ELSE {}
  <2>1. job[c].op = "verify" => v \in Verifications
    BY <1>0, CommittedRow DEF Txs, Verifications
  <2>2. new \in SUBSET Verifications
    BY <2>1
  <2>3. new = {} \/ \E w \in Verifications : new = {w}
    BY <2>1
  <2>4. Bounded(vers)
    BY DEF TypeInv
  <2>5. vers' = (vers \ tx[c].erased) \cup new
    OBVIOUS
  <2> HIDE DEF new
  <2>6. Bounded((vers \ tx[c].erased) \cup new)
    BY <1>0, <2>2, <2>3, <2>4, BoundedStep
  <2>q. QED  BY <1>0, <2>2, <2>5, <2>6
<1>4. PICK at \in {"idle", "verify"}, j \in Jobs :
        /\ pc' = [pc EXCEPT ![c] = at] /\ job' = [job EXCEPT ![c] = j]
        /\ CarriesAt(at, j, NoTx)
  <2>1. CarriesAt("idle", NoJob, NoTx)
    BY NoJobType DEF CarriesAt, StepsOf, Writers
  <2> DEFINE j == [NoJob EXCEPT !.op = "verify"]
  <2>2. j \in Jobs /\ CarriesAt("verify", j, NoTx)
    BY NoJobType DEF NoJob, Jobs, Ops, CarriesAt, StepsOf, Writers
  <2> HIDE DEF j
  <2>3. CASE job[c].op = "publish"
    BY <2>2, <2>3 DEF Go, j
  <2>4. CASE job[c].op # "publish"
    BY <2>1, <2>4, NoJobType DEF Go
  <2>q. QED  BY <2>3, <2>4
<1>5. pc' \in [Clients -> Steps] /\ job' \in [Clients -> Jobs]
  BY <1>4 DEF TypeInv, TypeOK, Steps
<1>6. tx' \in [Clients -> Txs] /\ lock' \in Clients \cup {None}
  BY NoJobType DEF TypeInv, TypeOK, Release
<1>7. ASSUME NEW d \in Clients PROVE Carries(d)'
  <2>1. CASE d = c
    BY <1>4, <2>1 DEF TypeInv, TypeOK, Carries
  <2>2. CASE d # c
    <3>1. pc'[d] = pc[d] /\ job'[d] = job[d] /\ tx'[d] = tx[d]
      BY <1>4, <2>2 DEF TypeInv, TypeOK
    <3>q. QED  BY <3>1 DEF TypeInv, Carries
  <2>q. QED  BY <2>1, <2>2
<1>q. QED  BY <1>0, <1>1, <1>2, <1>3, <1>5, <1>6, <1>7 DEF TypeInv, TypeOK

\* The store starts well typed.
LEMMA InitType ==
  ASSUME Init
  PROVE  TypeInv
<1>1. obj \in Rows /\ (obj.state # "absent" => obj.doc \in Docs) /\ revs \in Seq(Revisions)
  <2>1. CASE obj = Absent /\ revs = <<>>
    BY <2>1, NoJobType DEF Absent
  <2>2. ASSUME NEW d \in Payloads,
               obj = [state |-> "live", doc |-> d, cca |-> AppOffset],
               revs = <<[change |-> "create", doc |-> d]>>
        PROVE  obj \in Rows /\ (obj.state # "absent" => obj.doc \in Docs) /\ revs \in Seq(Revisions)
    BY <2>2, ConstantsAssumption DEF Rows, Revisions, Changes
  <2>q. QED  BY <2>1, <2>2 DEF Init
<1>2. Bounded(vers)
  BY DEF Init, Bounded
<1>3. \A c \in Clients : Carries(c)
  BY NoJobType DEF Init, Carries, CarriesAt, StepsOf, Writers
<1>q. QED
  BY <1>1, <1>2, <1>3, NoJobType, ConstantsAssumption DEF Init, TypeInv, TypeOK, Steps

\* Every step keeps the types.
LEMMA NextType ==
  ASSUME TypeInv, [Next]_vars
  PROVE  TypeInv'
<1>1. ASSUME NEW c \in Clients, Request(c)  PROVE TypeInv'
  BY <1>1, RequestType
<1>2. ASSUME NEW c \in Clients, Step(c)  PROVE TypeInv'
  BY <1>2, GuardType, GetType, UpdateType, CreateType, VerifyType, DeleteType, PurgeType,
     ReviseType, CommitType DEF Step
<1>3. ASSUME NEW c \in Clients, Abort(c)  PROVE TypeInv'
  BY <1>3, AbortType
<1>4. CASE ReportFailed
  BY <1>4, ReportType
<1>5. CASE UNCHANGED vars
  BY <1>5 DEF vars, db, TypeInv, TypeOK, Carries
<1>q. QED  BY <1>1, <1>2, <1>3, <1>4, <1>5 DEF Next

\* Type correctness, for every number of clients, requests and documents: no
\* interleaving of the handlers stores a row without a document or stamps it
\* with anything but a number.
THEOREM TypeCorrect == Spec => []TypeOK
<1>1. Init => TypeInv
  BY InitType
<1>2. TypeInv /\ [Next]_vars => TypeInv'
  BY NextType
<1>3. TypeInv => TypeOK
  BY DEF TypeInv
<1>q. QED  BY <1>1, <1>2, <1>3, PTL DEF Spec

-----------------------------------------------------------------------------
(* Locking: who may replace the row, and what it knows of it.               *)

\* A step of one request that publishes nothing keeps what the others know.
LEMMA QuietStep ==
  ASSUME LedgerInv, NEW c \in Clients, UNCHANGED <<obj, revs>>,
         \A d \in Clients \ {c} : pc'[d] = pc[d] /\ job'[d] = job[d] /\ tx'[d] = tx[d],
         \A d \in Clients \ {c} : lock' = d <=> lock = d,
         Holds(c)' <=> lock' = c, Holds(c)' => Knows(c)'
  PROVE  Locking' /\ LedgerAgrees'
<1>1. LedgerAgrees'
  BY DEF LedgerInv, LedgerAgrees, IsLastWrite, IsWrite
<1>2. ASSUME NEW d \in Clients
      PROVE  (Holds(d)' <=> lock' = d) /\ (Holds(d)' => Knows(d)')
  <2>1. CASE d = c
    BY <2>1
  <2>2. CASE d # c
    <3>1. Holds(d)' = Holds(d) /\ Knows(d)' = Knows(d)
      BY <2>2 DEF Holds, Knows
    <3>q. QED  BY <2>2, <3>1 DEF LedgerInv, Locking
  <2>q. QED  BY <2>1, <2>2
<1>q. QED  BY <1>1, <1>2 DEF Locking

\* A step from one lock-free place to another.
LEMMA LockFreeStep ==
  ASSUME LedgerInv, NEW c \in Clients, UNCHANGED <<obj, revs, lock>>,
         \A d \in Clients \ {c} : pc'[d] = pc[d] /\ job'[d] = job[d] /\ tx'[d] = tx[d],
         ~ Holds(c), ~ Holds(c)'
  PROVE  Locking' /\ LedgerAgrees'
BY QuietStep DEF LedgerInv, Locking

\* A step that gives the lock up, if it held it, and goes on without it.
LEMMA ReleaseStep ==
  ASSUME LedgerInv, NEW c \in Clients, UNCHANGED <<obj, revs>>, Release(c),
         \A d \in Clients \ {c} : pc'[d] = pc[d] /\ job'[d] = job[d] /\ tx'[d] = tx[d],
         ~ Holds(c)'
  PROVE  Locking' /\ LedgerAgrees'
<1>1. lock' # c /\ \A d \in Clients \ {c} : lock' = d <=> lock = d
  BY ConstantsAssumption DEF Release
<1>q. QED  BY <1>1, QuietStep

\* Answering, and Put's fallbacks, hold no lock.
LEMMA AnswerLocking ==
  ASSUME LedgerInv, NEW c \in Clients, UNCHANGED db, Finish(c) \/ NotFound(c) \/ Occupied(c)
  PROVE  Locking' /\ LedgerAgrees'
<1>1. pc \in [Clients -> Steps] /\ job \in [Clients -> Jobs] /\ tx \in [Clients -> Txs]
  BY DEF LedgerInv, TypeInv, TypeOK
<1>2. /\ \A d \in Clients \ {c} : pc'[d] = pc[d] /\ job'[d] = job[d] /\ tx'[d] = tx[d]
      /\ pc'[c] \in {"idle", "create", "get"} /\ Release(c)
  BY <1>1 DEF Finish, NotFound, Occupied, Go
<1>3. ~ Holds(c)'
  BY <1>2 DEF Holds
<1>q. QED  BY <1>2, <1>3, ReleaseStep DEF db

\* A statement that takes the row's lock takes it from nobody, and knows what
\* it has just checked of the row.
LEMMA AcquireStep ==
  ASSUME LedgerInv, NEW c \in Clients, NEW row, Hold(c, row), UNCHANGED <<db, job>>,
         NEW at \in {"clear", "revise", "erase"}, Go(c, at), job[c].op # "verify", Knows(c)'
  PROVE  Locking' /\ LedgerAgrees'
<1>1. pc \in [Clients -> Steps] /\ tx \in [Clients -> Txs]
  BY DEF LedgerInv, TypeInv, TypeOK
<1>2. \A d \in Clients \ {c} : pc'[d] = pc[d] /\ job'[d] = job[d] /\ tx'[d] = tx[d]
  BY <1>1 DEF Hold, Go
<1>3. lock' = c /\ lock = None /\ None \notin Clients
  BY ConstantsAssumption DEF Hold
<1>4. pc'[c] = at /\ job'[c] = job[c]
  BY <1>1 DEF Go
<1>5. Holds(c)'
  BY <1>4 DEF Holds
<1>q. QED  BY <1>2, <1>3, <1>5, QuietStep DEF db

\* Everything a request does before it touches the row.
LEMMA EarlyLocking ==
  ASSUME LedgerInv, NEW c \in Clients,
         \/ Request(c) \/ Guard(c) \/ GuardTombstone(c) \/ Get(c) \/ GetToPublish(c)
         \/ UpdateBegin(c) \/ CreateBegin(c) \/ VerifyInsert(c) \/ Reread(c)
         \/ DeleteRead(c)
  PROVE  Locking' /\ LedgerAgrees'
<1>1. /\ pc \in [Clients -> Steps] /\ job \in [Clients -> Jobs] /\ tx \in [Clients -> Txs]
      /\ Carries(c)
  BY DEF LedgerInv, TypeInv, TypeOK
<1>2. UNCHANGED db
  BY DEF Request, RequestPut, RequestCreate, RequestAgentPut, RequestVerify, RequestDelete,
     RequestPurge, Admit, Guard, GuardTombstone, Get, GetToPublish, UpdateBegin, CreateBegin,
     VerifyInsert, Reread, DeleteRead
<1>3. CASE Finish(c) \/ NotFound(c)
  BY <1>2, <1>3, AnswerLocking
<1>4. CASE ~ (Finish(c) \/ NotFound(c))
  <2>1. ~ Holds(c)
    BY DEF Request, RequestPut, RequestCreate, RequestAgentPut, RequestVerify, RequestDelete,
       RequestPurge, Admit, Guard, GuardTombstone, Get, GetToPublish, UpdateBegin,
       CreateBegin, VerifyInsert, Reread, DeleteRead, Holds
  <2>2. /\ UNCHANGED lock
        /\ \A d \in Clients \ {c} : pc'[d] = pc[d] /\ job'[d] = job[d] /\ tx'[d] = tx[d]
    BY <1>1, <1>4 DEF Request, RequestPut, RequestCreate, RequestAgentPut, RequestVerify,
       RequestDelete, RequestPurge, Admit, Guard, GuardTombstone, Get, GetToPublish, Settle,
       UpdateBegin, CreateBegin, VerifyInsert, Reread, DeleteRead, Go
  <2>3. CASE ~ Reread(c)
    <3>1. pc'[c] \in {"get", "create", "guard", "delete", "purge", "guardTombstone",
                      "update", "verify", "updateRow", "createRow", "reread", "deleteRow"}
      BY <1>1, <1>4, <2>3 DEF Request, RequestPut, RequestCreate, RequestAgentPut,
         RequestVerify, RequestDelete, RequestPurge, Admit, Guard, GuardTombstone, Get,
         GetToPublish, Settle, UpdateBegin, CreateBegin, VerifyInsert, DeleteRead, Go
    <3>q. QED  BY <1>2, <2>1, <2>2, <3>1, LockFreeStep DEF Holds, db
  <2>4. CASE Reread(c)
    <3>1. pc[c] = "reread" /\ pc'[c] = "revise" /\ job'[c] = job[c]
      BY <1>1, <1>4, <2>4 DEF Reread, Go
    <3>2. job[c].op = "verify"
      BY <1>1, <3>1 DEF Carries, CarriesAt, StepsOf, Jobs, Ops
    <3>q. QED  BY <1>2, <2>1, <2>2, <3>1, <3>2, LockFreeStep DEF Holds, db
  <2>q. QED  BY <2>3, <2>4
<1>q. QED  BY <1>3, <1>4

\* The statements that take the lock.
LEMMA AcquireLocking ==
  ASSUME LedgerInv, NEW c \in Clients,
         UpdateRow(c) \/ CreateRow(c) \/ DeleteRow(c) \/ PurgeLock(c)
  PROVE  Locking' /\ LedgerAgrees'
<1>1. /\ pc \in [Clients -> Steps] /\ job \in [Clients -> Jobs] /\ tx \in [Clients -> Txs]
      /\ CarriesAt(pc[c], job[c], tx[c]) /\ job[c] \in Jobs
  BY DEF LedgerInv, TypeInv, TypeOK, Carries
<1>2. UNCHANGED db
  BY DEF UpdateRow, CreateRow, DeleteRow, PurgeLock
<1>3. CASE Finish(c) \/ NotFound(c) \/ Occupied(c)
  BY <1>2, <1>3, AnswerLocking
<1>4. CASE UpdateRow(c) /\ Updatable(obj, job[c].match)
  <2>1. pc'[c] = "revise" /\ job' = job /\ pc[c] = "updateRow"
    BY <1>1, <1>4 DEF UpdateRow, Go
  <2>2. job[c].op \in {"put", "update", "publish"}
    BY <1>1, <2>1 DEF CarriesAt, StepsOf, Jobs, Ops
  <2>3. Knows(c)'
    BY <1>2, <1>4, <2>1, <2>2 DEF Knows, Updatable, db
  <2>q. QED  BY <1>2, <1>4, <2>2, <2>3, AcquireStep DEF UpdateRow
<1>5. CASE CreateRow(c) /\ Creatable(obj, job[c].agent, tx[c].ruled)
  <2>1. pc'[c] = "clear" /\ job' = job /\ pc[c] = "createRow"
    BY <1>1, <1>5 DEF CreateRow, Go
  <2>2. job[c].op \in {"create", "putCreate"}
    BY <1>1, <2>1 DEF CarriesAt, StepsOf, Jobs, Ops
  <2>3. Knows(c)'
    BY <1>2, <1>5, <2>1, <2>2 DEF Knows, Creatable, db
  <2>q. QED  BY <1>2, <1>5, <2>2, <2>3, AcquireStep DEF CreateRow
<1>6. CASE DeleteRow(c) /\ Updatable(obj, job[c].match)
  <2>1. pc'[c] = "revise" /\ job' = job /\ pc[c] = "deleteRow"
    BY <1>1, <1>6 DEF DeleteRow, Go
  <2>2. job[c].op = "delete"
    BY <1>1, <2>1 DEF CarriesAt, StepsOf, Jobs, Ops
  <2>3. tx'[c].row.doc = obj.doc
    <3>1. tx' = [tx EXCEPT ![c].row = [obj EXCEPT !.state = "deleted"]] /\ obj \in Rows
      BY <1>6 DEF DeleteRow, Hold, LedgerInv, TypeInv, TypeOK
    <3>q. QED  BY <1>1, <3>1 DEF Rows, Txs
  <2>4. Knows(c)'
    BY <1>2, <1>6, <2>1, <2>2, <2>3 DEF Knows, Updatable, db
  <2>q. QED  BY <1>2, <1>6, <2>2, <2>4, AcquireStep DEF DeleteRow
<1>7. CASE PurgeLock(c) /\ Purgeable(obj)
  <2>1. pc'[c] = "erase" /\ job' = job /\ pc[c] = "purge"
    BY <1>1, <1>7 DEF PurgeLock, Go
  <2>2. job[c].op = "purge"
    BY <1>1, <2>1 DEF CarriesAt, StepsOf, Jobs, Ops
  <2>3. Knows(c)'
    BY <1>2, <1>7, <2>1, <2>2 DEF Knows, Purgeable, db
  <2>q. QED  BY <1>2, <1>7, <2>2, <2>3, AcquireStep DEF PurgeLock
<1>q. QED  BY <1>3, <1>4, <1>5, <1>6, <1>7 DEF UpdateRow, CreateRow, DeleteRow, PurgeLock

\* The statements that run under the lock, and a verification's revision,
\* which runs without it.
LEMMA HolderLocking ==
  ASSUME LedgerInv, NEW c \in Clients, ClearVerifications(c) \/ PurgeErase(c) \/ Revise(c)
  PROVE  Locking' /\ LedgerAgrees'
<1>1. /\ pc \in [Clients -> Steps] /\ job \in [Clients -> Jobs] /\ tx \in [Clients -> Txs]
      /\ CarriesAt(pc[c], job[c], tx[c]) /\ job[c] \in Jobs /\ tx[c] \in Txs
      /\ revs \in Seq(Revisions)
  BY DEF LedgerInv, TypeInv, TypeOK, Carries
<1>2. UNCHANGED db
  BY DEF ClearVerifications, PurgeErase, Revise
<1>3. CASE Finish(c)
  BY <1>2, <1>3, AnswerLocking
<1>4. CASE ~ Finish(c)
  <2>1. /\ UNCHANGED <<lock, job>>
        /\ \A d \in Clients \ {c} : pc'[d] = pc[d] /\ job'[d] = job[d] /\ tx'[d] = tx[d]
        /\ pc[c] \in {"clear", "erase", "revise"}
        /\ pc'[c] = IF pc[c] = "clear" THEN "revise" ELSE "commit"
    BY <1>1, <1>4 DEF ClearVerifications, PurgeErase, Revise, Go
  <2>2. pc[c] \in {"clear", "erase"} => job[c].op \in {"create", "putCreate", "purge"}
    BY <1>1 DEF CarriesAt, StepsOf, Jobs, Ops
  <2>3. Holds(c)' <=> Holds(c)
    BY <2>1, <2>2 DEF Holds
  <2>4. ASSUME Holds(c)  PROVE Knows(c)'
    <3>1. Knows(c)
      BY <2>4 DEF LedgerInv, Locking
    <3>2. ASSUME job[c].op # "purge"  PROVE Knows(c)'
      <4>1. job[c].op = "delete" => tx'[c].row = tx[c].row
        <5>1. job[c].op = "delete" => Revise(c)
          BY <1>1 DEF ClearVerifications, PurgeErase, CarriesAt, StepsOf
        <5>q. QED  BY <5>1 DEF Revise
      <4>q. QED  BY <1>2, <2>1, <3>1, <3>2, <4>1 DEF Knows, db
    <3>3. ASSUME job[c].op = "purge"  PROVE Knows(c)'
      <4>1. PurgeErase(c)
        BY <1>1, <3>3 DEF ClearVerifications, Revise, CarriesAt, StepsOf
      <4>2. tx'[c].cut = Len(revs) /\ Len(revs) \in Nat
        BY <1>1, <1>4, <4>1, LenProperties DEF PurgeErase, Txs
      <4>q. QED  BY <1>2, <2>1, <3>1, <3>3, <4>2 DEF Knows, db
    <3>q. QED  BY <3>2, <3>3
  <2>q. QED  BY <1>2, <2>1, <2>3, <2>4, QuietStep DEF db, LedgerInv, Locking
<1>q. QED  BY <1>3, <1>4

-----------------------------------------------------------------------------
(* Commits.                                                                 *)

\* What a transaction other than Verify publishes, its lock protected.
LEMMA CommitExcludes ==
  ASSUME LedgerInv, NEW c \in Clients, pc[c] = "commit", job[c].op # "verify"
  PROVE  lock = c /\ Knows(c) /\ \A d \in Clients \ {c} : ~ Holds(d)
BY DEF LedgerInv, Locking, Holds

\* A commit leaves everybody knowing what they knew.
LEMMA CommitLocking ==
  ASSUME LedgerInv, NEW c \in Clients, Commit(c)
  PROVE  Locking'
<1>1. /\ pc \in [Clients -> Steps] /\ job \in [Clients -> Jobs] /\ tx \in [Clients -> Txs]
      /\ revs \in Seq(Revisions) /\ TypeInv
  BY DEF LedgerInv, TypeInv, TypeOK
<1>2. /\ \A d \in Clients \ {c} : pc'[d] = pc[d] /\ job'[d] = job[d] /\ tx'[d] = tx[d]
      /\ pc'[c] \in {"idle", "verify"} /\ pc[c] = "commit" /\ Release(c)
  BY <1>1 DEF Commit, Go
<1>3. ~ Holds(c)' /\ lock' # c
  BY <1>2, ConstantsAssumption DEF Holds, Release
<1>4. ASSUME NEW d \in Clients \ {c}
      PROVE  (Holds(d)' <=> lock' = d) /\ (Holds(d)' => Knows(d)')
  <2>1. (Holds(d)' <=> Holds(d)) /\ (lock' = d <=> lock = d)
    BY <1>2, ConstantsAssumption DEF Holds, Release
  <2>2. ASSUME Holds(d)  PROVE Knows(d)'
    <3>1. Knows(d) /\ job[c].op = "verify"
      BY <1>2, <2>2, CommitExcludes DEF LedgerInv, Locking
    <3>2. tx[c].row = None /\ Revision(c) \in Revisions /\ Revision(c).change = "verify"
      BY <1>1, <1>2, <3>1, CommittedRow, CommittedRevision DEF Change
    <3>3. obj' = obj /\ revs' = Append(revs, Revision(c))
      BY <3>1, <3>2 DEF Commit
    <3>4. /\ Len(revs) \in Nat /\ Len(revs') = Len(revs) + 1
          /\ \A i \in 1 .. Len(revs) : revs'[i] = revs[i]
          /\ revs'[Len(revs) + 1] = Revision(c)
      BY <1>1, <3>2, <3>3, LenProperties, AppendProperties
    <3>5. job'[d] = job[d] /\ tx'[d] = tx[d] /\ pc'[d] = pc[d] /\ tx[d].cut \in Nat
      BY <1>1, <1>2 DEF Txs
    <3>6. \A i \in 1 .. Len(revs') : i \in 1 .. Len(revs) \/ i = Len(revs) + 1
      BY <3>4
    <3>q. QED  BY <3>1, <3>2, <3>3, <3>4, <3>5, <3>6 DEF Knows
  <2>q. QED  BY <2>1, <2>2 DEF LedgerInv, Locking
<1>q. QED  BY <1>3, <1>4 DEF Locking

\* The history a commit leaves agrees with the row it leaves.
LEMMA CommitAgrees ==
  ASSUME LedgerInv, NEW c \in Clients, Commit(c)
  PROVE  LedgerAgrees'
<1>1. pc[c] = "commit" /\ TypeInv /\ revs \in Seq(Revisions) /\ tx[c] \in Txs
  BY DEF Commit, LedgerInv, TypeInv, TypeOK
<1>2. CASE job[c].op = "purge"
  <2>1. obj' = Absent
    BY <1>1, <1>2, NoJobType, CommittedRow DEF Commit, Writers
  <2>2. /\ tx[c].cut <= Len(revs)
        /\ \A i \in 1 .. Len(revs) : i > tx[c].cut => revs[i].change = "verify"
    BY <1>1, <1>2, CommitExcludes DEF Knows
  <2> DEFINE m == tx[c].cut + 1
  <2>3. m \in Int /\ m >= 1 /\ Len(revs) \in Int
    BY <1>1, LenProperties DEF Txs
  <2>4. revs' = SubSeq(revs, m, Len(revs))
    BY <1>2 DEF Commit
  <2>5. \A i \in m .. Len(revs) : revs[i] \in Revisions /\ revs[i].change = "verify"
    <3>1. \A i \in m .. Len(revs) : i \in 1 .. Len(revs) /\ i > tx[c].cut
      BY <1>1, <2>3 DEF Txs
    <3>q. QED  BY <1>1, <2>2, <3>1, LenProperties
  <2> HIDE DEF m
  <2>6. /\ Len(revs') = IF m <= Len(revs) THEN Len(revs) - m + 1 ELSE 0
        /\ \A i \in 1 .. Len(revs) - m + 1 : revs'[i] = revs[m + i - 1]
    BY <2>3, <2>4, <2>5, SubSeqProperties
  <2>7. \A i \in 1 .. Len(revs') : revs'[i].change = "verify"
    <3>1. TAKE i \in 1 .. Len(revs')
    <3>2. i \in 1 .. Len(revs) - m + 1 /\ m + i - 1 \in m .. Len(revs)
      BY <2>3, <2>6
    <3>q. QED  BY <2>5, <2>6, <3>2
  <2>q. QED  BY <2>1, <2>7 DEF LedgerAgrees, IsLastWrite, IsWrite, Absent
<1>3. CASE job[c].op # "purge"
  <2> DEFINE r == Revision(c)
  <2>0. PICK n \in Nat : n = Len(revs)
    BY <1>1, LenProperties
  <2>1. /\ r \in Revisions /\ r.change = Change(job[c].op)
        /\ r.doc = IF job[c].op \in {"delete", "verify"} THEN tx[c].doc ELSE tx[c].row.doc
    BY <1>1, <1>3, CommittedRevision
  <2> HIDE DEF r
  <2>2. revs' = Append(revs, r)
    BY <1>3 DEF Commit, r
  <2>3. /\ n \in Nat /\ Len(revs') = n + 1 /\ revs'[n + 1] = r
        /\ \A i \in 1 .. n : revs'[i] = revs[i]
    BY <1>1, <2>0, <2>1, <2>2, LenProperties, AppendProperties
  <2>4. 1 .. Len(revs') = 1 .. n \cup {n + 1}
    BY <2>3
  <2>5. CASE job[c].op = "verify"
    <3>1. obj' = obj /\ r.change = "verify"
      BY <1>1, <2>1, <2>5, CommittedRow DEF Commit, Change
    <3>2. \A i \in 1 .. n : IsLastWrite(i)' => IsLastWrite(i)
      BY <2>0, <2>3, <2>4 DEF IsLastWrite, IsWrite
    <3>3. ~ IsLastWrite(n + 1)'
      BY <2>3, <3>1 DEF IsLastWrite, IsWrite
    <3>4. (\A i \in 1 .. Len(revs') : ~ IsWrite(revs'[i]))
            <=> (\A i \in 1 .. n : ~ IsWrite(revs[i]))
      BY <2>3, <2>4, <3>1 DEF IsWrite
    <3>5. LedgerAgrees
      BY DEF LedgerInv
    <3>6. obj'.state = "absent" <=> \A i \in 1 .. Len(revs') : ~ IsWrite(revs'[i])
      BY <2>0, <3>1, <3>4, <3>5 DEF LedgerAgrees
    <3>7. ASSUME NEW i \in 1 .. Len(revs'), IsLastWrite(i)'
          PROVE  IF revs'[i].change = "delete" THEN obj'.state = "deleted"
                 ELSE obj'.state = "live" /\ obj'.doc = revs'[i].doc
      <4>1. i \in 1 .. n /\ IsLastWrite(i)
        BY <2>4, <3>2, <3>3, <3>7
      <4>q. QED  BY <2>0, <2>3, <3>1, <3>5, <4>1 DEF LedgerAgrees
    <3>q. QED  BY <3>6, <3>7 DEF LedgerAgrees
  <2>6. CASE job[c].op # "verify"
    <3>1. /\ tx[c].row # None /\ obj' = tx[c].row
          /\ r.change \in {"create", "update", "delete"}
          /\ IF r.change = "delete" THEN obj'.state = "deleted"
             ELSE obj'.state = "live" /\ obj'.doc = r.doc
      <4>1. tx[c].row # None /\ obj' = tx[c].row
        BY <1>1, <1>3, <2>6, CommittedRow DEF Commit, Writers
      <4>2. CASE job[c].op = "delete"
        BY <1>1, <2>1, <4>1, <4>2, CommittedRow DEF Change
      <4>3. CASE job[c].op \in Writers
        BY <1>1, <2>1, <4>1, <4>3, CommittedRow DEF Change, Writers
      <4>q. QED  BY <1>1, <1>3, <2>6, <4>2, <4>3, CommittedRow, <4>1
    <3>2. \A i \in 1 .. Len(revs') : IsLastWrite(i)' => i = n + 1
      BY <2>3, <2>4, <3>1 DEF IsLastWrite, IsWrite
    <3>3. IsWrite(revs'[n + 1]) /\ n + 1 \in 1 .. Len(revs') /\ obj'.state # "absent"
      BY <2>3, <3>1 DEF IsWrite
    <3>q. QED  BY <2>3, <3>1, <3>2, <3>3 DEF LedgerAgrees
  <2>q. QED  BY <2>5, <2>6
<1>q. QED  BY <1>2, <1>3

-----------------------------------------------------------------------------
(* The theorems.                                                            *)

\* Nobody holds the lock at the start, and the history says what is there.
LEMMA InitLedger ==
  ASSUME Init
  PROVE  LedgerInv
<1>1. Locking
  BY ConstantsAssumption DEF Init, Locking, Holds
<1>2. LedgerAgrees
  BY DEF Init, LedgerAgrees, IsLastWrite, IsWrite, Absent
<1>q. QED  BY <1>1, <1>2, InitType DEF LedgerInv

\* Every step keeps the strengthened invariant.
LEMMA NextLedger ==
  ASSUME LedgerInv, [Next]_vars
  PROVE  LedgerInv'
<1>1. TypeInv'
  BY NextType DEF LedgerInv
<1>2. ASSUME NEW c \in Clients, Request(c) \/ Step(c)  PROVE Locking' /\ LedgerAgrees'
  BY <1>2, EarlyLocking, AcquireLocking, HolderLocking, CommitLocking, CommitAgrees DEF Step
<1>3. ASSUME NEW c \in Clients, Abort(c)  PROVE Locking' /\ LedgerAgrees'
  BY <1>3, AnswerLocking DEF Abort
<1>4. CASE ReportFailed
  <2>1. UNCHANGED <<obj, revs, lock, pc, job, tx>>
    BY <1>4 DEF ReportFailed
  <2>q. QED
    BY <1>1, <2>1 DEF LedgerInv, Locking, LedgerAgrees, Holds, Knows, IsLastWrite
<1>5. CASE UNCHANGED vars
  BY <1>1, <1>5 DEF vars, db, LedgerInv, Locking, LedgerAgrees, Holds, Knows, IsLastWrite
<1>q. QED  BY <1>1, <1>2, <1>3, <1>4, <1>5 DEF Next, LedgerInv

\* The strengthened invariant holds of every behaviour.
LEMMA LedgerInvariant == Spec => []LedgerInv
<1>1. Init => LedgerInv
  BY InitLedger
<1>2. LedgerInv /\ [Next]_vars => LedgerInv'
  BY NextLedger
<1>q. QED  BY <1>1, <1>2, PTL DEF Spec

\* The history says what the entry is, whatever deletes, revives, edits,
\* verifies and purges it at once: the newest write recorded is a deletion
\* exactly when the row is a tombstone, and otherwise holds the row's document.
THEOREM HistoryAgrees == Spec => []LedgerAgrees
<1>1. LedgerInv => LedgerAgrees
  BY DEF LedgerInv
<1>q. QED  BY <1>1, LedgerInvariant, PTL

\* The row and its history change only when a transaction commits.
LEMMA OnlyCommitsPublish ==
  ASSUME [Next]_vars, obj' # obj \/ revs' # revs
  PROVE  \E c \in Clients : Commit(c)
BY DEF Next, Request, RequestPut, RequestCreate, RequestAgentPut, RequestVerify,
     RequestDelete, RequestPurge, Admit, Step, Guard, GuardTombstone, Get, GetToPublish,
     UpdateBegin, UpdateRow, CreateBegin, CreateRow, ClearVerifications, VerifyInsert,
     Reread, DeleteRead, DeleteRow, PurgeLock, PurgeErase, Revise, Abort, ReportFailed,
     vars, db

\* The row changes only when its lock's holder commits.
LEMMA RowChange ==
  ASSUME LedgerInv, [Next]_vars, obj' # obj
  PROVE  \E c \in Clients : Commit(c) /\ lock = c /\ Knows(c)
<1>1. PICK c \in Clients : Commit(c)
  BY OnlyCommitsPublish
<1>2. pc[c] = "commit" /\ TypeInv
  BY <1>1 DEF Commit, LedgerInv
<1>3. job[c].op # "verify"
  BY <1>1, <1>2, CommittedRow DEF Commit
<1>q. QED  BY <1>1, <1>2, <1>3, CommitExcludes

\* A write that names a version replaces that version and no other, for every
\* number of writers: If-Match is checked on the row the lock holds still.
THEOREM NoUpdateLost == Spec => NoLostUpdate
<1> DEFINE A == \A c \in Clients :
              lock = c /\ obj' # obj /\ job[c].match # None =>
                obj.state = "live" /\ obj.doc = job[c].match
<1>1. LedgerInv /\ [Next]_vars => [A]_vars
  <2>1. SUFFICES ASSUME LedgerInv, [Next]_vars, NEW c \in Clients,
                        lock = c, obj' # obj, job[c].match # None
                 PROVE  obj.state = "live" /\ obj.doc = job[c].match
    OBVIOUS
  <2>2. Commit(c) /\ Knows(c)
    BY <2>1, RowChange
  <2>3. job[c].op \in {"put", "update", "publish", "delete"}
    <3>1. CarriesAt("commit", job[c], tx[c]) /\ job[c] \in Jobs
      BY <2>1, <2>2 DEF Commit, LedgerInv, TypeInv, TypeOK, Carries
    <3>2. job[c].op # "verify"
      BY <2>1, <2>2, CommittedRow DEF Commit, LedgerInv
    <3>3. job[c].op # "purge"
      BY <2>1, <3>1 DEF CarriesAt
    <3>q. QED  BY <2>1, <3>1, <3>2, <3>3 DEF CarriesAt, StepsOf, Jobs, Ops
  <2>q. QED  BY <2>1, <2>2, <2>3 DEF Knows
<1>q. QED  BY <1>1, LedgerInvariant, PTL DEF Spec, NoLostUpdate

\* Destruction takes two steps, whoever revives the address meanwhile: only a
\* tombstone disappears, and its history only with it.
THEOREM PurgeTakesTombstones == Spec => PurgeTakesOnlyTombstones
<1> DEFINE A == /\ obj.state # "absent" /\ obj'.state = "absent" => obj.state = "deleted"
                /\ Len(revs') < Len(revs) => obj'.state = "absent"
<1>1. LedgerInv /\ [Next]_vars => [A]_vars
  <2>1. SUFFICES ASSUME LedgerInv, [Next]_vars  PROVE A
    OBVIOUS
  <2>2. TypeInv /\ revs \in Seq(Revisions)
    BY <2>1 DEF LedgerInv, TypeInv, TypeOK
  <2>3. ASSUME obj.state # "absent", obj'.state = "absent"  PROVE obj.state = "deleted"
    <3>1. PICK c \in Clients : Commit(c) /\ Knows(c)
      BY <2>1, <2>3, RowChange
    <3>2. pc[c] = "commit" /\ (tx[c].row # None => obj' = tx[c].row)
      BY <3>1 DEF Commit
    <3>3. job[c].op = "purge"
      BY <2>2, <2>3, <3>1, <3>2, CommittedRow DEF Commit
    <3>q. QED  BY <3>1, <3>3 DEF Knows
  <2>4. ASSUME Len(revs') < Len(revs)  PROVE obj'.state = "absent"
    <3>1. Len(revs) \in Nat /\ revs' # revs
      BY <2>2, <2>4, LenProperties
    <3>2. PICK c \in Clients : Commit(c)
      BY <2>1, <3>1, OnlyCommitsPublish
    <3>3. pc[c] = "commit"
      BY <3>2 DEF Commit
    <3>4. CASE job[c].op = "purge"
      <4>1. obj' = Absent
        BY <2>2, <3>2, <3>3, <3>4, CommittedRow, NoJobType DEF Commit
      <4>q. QED  BY <4>1 DEF Absent
    <3>5. CASE job[c].op # "purge"
      <4>1. Len(revs') = Len(revs) + 1
        BY <2>2, <3>2, <3>3, <3>5, CommittedRevision, AppendProperties DEF Commit
      <4>q. QED  BY <2>4, <3>1, <4>1
    <3>q. QED  BY <3>4, <3>5
  <2>q. QED  BY <2>3, <2>4
<1>q. QED  BY <1>1, LedgerInvariant, PTL DEF Spec, PurgeTakesOnlyTombstones

\* Every commit is one act on the record: an entry is created where none is
\* live, edited or deleted where one is, verified as it stands, or purged as a
\* tombstone with every line that records a write.
LEMMA CommitActs ==
  ASSUME LedgerInv, NEW c \in Clients, Commit(c)
  PROVE  Record!Next
<1>1. /\ pc[c] = "commit" /\ TypeInv /\ revs \in Seq(Revisions) /\ tx[c] \in Txs
      /\ job[c].op \in Writers \cup {"delete", "purge", "verify"}
  BY CommittedRow DEF Commit, LedgerInv, TypeInv, TypeOK
<1>2. job[c].op # "verify" => Knows(c) /\ tx[c].row # None /\ obj' = tx[c].row
  BY <1>1, CommittedRow, CommitExcludes, NoJobType DEF Commit, Writers
<1>3. job[c].op # "purge" =>
        /\ revs' = Append(revs, Revision(c))
        /\ Revision(c) = [change |-> Change(job[c].op),
                          doc |-> IF job[c].op \in {"delete", "verify"} THEN tx[c].doc
                                  ELSE tx[c].row.doc]
  BY DEF Commit, Revision
<1>4. CASE job[c].op \in {"create", "putCreate"}
  <2> DEFINE d == tx[c].row.doc
  <2>1. d \in Docs /\ obj.state # "live" /\ obj'.state = "live" /\ obj'.doc = d
    BY <1>1, <1>2, <1>4, CommittedRow DEF Knows, Writers
  <2>2. revs' = Append(revs, [change |-> "create", doc |-> d])
    BY <1>3, <1>4 DEF Change
  <2>q. QED  BY <2>1, <2>2 DEF Record!Next, Record!Create, Record!Done
<1>5. CASE job[c].op \in {"put", "update", "publish"}
  <2> DEFINE d == tx[c].row.doc
  <2>1. d \in Docs /\ obj.state = "live" /\ obj'.state = "live" /\ obj'.doc = d
    BY <1>1, <1>2, <1>5, CommittedRow DEF Knows, Writers
  <2>2. revs' = Append(revs, [change |-> "update", doc |-> d])
    BY <1>3, <1>5 DEF Change
  <2>q. QED  BY <2>1, <2>2 DEF Record!Next, Record!Update, Record!Done
<1>6. CASE job[c].op = "delete"
  <2> DEFINE d == tx[c].doc
  <2>1. /\ d \in Docs /\ obj.state = "live"
        /\ obj'.state = "deleted" /\ obj'.doc = obj.doc
    BY <1>1, <1>2, <1>6, CommittedRow DEF Knows
  <2>2. revs' = Append(revs, [change |-> "delete", doc |-> d])
    BY <1>3, <1>6 DEF Change
  <2>q. QED  BY <2>1, <2>2 DEF Record!Next, Record!Delete, Record!Done
<1>7. CASE job[c].op = "verify"
  <2> DEFINE d == tx[c].doc
  <2>1. d \in Docs /\ obj' = obj
    BY <1>1, <1>7, CommittedRow DEF Commit
  <2>2. revs' = Append(revs, [change |-> "verify", doc |-> d])
    BY <1>3, <1>7 DEF Change
  <2>q. QED  BY <2>1, <2>2 DEF Record!Next, Record!Verify, Record!Done
<1>8. CASE job[c].op = "purge"
  <2> DEFINE n == tx[c].cut
  <2>1. obj.state = "deleted" /\ obj'.state = "absent" /\ obj'.doc = None
    BY <1>1, <1>2, <1>8, CommittedRow DEF Knows, Absent
  <2>2. n \in Nat /\ Len(revs) \in Nat /\ n <= Len(revs)
    BY <1>1, <1>2, <1>8, LenProperties DEF Knows, Txs
  <2>3. \A i \in 1 .. Len(revs) : i > n => revs[i].change = "verify"
    BY <1>1, <1>2, <1>8 DEF Knows
  <2>4. revs' = SubSeq(revs, n + 1, Len(revs))
    BY <1>8 DEF Commit
  <2> HIDE DEF n
  <2>5. n \in 0 .. Len(revs) /\ \A i \in n + 1 .. Len(revs) : revs[i].change = "verify"
    BY <2>2, <2>3
  <2>q. QED  BY <2>1, <2>4, <2>5 DEF Record!Next, Record!Purge
<1>q. QED  BY <1>1, <1>4, <1>5, <1>6, <1>7, <1>8 DEF Writers

\* The ledger implements the record of one address, for any number of clients:
\* however their statements interleave, wait, fall back or roll back, what is
\* committed is one whole act at a time, each with its line in the history.
THEOREM LedgerImplementsRecord == Spec => ImplementsRecord
<1>1. Init => Record!Init
  <2>1. SUFFICES ASSUME Init  PROVE Record!Init
    OBVIOUS
  <2>2. CASE obj = Absent /\ revs = <<>>
    BY <2>2 DEF Record!Init, Absent
  <2>3. ASSUME NEW d \in Payloads, obj = [state |-> "live", doc |-> d, cca |-> AppOffset],
               revs = <<[change |-> "create", doc |-> d]>>
        PROVE  Record!Init
    BY <2>3, ConstantsAssumption DEF Record!Init
  <2>q. QED  BY <2>1, <2>2, <2>3 DEF Init
<1>2. LedgerInv /\ [Next]_vars => [Record!Next]_Record!record
  <2>1. SUFFICES ASSUME LedgerInv, [Next]_vars, obj' # obj \/ revs' # revs
                 PROVE  Record!Next
    BY DEF Record!record
  <2>2. PICK c \in Clients : Commit(c)
    BY <2>1, OnlyCommitsPublish
  <2>q. QED  BY <2>1, <2>2, CommitActs
<1>q. QED  BY <1>1, <1>2, LedgerInvariant, PTL DEF Spec, ImplementsRecord, Record!Spec

-----------------------------------------------------------------------------
(* Verifications apart from writes.  What a ruling vouches for, what an agent  *)
(* leaves alone and what a verification leaves behind are promised where no    *)
(* write is under way beside a verification, however writes overlap one        *)
(* another; section 12 of the README lists what the other overlaps do.         *)

\* What a request at step at knows of the row and of the verifications.  All of
\* it outlives the commits of other writes, which only take verifications away.
AwareAt(row, vs, at, j, t) ==
  /\ j.agent => /\ j.op \in {"update", "create"}
                /\ at \notin {"guard", "guardTombstone"} => vs = {}
  /\ at = "guardTombstone" => row.state # "live" \/ vs = {}
  /\ at \in {"update", "updateRow"} /\ ~ j.fresh =>
       \A v \in vs : v.at >= j.stamp => SameContent(v.doc, j.want)
  /\ at = "updateRow" => \A v \in vs : v.at <= t.newest
  /\ j.op = "publish" /\ at # "get" => j.want.status = "stable"
  /\ j.op = "verify" /\ row.state = "live" => row.doc.status # "draft"
  /\ j.op = "verify" /\ at # "verify" => row.state = "live" /\ t.at >= row.cca
  /\ j.op = "verify" /\ at \in {"revise", "commit"} => t.doc = row.doc
  /\ j.op \in Writers /\ at \in {"revise", "commit"} =>
       \A v \in Standing(t.row, vs \ t.erased) : SameContent(v.doc, t.row.doc)
  /\ j.op \in {"create", "putCreate", "purge"} /\ at \in {"revise", "commit"} =>
       vs \subseteq t.erased

Aware(c) == AwareAt(obj, vers, pc[c], job[c], tx[c])

RulingsInv ==
  /\ \A c \in Clients : Aware(c)
  /\ StandingVouchesForContent
  /\ obj.state = "absent" => vers = {}

\* What a write knows stays true when verifications go, and when the row is
\* replaced: a row that becomes live has lost its verifications.
LEMMA WriteStaysAware ==
  ASSUME NEW row, NEW vs, NEW at, NEW j, NEW t, AwareAt(row, vs, at, j, t), j.op # "verify",
         NEW now, NEW us \in SUBSET vs,
         now.state = "live" => row.state = "live" \/ us = {}
  PROVE  AwareAt(now, us, at, j, t)
<1>1. j.agent => /\ j.op \in {"update", "create"}
                 /\ at \notin {"guard", "guardTombstone"} => us = {}
  BY DEF AwareAt
<1>2. at = "guardTombstone" => now.state # "live" \/ us = {}
  BY DEF AwareAt
<1>3. /\ at \in {"update", "updateRow"} /\ ~ j.fresh =>
           \A v \in us : v.at >= j.stamp => SameContent(v.doc, j.want)
      /\ at = "updateRow" => \A v \in us : v.at <= t.newest
      /\ j.op = "publish" /\ at # "get" => j.want.status = "stable"
  BY DEF AwareAt
<1>4. j.op \in Writers /\ at \in {"revise", "commit"} =>
        \A v \in Standing(t.row, us \ t.erased) : SameContent(v.doc, t.row.doc)
  BY DEF AwareAt, Standing
<1>5. j.op \in {"create", "putCreate", "purge"} /\ at \in {"revise", "commit"} =>
        us \subseteq t.erased
  BY DEF AwareAt
<1>q. QED  BY <1>1, <1>2, <1>3, <1>4, <1>5 DEF AwareAt

\* What a verification knows is of the row alone, and stays true while the row
\* stays; so does what an idle client knows.
LEMMA VerifyStaysAware ==
  ASSUME NEW row, NEW vs, NEW at, NEW j \in Jobs, NEW t, AwareAt(row, vs, at, j, t),
         CarriesAt(at, j, t), j.op \in {"none", "verify"}, NEW us
  PROVE  AwareAt(row, us, at, j, t)
<1>1. ~ j.agent
  BY DEF AwareAt
<1>2. at \notin {"guardTombstone", "update", "updateRow"} /\ j.op \notin Writers
  BY DEF CarriesAt, StepsOf, Writers
<1>q. QED  BY <1>1, <1>2 DEF AwareAt, Writers

\* A step of one request leaves what the others carry.
LEMMA OthersKeep ==
  ASSUME TypeInv, NEW c \in Clients, Request(c) \/ Step(c) \/ Abort(c)
  PROVE  \A d \in Clients \ {c} : pc'[d] = pc[d] /\ job'[d] = job[d] /\ tx'[d] = tx[d]
<1>1. /\ pc \in [Clients -> Steps] /\ job \in [Clients -> Jobs] /\ tx \in [Clients -> Txs]
  BY DEF TypeInv, TypeOK
<1>2. CASE Request(c)
  BY <1>1, <1>2 DEF Request, RequestPut, RequestCreate, RequestAgentPut, RequestVerify,
     RequestDelete, RequestPurge, Admit, Go
<1>3. CASE Finish(c) \/ NotFound(c) \/ Occupied(c)
  BY <1>1, <1>3 DEF Finish, NotFound, Occupied, Go
<1>4. CASE Guard(c) \/ GuardTombstone(c) \/ Get(c) \/ GetToPublish(c)
  BY <1>1, <1>3, <1>4 DEF Guard, GuardTombstone, Get, GetToPublish, Settle, Go
<1>5. CASE UpdateBegin(c) \/ UpdateRow(c) \/ CreateBegin(c) \/ CreateRow(c)
             \/ ClearVerifications(c)
  BY <1>1, <1>3, <1>5 DEF UpdateBegin, UpdateRow, CreateBegin, CreateRow,
     ClearVerifications, Hold, Go
<1>6. CASE VerifyInsert(c) \/ Reread(c) \/ DeleteRead(c) \/ DeleteRow(c)
  BY <1>1, <1>3, <1>6 DEF VerifyInsert, Reread, DeleteRead, DeleteRow, Hold, Go
<1>7. CASE PurgeLock(c) \/ PurgeErase(c) \/ Revise(c) \/ Commit(c) \/ Abort(c)
  BY <1>1, <1>3, <1>7 DEF PurgeLock, PurgeErase, Revise, Commit, Abort, Hold, Go
<1>q. QED  BY <1>2, <1>4, <1>5, <1>6, <1>7 DEF Step

\* A step that publishes nothing keeps the rulings sound when whoever takes it
\* stays aware of what it may rely on.
LEMMA AwareStep ==
  ASSUME TypeInv, RulingsInv, NEW c \in Clients, UNCHANGED <<obj, vers>>,
         \A d \in Clients \ {c} : pc'[d] = pc[d] /\ job'[d] = job[d] /\ tx'[d] = tx[d],
         AwareAt(obj, vers, pc'[c], job'[c], tx'[c])
  PROVE  RulingsInv'
<1>1. Aware(c)'
  BY DEF Aware
<1>2. \A d \in Clients \ {c} : Aware(d)'
  BY DEF RulingsInv, Aware
<1>3. StandingVouchesForContent' /\ (obj'.state = "absent" => vers' = {})
  BY DEF RulingsInv, StandingVouchesForContent, Standing
<1>q. QED  BY <1>1, <1>2, <1>3 DEF RulingsInv

\* What a request and its transaction are, wherever it stands.
LEMMA RequestFacts ==
  ASSUME TypeInv, RulingsInv, NEW c \in Clients
  PROVE  /\ pc \in [Clients -> Steps] /\ job \in [Clients -> Jobs] /\ tx \in [Clients -> Txs]
         /\ job[c] \in Jobs /\ tx[c] \in Txs /\ pc[c] \in Steps
         /\ CarriesAt(pc[c], job[c], tx[c]) /\ AwareAt(obj, vers, pc[c], job[c], tx[c])
         /\ obj \in Rows /\ (obj.state # "absent" => obj.doc \in Docs)
         /\ vers \in SUBSET Verifications /\ Bounded(vers) /\ failed \in Nat
BY DEF TypeInv, TypeOK, Carries, RulingsInv, Aware

\* An answer, and Put's fallbacks, rely on nothing.
LEMMA AnswerAware ==
  ASSUME TypeInv, RulingsInv, NEW c \in Clients, Finish(c) \/ NotFound(c) \/ Occupied(c)
  PROVE  AwareAt(obj, vers, pc'[c], job'[c], tx'[c])
<1>1. CASE Finish(c)
  <2>1. pc'[c] = "idle" /\ job'[c] = NoJob
    BY <1>1, RequestFacts DEF Finish
  <2>q. QED  BY <2>1 DEF AwareAt, NoJob, Writers
<1>2. CASE ~ Finish(c)
  <2>1. ~ job[c].agent
    BY <1>2, RequestFacts DEF NotFound, Occupied, AwareAt
  <2>2. /\ pc'[c] \in {"create", "get"} /\ ~ job'[c].agent
        /\ job'[c].op \in {"putCreate", "update"}
    BY <1>2, <2>1, RequestFacts DEF NotFound, Occupied, Go, Jobs
  <2>q. QED  BY <2>2 DEF AwareAt, Writers
<1>q. QED  BY <1>1, <1>2

\* A request relies on nothing when it comes in.
LEMMA RequestAware ==
  ASSUME TypeInv, RulingsInv, NEW c \in Clients, Request(c)
  PROVE  AwareAt(obj, vers, pc'[c], job'[c], tx'[c])
<1>1. job \in [Clients -> Jobs] /\ pc \in [Clients -> Steps]
  BY RequestFacts
<1>2. CASE RequestAgentPut(c)
  <2>1. pc'[c] = "guard" /\ job'[c].op = "update"
    BY <1>1, <1>2 DEF RequestAgentPut, Admit, Go, NoJob
  <2>q. QED  BY <2>1 DEF AwareAt, Writers
<1>3. CASE ~ RequestAgentPut(c)
  <2>1. /\ pc'[c] \in {"get", "create", "delete", "purge"} /\ ~ job'[c].agent
        /\ job'[c].op # "verify" /\ (job'[c].op = "publish" => pc'[c] = "get")
    <3>1. CASE RequestPut(c)
      BY <1>1, <3>1 DEF RequestPut, Admit, Go, NoJob
    <3>2. CASE RequestCreate(c)
      BY <1>1, <3>2 DEF RequestCreate, Admit, Go, NoJob
    <3>3. CASE RequestVerify(c) \/ RequestPurge(c)
      BY <1>1, <3>3 DEF RequestVerify, RequestPurge, Admit, Go, NoJob
    <3>4. CASE RequestDelete(c)
      BY <1>1, <3>4 DEF RequestDelete, Admit, Go, NoJob
    <3>q. QED  BY <1>3, <3>1, <3>2, <3>3, <3>4 DEF Request
  <2>q. QED  BY <2>1 DEF AwareAt
<1>q. QED  BY <1>2, <1>3

\* The agent's guards let nothing pass that a ruling is on.
LEMMA GuardAware ==
  ASSUME TypeInv, RulingsInv, NEW c \in Clients, Guard(c) \/ GuardTombstone(c)
  PROVE  AwareAt(obj, vers, pc'[c], job'[c], tx'[c])
<1>1. CASE Finish(c)
  BY <1>1, AnswerAware
<1>2. CASE Guard(c) /\ ~ Finish(c)
  <2>1. job[c].op = "update"
    BY <1>2, RequestFacts DEF Guard, CarriesAt, StepsOf, Jobs, Ops
  <2>2. \/ pc'[c] = "guardTombstone" /\ obj.state # "live" /\ job'[c] = job[c]
        \/ pc'[c] = "get" /\ vers = {} /\ job'[c].op = job[c].op
    BY <1>2, RequestFacts DEF Guard, Go, Ruled, Jobs
  <2>q. QED  BY <2>1, <2>2 DEF AwareAt, Writers
<1>3. CASE GuardTombstone(c) /\ ~ Finish(c)
  <2>1. /\ obj.state # "live" \/ vers = {}
        /\ ~ (obj.state = "deleted" /\ Ruled(obj, vers))
    BY <1>3, RequestFacts DEF GuardTombstone, AwareAt
  <2>2. vers = {}
    BY <2>1, RequestFacts DEF Rows, Ruled, RulingsInv
  <2>3. pc'[c] = "create" /\ job'[c].op = "create"
    BY <1>3, RequestFacts DEF GuardTombstone, Go, Jobs
  <2>q. QED  BY <2>2, <2>3 DEF AwareAt, Writers
<1>q. QED  BY <1>1, <1>2, <1>3

\* Settling notes whether the content changes; while it does not, what stands
\* from the stored stamp on vouches for the document to be written.
LEMMA GetAware ==
  ASSUME TypeInv, RulingsInv, NEW c \in Clients, Get(c) \/ GetToPublish(c)
  PROVE  AwareAt(obj, vers, pc'[c], job'[c], tx'[c])
<1>0. pc[c] = "get"
  BY DEF Get, GetToPublish
<1>1. CASE Finish(c) \/ NotFound(c)
  BY <1>1, AnswerAware
<1>2. ASSUME NEW want, NEW match, Settle(c, want, match), obj.state = "live",
             job[c].op = "publish" => want.status = "stable"
      PROVE  AwareAt(obj, vers, pc'[c], job'[c], tx'[c])
  <2>1. /\ pc'[c] = "update" /\ job'[c].want = want /\ job'[c].op = job[c].op
        /\ job'[c].agent = job[c].agent /\ job'[c].fresh = ~ SameContent(want, obj.doc)
        /\ (~ job'[c].fresh => job'[c].stamp = obj.cca)
    BY <1>2, RequestFacts DEF Settle, Go, Jobs
  <2>3. ~ job'[c].fresh =>
          \A v \in vers : v.at >= job'[c].stamp => SameContent(v.doc, job'[c].want)
    <3>1. \A v \in vers : v.at >= obj.cca => SameContent(v.doc, obj.doc)
      BY <1>2 DEF RulingsInv, StandingVouchesForContent, Standing
    <3>q. QED  BY <2>1, <3>1 DEF SameContent
  <2>2. job[c].op # "verify" /\ (job[c].agent => job[c].op \in {"update", "create"} /\ vers = {})
    BY <1>0, RequestFacts DEF AwareAt, CarriesAt, StepsOf
  <2>q. QED  BY <1>2, <2>1, <2>2, <2>3 DEF AwareAt, Writers
<1>3. CASE Get(c) /\ ~ (Finish(c) \/ NotFound(c))
  BY <1>2, <1>3 DEF Get
<1>4. CASE GetToPublish(c) /\ ~ Finish(c) /\ obj.doc.status = "draft"
  <2>1. obj.doc \in Docs
    BY <1>4, RequestFacts DEF GetToPublish
  <2>2. [obj.doc EXCEPT !.status = "stable"].status = "stable"
    BY <2>1 DEF Docs
  <2>q. QED  BY <1>2, <1>4, <2>2 DEF GetToPublish
<1>5. CASE GetToPublish(c) /\ ~ Finish(c) /\ obj.doc.status # "draft"
  <2>1. /\ pc'[c] = "verify" /\ job'[c].op = "verify" /\ job'[c].agent = job[c].agent
        /\ job[c].op = "publish"
    BY <1>5, RequestFacts DEF GetToPublish, Go, Jobs
  <2>2. ~ job[c].agent
    BY <2>1, RequestFacts DEF AwareAt
  <2>q. QED  BY <1>5, <2>1, <2>2 DEF AwareAt, Writers
<1>q. QED  BY <1>1, <1>3, <1>4, <1>5

\* Store.Update's stamp: a write that keeps the content keeps what vouches for
\* it, and one that changes the content leaves every verification behind.
LEMMA StampVouches ==
  ASSUME NEW row, NEW vs \in SUBSET Verifications,
         NEW want, NEW stamp \in Nat, NEW fresh, NEW newest \in Nat,
         ~ fresh => \A v \in vs : v.at >= stamp => SameContent(v.doc, want),
         \A v \in vs : v.at <= newest,
         NEW written,
         written = [state |-> "live", doc |-> want,
                    cca |-> NextChangedAt(row, stamp, fresh, newest)]
  PROVE  \A v \in Standing(written, vs) : SameContent(v.doc, written.doc)
<1>1. \A v \in vs : v.at \in Nat
  BY DEF Verifications
<1>2. CASE ~ fresh /\ stamp = row.cca
  <2>1. written.cca = stamp /\ written.doc = want
    BY <1>2 DEF NextChangedAt
  <2>q. QED  BY <1>2, <2>1 DEF Standing
<1>3. CASE ~ (~ fresh /\ stamp = row.cca)
  <2> DEFINE next == Max({stamp, newest + 1})
  <2>1. written.cca = next
    BY <1>3 DEF NextChangedAt, ChangedAfterVerified
  <2>2. next \in Nat /\ newest + 1 <= next
    BY MaxOfTwo
  <2> HIDE DEF next
  <2>3. \A v \in vs : ~ (v.at >= next)
    BY <1>1, <2>2
  <2>q. QED  BY <2>1, <2>3 DEF Standing
<1>q. QED  BY <1>2, <1>3

\* An update writes a row whose verifications vouch for it.
LEMMA UpdateAware ==
  ASSUME TypeInv, RulingsInv, NEW c \in Clients, UpdateBegin(c) \/ UpdateRow(c)
  PROVE  AwareAt(obj, vers, pc'[c], job'[c], tx'[c])
<1>0. /\ pc[c] \in {"update", "updateRow"} /\ job[c].op \in {"put", "update", "publish"}
      /\ (job[c].agent => job[c].op = "update" /\ vers = {})
      /\ (~ job[c].fresh =>
            \A v \in vers : v.at >= job[c].stamp => SameContent(v.doc, job[c].want))
      /\ (job[c].op = "publish" => job[c].want.status = "stable")
  <2>1. pc[c] \in {"update", "updateRow"}
    BY DEF UpdateBegin, UpdateRow
  <2>2. job[c].op \in {"put", "update", "publish"}
    BY <2>1, RequestFacts DEF CarriesAt, StepsOf, Jobs, Ops
  <2>q. QED  BY <2>1, <2>2, RequestFacts DEF AwareAt
<1>1. CASE Finish(c) \/ NotFound(c)
  BY <1>1, AnswerAware
<1>2. CASE UpdateBegin(c) /\ ~ NotFound(c)
  <2>1. pc'[c] = "updateRow" /\ job'[c] = job[c] /\ tx'[c].newest = Newest(vers)
    BY <1>2, RequestFacts DEF UpdateBegin, Go, Txs
  <2>2. \A v \in vers : v.at <= tx'[c].newest
    BY <2>1, RequestFacts, NewestType
  <2>q. QED  BY <1>0, <2>1, <2>2, RequestFacts DEF AwareAt, Writers
<1>3. CASE UpdateRow(c) /\ ~ NotFound(c)
  <2> DEFINE written == [state |-> "live", doc |-> job[c].want,
                         cca |-> NextChangedAt(obj, job[c].stamp, job[c].fresh, tx[c].newest)]
  <2>1. pc[c] = "updateRow" /\ obj.state = "live"
    BY <1>3 DEF UpdateRow, Updatable
  <2>2. pc'[c] = "revise" /\ job'[c] = job[c] /\ tx'[c].row = written
    <3>1. pc' = [pc EXCEPT ![c] = "revise"] /\ job' = job /\ tx' = [tx EXCEPT ![c].row = written]
      BY <1>3 DEF UpdateRow, Go, Hold
    <3>q. QED  BY <3>1, RequestFacts DEF Txs
  <2>3. \A v \in vers : v.at <= tx[c].newest
    BY <2>1, RequestFacts DEF AwareAt
  <2>4. job[c].stamp \in Nat /\ tx[c].newest \in Nat
    BY RequestFacts DEF Jobs, Txs
  <2>6. \A v \in Standing(written, vers) : SameContent(v.doc, written.doc)
    <3>1. written = [state |-> "live", doc |-> job[c].want,
                     cca |-> NextChangedAt(obj, job[c].stamp, job[c].fresh, tx[c].newest)]
      BY DEF written
    <3> HIDE DEF written
    <3>q. QED  BY <1>0, <2>3, <2>4, <3>1, RequestFacts, StampVouches
  <2> HIDE DEF written
  <2>7. \A v \in Standing(tx'[c].row, vers \ tx'[c].erased) : SameContent(v.doc, tx'[c].row.doc)
    BY <2>2, <2>6 DEF Standing
  <2>8. ~ (job[c].op = "verify") /\ ~ (job[c].op = "purge")
    BY <1>0
  <2>q. QED  BY <1>0, <2>2, <2>7, <2>8 DEF AwareAt
<1>q. QED  BY <1>1, <1>2, <1>3 DEF UpdateBegin, UpdateRow

\* A new entry starts with no rulings.
LEMMA CreateAware ==
  ASSUME TypeInv, RulingsInv, NEW c \in Clients,
         CreateBegin(c) \/ CreateRow(c) \/ ClearVerifications(c)
  PROVE  AwareAt(obj, vers, pc'[c], job'[c], tx'[c])
<1>0. /\ pc[c] \in {"create", "createRow", "clear"} /\ job[c].op \in {"create", "putCreate"}
      /\ (job[c].agent => job[c].op = "create" /\ vers = {})
  <2>1. pc[c] \in {"create", "createRow", "clear"}
    BY DEF CreateBegin, CreateRow, ClearVerifications
  <2>2. job[c].op \in {"create", "putCreate"}
    BY <2>1, RequestFacts DEF CarriesAt, StepsOf, Jobs, Ops
  <2>q. QED  BY <2>1, <2>2, RequestFacts DEF AwareAt
<1>1. CASE Occupied(c)
  BY <1>1, AnswerAware
<1>2. CASE (CreateBegin(c) \/ CreateRow(c)) /\ ~ Occupied(c)
  <2>1. /\ pc'[c] \in {"createRow", "clear"}
        /\ job'[c].op = job[c].op /\ job'[c].agent = job[c].agent
    BY <1>2, RequestFacts DEF CreateBegin, CreateRow, Go, Jobs
  <2>q. QED  BY <1>0, <2>1 DEF AwareAt
<1>3. CASE ClearVerifications(c)
  <2>1. pc'[c] = "revise" /\ job'[c] = job[c] /\ tx'[c].erased = vers
    BY <1>3, RequestFacts DEF ClearVerifications, Go, Txs
  <2>2. Standing(tx'[c].row, vers \ tx'[c].erased) = {}
    BY <2>1 DEF Standing
  <2>q. QED  BY <1>0, <2>1, <2>2 DEF AwareAt
<1>q. QED  BY <1>1, <1>2, <1>3

\* A verification is stamped no earlier than the content it read.
LEMMA VerifyAware ==
  ASSUME TypeInv, RulingsInv, NEW c \in Clients, VerifyInsert(c) \/ Reread(c)
  PROVE  AwareAt(obj, vers, pc'[c], job'[c], tx'[c])
<1>0. pc[c] \in {"verify", "reread"} /\ job[c].op = "verify" /\ ~ job[c].agent
  <2>1. pc[c] \in {"verify", "reread"}
    BY DEF VerifyInsert, Reread
  <2>2. job[c].op = "verify"
    BY <2>1, RequestFacts DEF CarriesAt, StepsOf, Jobs, Ops
  <2>q. QED  BY <2>1, <2>2, RequestFacts DEF AwareAt
<1>1. CASE Finish(c)
  BY <1>1, AnswerAware
<1>2. CASE VerifyInsert(c) /\ ~ Finish(c)
  <2>1. PICK offset \in DbOffsets :
          tx' = [tx EXCEPT ![c].seq = NextSeq(vers),
                           ![c].at = VerifiedAt(DbNow(offset), obj, Newest(vers), failed)]
    BY <1>2 DEF VerifyInsert
  <2>2. VerifiedAt(DbNow(offset), obj, Newest(vers), failed) >= obj.cca
    <3>1. DbNow(offset) \in Nat
      BY ConstantsAssumption DEF DbNow, TypeInv, TypeOK
    <3>2. obj.cca \in Nat /\ Newest(vers) + 1 \in Nat /\ failed + 1 \in Nat
      BY RequestFacts, NewestType DEF Rows
    <3>3. obj.cca <= Max({DbNow(offset), obj.cca, Newest(vers) + 1, failed + 1})
      BY <3>1, <3>2, MaxOfFour
    <3>4. Max({DbNow(offset), obj.cca, Newest(vers) + 1, failed + 1}) \in Nat
      BY <3>1, <3>2, MaxOfFour
    <3>q. QED  BY <3>2, <3>3, <3>4 DEF VerifiedAt
  <2>3. pc'[c] = "reread" /\ job'[c] = job[c] /\ obj.state = "live"
    BY <1>2, RequestFacts DEF VerifyInsert, Go
  <2>4. tx'[c].at >= obj.cca
    BY <2>1, <2>2, RequestFacts DEF Txs
  <2>q. QED  BY <1>0, <2>3, <2>4, RequestFacts DEF AwareAt, Writers
<1>3. CASE Reread(c) /\ ~ Finish(c)
  <2>1. /\ pc'[c] = "revise" /\ job'[c] = job[c] /\ pc[c] = "reread"
        /\ tx'[c].doc = obj.doc /\ tx'[c].at = tx[c].at
    BY <1>3, RequestFacts DEF Reread, Go, Txs
  <2>q. QED  BY <1>0, <2>1, RequestFacts DEF AwareAt, Writers
<1>q. QED  BY <1>1, <1>2, <1>3

\* Nothing stands for a tombstone.
LEMMA DeleteAware ==
  ASSUME TypeInv, RulingsInv, NEW c \in Clients, DeleteRead(c) \/ DeleteRow(c)
  PROVE  AwareAt(obj, vers, pc'[c], job'[c], tx'[c])
<1>1. CASE Finish(c)
  BY <1>1, AnswerAware
<1>2. CASE ~ Finish(c)
  <2>1. pc[c] \in {"delete", "deleteRow"} /\ pc'[c] \in {"deleteRow", "revise"} /\ job'[c] = job[c]
    BY <1>2, RequestFacts DEF DeleteRead, DeleteRow, Go
  <2>2. job[c].op = "delete"
    BY <2>1, RequestFacts DEF CarriesAt, StepsOf, Jobs, Ops
  <2>3. ~ job[c].agent
    BY <2>2, RequestFacts DEF AwareAt
  <2>q. QED  BY <2>1, <2>2, <2>3 DEF AwareAt, Writers
<1>q. QED  BY <1>1, <1>2

\* A purge takes every verification with it.
LEMMA PurgeAware ==
  ASSUME TypeInv, RulingsInv, NEW c \in Clients, PurgeLock(c) \/ PurgeErase(c)
  PROVE  AwareAt(obj, vers, pc'[c], job'[c], tx'[c])
<1>1. CASE Finish(c)
  BY <1>1, AnswerAware
<1>2. CASE ~ Finish(c)
  <2>1. /\ pc[c] \in {"purge", "erase"} /\ pc'[c] \in {"erase", "commit"} /\ job'[c] = job[c]
        /\ (pc'[c] = "commit" => tx'[c].erased = vers)
    BY <1>2, RequestFacts DEF PurgeLock, PurgeErase, Go, Txs
  <2>2. job[c].op = "purge"
    BY <2>1, RequestFacts DEF CarriesAt, StepsOf, Jobs, Ops
  <2>3. ~ job[c].agent
    BY <2>2, RequestFacts DEF AwareAt
  <2>q. QED  BY <2>1, <2>2, <2>3 DEF AwareAt, Writers
<1>q. QED  BY <1>1, <1>2

\* Recording the revision changes nothing of what is known.
LEMMA ReviseAware ==
  ASSUME TypeInv, RulingsInv, NEW c \in Clients, Revise(c)
  PROVE  AwareAt(obj, vers, pc'[c], job'[c], tx'[c])
<1>1. pc[c] = "revise" /\ pc'[c] = "commit" /\ job'[c] = job[c] /\ tx'[c] = tx[c]
  BY RequestFacts DEF Revise, Go
<1>2. job[c].op # "purge"
  BY <1>1, RequestFacts DEF CarriesAt, StepsOf
<1>q. QED  BY <1>1, <1>2, RequestFacts DEF AwareAt

\* Nothing a request does before its commit is published.
LEMMA QuietUntilCommit ==
  ASSUME NEW c \in Clients, Request(c) \/ Step(c) \/ Abort(c), ~ Commit(c)
  PROVE  UNCHANGED <<obj, vers>>
<1>1. CASE Request(c)
  <2>1. CASE RequestPut(c)
    BY <2>1 DEF RequestPut, Admit, db
  <2>2. CASE RequestCreate(c)
    BY <2>2 DEF RequestCreate, Admit, db
  <2>3. CASE RequestAgentPut(c)
    BY <2>3 DEF RequestAgentPut, Admit, db
  <2>4. CASE RequestVerify(c) \/ RequestPurge(c)
    BY <2>4 DEF RequestVerify, RequestPurge, Admit, db
  <2>5. CASE RequestDelete(c)
    BY <2>5 DEF RequestDelete, Admit, db
  <2>q. QED  BY <1>1, <2>1, <2>2, <2>3, <2>4, <2>5 DEF Request
<1>2. CASE Guard(c) \/ GuardTombstone(c) \/ Get(c) \/ GetToPublish(c) \/ Abort(c)
  BY <1>2 DEF Guard, GuardTombstone, Get, GetToPublish, Abort, db
<1>3. CASE \/ UpdateBegin(c) \/ UpdateRow(c) \/ CreateBegin(c) \/ CreateRow(c)
           \/ ClearVerifications(c) \/ VerifyInsert(c) \/ Reread(c)
  BY <1>3 DEF UpdateBegin, UpdateRow, CreateBegin, CreateRow, ClearVerifications,
     VerifyInsert, Reread, db
<1>4. CASE DeleteRead(c) \/ DeleteRow(c) \/ PurgeLock(c) \/ PurgeErase(c) \/ Revise(c)
  BY <1>4 DEF DeleteRead, DeleteRow, PurgeLock, PurgeErase, Revise, db
<1>q. QED  BY <1>1, <1>2, <1>3, <1>4 DEF Step

\* What a commit publishes is vouched for by what stands beside it.
LEMMA CommitVouches ==
  ASSUME TypeInv, RulingsInv, NEW c \in Clients, Commit(c)
  PROVE  /\ StandingVouchesForContent' /\ (obj'.state = "absent" => vers' = {})
         /\ AwareAt(obj', vers', pc'[c], job'[c], tx'[c])
<1>0. pc[c] = "commit" /\ job[c].op \in Writers \cup {"delete", "purge", "verify"}
  BY CommittedRow DEF Commit
<1>1. CASE job[c].op \in Writers
  <2>1. obj' = tx[c].row /\ obj'.state = "live" /\ obj'.doc = job[c].want
    BY <1>0, <1>1, CommittedRow DEF Commit
  <2>2. vers' = vers \ tx[c].erased
    BY <1>1 DEF Commit, Writers
  <2>3. \A v \in Standing(tx[c].row, vers \ tx[c].erased) : SameContent(v.doc, tx[c].row.doc)
    BY <1>0, <1>1, RequestFacts DEF AwareAt
  <2>4. StandingVouchesForContent'
    BY <2>1, <2>2, <2>3 DEF StandingVouchesForContent
  <2>5. CASE job[c].op = "publish"
    <3>1. pc'[c] = "verify" /\ job'[c].op = "verify" /\ ~ job'[c].agent
      BY <2>5, RequestFacts DEF Commit, Go, NoJob
    <3>2. obj'.doc.status = "stable"
      BY <1>0, <2>1, <2>5, RequestFacts DEF AwareAt
    <3>q. QED  BY <2>1, <2>4, <3>1, <3>2 DEF AwareAt, Writers
  <2>6. CASE job[c].op # "publish"
    <3>1. pc'[c] = "idle" /\ job'[c] = NoJob
      BY <2>6, RequestFacts DEF Commit, Go
    <3>q. QED  BY <2>1, <2>4, <3>1 DEF AwareAt, NoJob, Writers
  <2>q. QED  BY <2>5, <2>6
<1>2. CASE job[c].op \in {"delete", "purge", "verify"}
  <2>1. pc'[c] = "idle" /\ job'[c] = NoJob
    BY <1>2, RequestFacts DEF Commit, Go
  <2>2. AwareAt(obj', vers', pc'[c], job'[c], tx'[c])
    BY <2>1 DEF AwareAt, NoJob, Writers
  <2>3. CASE job[c].op = "delete"
    <3>1. obj'.state = "deleted"
      BY <1>0, <2>3, CommittedRow DEF Commit
    <3>q. QED  BY <2>2, <3>1 DEF StandingVouchesForContent, Standing
  <2>4. CASE job[c].op = "purge"
    <3>1. obj' = Absent /\ vers' = vers \ tx[c].erased
      BY <1>0, <2>4, CommittedRow, NoJobType DEF Commit
    <3>2. vers' = {}
      BY <1>0, <2>4, <3>1, RequestFacts DEF AwareAt
    <3>q. QED  BY <2>2, <3>2 DEF StandingVouchesForContent, Standing
  <2>5. CASE job[c].op = "verify"
    <3> DEFINE new == [seq |-> tx[c].seq, at |-> tx[c].at, doc |-> tx[c].doc]
    <3>1. obj' = obj /\ vers' = (vers \ tx[c].erased) \cup {new} /\ new.doc = tx[c].doc
      BY <1>0, <2>5, CommittedRow DEF Commit
    <3>2. obj.state = "live" /\ tx[c].doc = obj.doc
      BY <1>0, <2>5, RequestFacts DEF AwareAt
    <3> HIDE DEF new
    <3>3. \A v \in Standing(obj, vers) : SameContent(v.doc, obj.doc)
      BY DEF RulingsInv, StandingVouchesForContent
    <3>4. ASSUME NEW v \in Standing(obj', vers')  PROVE SameContent(v.doc, obj'.doc)
      <4>1. CASE v = new
        BY <3>1, <3>2, <4>1 DEF SameContent
      <4>2. CASE v # new
        BY <3>1, <3>3, <4>2 DEF Standing
      <4>q. QED  BY <4>1, <4>2
    <3>q. QED  BY <2>2, <3>1, <3>2, <3>4 DEF StandingVouchesForContent
  <2>q. QED  BY <1>2, <2>3, <2>4, <2>5
<1>q. QED  BY <1>0, <1>1, <1>2

\* A commit leaves the others aware of what they rely on: a verification adds
\* beside verifications alone, and a write takes from the ledger or leaves it.
LEMMA CommitOthers ==
  ASSUME LedgerInv, RulingsInv, RulingsApart, NEW c \in Clients, NEW d \in Clients \ {c},
         Commit(c)
  PROVE  Aware(d)'
<1>0. TypeInv /\ pc[c] = "commit" /\ Step(c)
  BY DEF LedgerInv, Commit, Step
<1>1. pc'[d] = pc[d] /\ job'[d] = job[d] /\ tx'[d] = tx[d]
  BY <1>0, OthersKeep
<1>2. job[d] \in Jobs /\ CarriesAt(pc[d], job[d], tx[d]) /\ Aware(d)
  BY <1>0 DEF TypeInv, TypeOK, Carries, RulingsInv
<1>3. CASE job[c].op = "verify"
  <2>1. obj' = obj
    BY <1>0, <1>3, CommittedRow DEF Commit
  <2>2. job[d].op \in {"none", "verify"}
    BY <1>3 DEF RulingsApart
  <2>3. AwareAt(obj, vers', pc[d], job[d], tx[d])
    BY <1>2, <2>2, VerifyStaysAware DEF Aware
  <2>q. QED  BY <1>1, <2>1, <2>3 DEF Aware
<1>4. CASE job[c].op # "verify"
  <2>1. Knows(c) /\ job[c].op \in Writers \cup {"delete", "purge"}
    BY <1>0, <1>4, CommitExcludes, CommittedRow
  <2>2. job[d].op # "verify"
    BY <2>1 DEF RulingsApart, Writers
  <2>3. vers' \in SUBSET vers /\ (vers \subseteq tx[c].erased => vers' = {})
    BY <1>4 DEF Commit
  <2>4. obj'.state = "live" => obj.state = "live" \/ vers' = {}
    <3>1. CASE job[c].op \in {"put", "update", "publish"}
      BY <2>1, <3>1 DEF Knows
    <3>2. CASE job[c].op \in {"create", "putCreate"}
      BY <1>0, <2>3, <3>2, RequestFacts DEF AwareAt
    <3>3. CASE job[c].op = "delete"
      BY <1>0, <3>3, CommittedRow DEF Commit
    <3>4. CASE job[c].op = "purge"
      BY <1>0, <3>4, CommittedRow, NoJobType DEF Commit, Absent
    <3>q. QED  BY <2>1, <3>1, <3>2, <3>3, <3>4 DEF Writers
  <2>5. AwareAt(obj', vers', pc[d], job[d], tx[d])
    BY <1>2, <2>2, <2>3, <2>4, WriteStaysAware DEF Aware
  <2>q. QED  BY <1>1, <2>5 DEF Aware
<1>q. QED  BY <1>3, <1>4

\* Every step keeps the rulings sound while verifications are apart from writes.
LEMMA NextRulings ==
  ASSUME LedgerInv, RulingsInv, RulingsApart, [Next]_vars
  PROVE  RulingsInv'
<1>0. TypeInv
  BY DEF LedgerInv
<1>1. ASSUME NEW c \in Clients, Request(c) \/ Step(c) \/ Abort(c)  PROVE RulingsInv'
  <2>1. \A d \in Clients \ {c} : pc'[d] = pc[d] /\ job'[d] = job[d] /\ tx'[d] = tx[d]
    BY <1>0, <1>1, OthersKeep
  <2>2. CASE Commit(c)
    <3>1. \A d \in Clients \ {c} : Aware(d)'
      BY <2>2, CommitOthers
    <3>q. QED  BY <1>0, <2>2, <3>1, CommitVouches DEF RulingsInv, Aware
  <2>3. CASE ~ Commit(c)
    <3>1. UNCHANGED <<obj, vers>>
      BY <1>1, <2>3, QuietUntilCommit
    <3>2. Abort(c) => Finish(c)
      BY DEF Abort
    <3>3. AwareAt(obj, vers, pc'[c], job'[c], tx'[c])
      BY <1>0, <1>1, <2>3, <3>2, AnswerAware, RequestAware, GuardAware, GetAware, UpdateAware,
         CreateAware, VerifyAware, DeleteAware, PurgeAware, ReviseAware DEF Step
    <3>q. QED  BY <1>0, <2>1, <3>1, <3>3, AwareStep
  <2>q. QED  BY <2>2, <2>3
<1>2. ASSUME UNCHANGED <<obj, vers, pc, job, tx>>  PROVE RulingsInv'
  BY <1>2 DEF RulingsInv, Aware, StandingVouchesForContent
<1>q. QED  BY <1>1, <1>2 DEF Next, ReportFailed, vars, db

\* The initial states have no rulings at all.
LEMMA InitRulings ==
  ASSUME Init
  PROVE  RulingsInv
BY DEF Init, RulingsInv, Aware, AwareAt, NoJob, Writers, StandingVouchesForContent, Standing

\* Rulings stay sound while verifications are apart from writes.
LEMMA RulingsInvariant == Spec /\ []RulingsApart => [](LedgerInv /\ RulingsInv)
<1>1. Init => RulingsInv
  BY InitRulings
<1>2. LedgerInv /\ RulingsInv /\ RulingsApart /\ [Next]_vars => RulingsInv'
  BY NextRulings
<1>q. QED  BY <1>1, <1>2, LedgerInvariant, PTL DEF Spec

\* Where no write is under way beside a verification, and however writes race one
\* another, a verification that stands for the live concept was recorded against
\* the content it now holds, whatever the two clocks say of each other
\* (changedAfterVerified and Verify's clamps).
THEOREM RulingsVouch == Spec /\ []RulingsApart => []StandingVouchesForContent
<1>1. RulingsInv => StandingVouchesForContent
  BY DEF RulingsInv
<1>q. QED  BY <1>1, RulingsInvariant, PTL

\* Where no write is under way beside a verification, an agent's write replaces or
\* revives only what no ruling is on, whatever other writes come in between (RefuseIfCurated, RefuseIfRevivingCurated).
THEOREM RulingsOutlastAgents == Spec /\ []RulingsApart => AgentKeepsRulings
<1> DEFINE A == \A c \in Clients : lock = c /\ obj' # obj /\ job[c].agent => vers = {}
<1>1. LedgerInv /\ RulingsInv /\ [Next]_vars => [A]_vars
  <2>1. SUFFICES ASSUME LedgerInv, RulingsInv, [Next]_vars, NEW c \in Clients,
                        lock = c, obj' # obj, job[c].agent
                 PROVE  vers = {}
    OBVIOUS
  <2>2. pc[c] = "commit"
    BY <2>1, RowChange DEF Commit
  <2>q. QED  BY <2>1, <2>2, RequestFacts DEF LedgerInv, AwareAt
<1>q. QED  BY <1>1, RulingsInvariant, PTL DEF Spec, AgentKeepsRulings

\* Where no write is under way beside a verification, whatever others verify
\* meanwhile, a verification leaves the concept live, published and vouched for (Service.Verify's publishDraft, Store.Verify).
THEOREM VerificationsStand == Spec /\ []RulingsApart => VerifyStands
<1> DEFINE A == \A v \in vers' \ vers : v \in Standing(obj', vers') /\ obj'.doc.status # "draft"
<1>1. LedgerInv /\ RulingsInv /\ [Next]_vars => [A]_vars
  <2>1. SUFFICES ASSUME LedgerInv, RulingsInv, [Next]_vars, NEW v \in vers' \ vers
                 PROVE  v \in Standing(obj', vers') /\ obj'.doc.status # "draft"
    OBVIOUS
  <2>2. PICK c \in Clients : Commit(c)
    <3>1. ~ UNCHANGED <<obj, vers>>
      BY <2>1
    <3>2. PICK c \in Clients : Request(c) \/ Step(c) \/ Abort(c)
      BY <2>1, <3>1 DEF Next, ReportFailed, vars, db
    <3>q. QED  BY <3>1, <3>2, QuietUntilCommit
  <2>3. pc[c] = "commit" /\ job[c].op = "verify" /\ v.at = tx[c].at
    BY <2>1, <2>2 DEF Commit
  <2>4. obj' = obj
    BY <2>1, <2>2, <2>3, CommittedRow DEF Commit, LedgerInv
  <2>5. obj.state = "live" /\ tx[c].at >= obj.cca /\ obj.doc.status # "draft"
    BY <2>1, <2>3, RequestFacts DEF LedgerInv, AwareAt
  <2>q. QED  BY <2>1, <2>3, <2>4, <2>5 DEF Standing
<1>q. QED  BY <1>1, RulingsInvariant, PTL DEF Spec, VerifyStands
=============================================================================
