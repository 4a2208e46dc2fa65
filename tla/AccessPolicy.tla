---------------------------- MODULE AccessPolicy ----------------------------
(***************************************************************************)
(* The access policy (internal/domain/access.go, service/access.go,         *)
(* store/access.go): the grants that say who may read, write and administer *)
(* under which directory.  It is one document, read whole, edited by its    *)
(* reader and put back whole; a caller who administers only some subtrees    *)
(* reads and replaces the rules under those.  A request resolves its scope   *)
(* in one statement and replaces the policy in a later transaction, so the   *)
(* policy may move in between.                                              *)
(***************************************************************************)
EXTENDS BundlePaths, FiniteSets

CONSTANTS
  Callers,       \* principals that call
  Everybody,     \* the wildcard principal
  Addresses,     \* bundle paths concepts live at
  Offered,       \* bound: rules a caller may put into a document
  AdminLists,    \* values OCHAKAI_ADMINS takes over the restarts
  MaxRules,      \* domain.MaxAccessRules
  ReadOnly       \* the deployment refuses writes

ASSUME AccessAssumption ==
  /\ Everybody \notin Callers
  /\ \A l \in AdminLists : l \subseteq Callers \cup {Everybody}
  /\ \A id \in Addresses : id \in Seq(STRING)
  /\ Offered \subseteq [prefix : Seq(STRING), principal : Callers \cup {Everybody},
                        write : BOOLEAN, admin : BOOLEAN]
  /\ MaxRules \in Nat /\ ReadOnly \in BOOLEAN

VARIABLES
  admins,   \* OCHAKAI_ADMINS of the running process
  policy,   \* table access_rule: grants with the caller that wrote each row
  pc,       \* where each caller's request is
  resolved, \* the scope the request resolved
  doc,      \* the document it puts, checked
  match,    \* its If-Match: at most one version
  held,     \* the version each caller last read, if it read one
  rooted    \* history: subtrees a configured administrator delegated

policyVars == <<admins, policy, pc, resolved, doc, match, held, rooted>>
request == <<pc, resolved, doc, match>>

-----------------------------------------------------------------------------
(* The grants, and what they mean for one caller.                           *)

Grant(r) == [prefix |-> r.prefix, principal |-> r.principal,
             write |-> r.write, admin |-> r.admin]
GrantsOf(rows) == {Grant(r) : r \in rows}

Key(r) == <<r.prefix, r.principal>>

\* partitionByPrefixes and the service's partitionRules.
Inside(rules, prefixes) == {r \in rules : UnderAny(r.prefix, prefixes)}
Outside(rules, prefixes) == rules \ Inside(rules, prefixes)

\* The version is a hash of the grants in a canonical order: the set itself.
AccessPolicyVersion(rules) == GrantsOf(rules)

Configured(a, list) == Everybody \in list \/ a \in list

NoScope == [unscoped |-> FALSE, admin |-> FALSE,
            read |-> {}, write |-> {}, reach |-> {}]

ScopeOf(a, list, rows) ==
  LET mine == {r \in rows : r.principal \in {Everybody, a}} IN
  IF Configured(a, list) THEN [NoScope EXCEPT !.admin = TRUE]
  ELSE IF rows = {} THEN [NoScope EXCEPT !.unscoped = TRUE]
  ELSE [NoScope EXCEPT !.read = {r.prefix : r \in mine},
                       !.write = {r.prefix : r \in {q \in mine : q.write}},
                       !.reach = {r.prefix : r \in {q \in mine : q.admin}}]

Everything(sc) == sc.unscoped \/ sc.admin
ReadsWholeBundle(sc) == Everything(sc) \/ Root \in sc.read
MayRead(sc, id) == Everything(sc) \/ UnderAny(id, sc.read)
MayWrite(sc, id) == Everything(sc) \/ UnderAny(id, sc.write)

\* mayWriteIn: what a write outside the scope is answered.
WriteAnswer(sc, id) ==
  IF MayWrite(sc, id) THEN "ok"
  ELSE IF MayRead(sc, id) THEN "forbidden" ELSE "not_found"

\* MayArchive and, for the root, RequireAdmin.
ArchiveAnswer(sc, prefix) ==
  IF Everything(sc) THEN "ok"
  ELSE IF prefix = Root THEN "forbidden"
  ELSE IF MayRead(sc, prefix) THEN "ok" ELSE "not_found"

\* What a listing asked for under some prefixes (none: the whole bundle)
\* returns of the stored ids.
Listing(sc, ids, requested) ==
  LET wanted == IF requested = {} THEN {Root} ELSE requested
      prefixes == IF ReadsWholeBundle(sc) THEN wanted
                  ELSE IF requested = {} THEN sc.read
                  ELSE Intersect(requested, sc.read)
  IN {id \in ids : UnderAny(id, prefixes)}

ScopeRows(sc, ids) ==
  IF Everything(sc) THEN ids ELSE {id \in ids : MayRead(sc, id)}

-----------------------------------------------------------------------------
(* What a document is checked for before it is written.                      *)

\* ValidateAccessRules: administering implies writing.
Checked(rules) == {[r EXCEPT !.write = r.write \/ r.admin] : r \in rules}

Valid(rules) ==
  /\ Cardinality(rules) <= MaxRules
  /\ \A r \in rules : r.admin => r.prefix # Root
  /\ \A r, q \in rules : Key(r) = Key(q) => r = q

\* Mutant: a prefix administrator's document may say anything.
AdmissibleAnywhere(sc, rules) ==
  /\ Everything(sc) \/ sc.reach # {}
  /\ Valid(rules)
  /\ rules # {} => admins # {} /\ (sc.admin \/ sc.reach # {})

\* SetPolicy's refusals, in the scope the request resolved.
Admissible(sc, rules) ==
  /\ Everything(sc) \/ sc.reach # {}
  /\ Valid(rules)
  /\ rules # {} => admins # {} /\ (sc.admin \/ sc.reach # {})
  /\ Everything(sc) \/ Outside(rules, sc.reach) = {}

\* Everyone's rules are visible to a scope with no boundary, and to a prefix
\* administrator those inside its subtrees.
Visible(sc, rows) == IF Everything(sc) THEN rows ELSE Inside(rows, sc.reach)
Hidden(sc, rows) == rows \ Visible(sc, rows)

-----------------------------------------------------------------------------
RulePrefixes == {r.prefix : r \in Offered}
RuleType == [prefix : RulePrefixes, principal : Callers \cup {Everybody},
             write : BOOLEAN, admin : BOOLEAN]
RowType == [prefix : RulePrefixes, principal : Callers \cup {Everybody},
            write : BOOLEAN, admin : BOOLEAN, by : Callers]
ScopeType == [unscoped : BOOLEAN, admin : BOOLEAN, read : SUBSET RulePrefixes,
              write : SUBSET RulePrefixes, reach : SUBSET RulePrefixes]

TypeOK ==
  /\ admins \in AdminLists
  /\ policy \in SUBSET RowType
  /\ pc \in [Callers -> {"idle", "get", "put", "answer"}]
  /\ resolved \in [Callers -> ScopeType]
  /\ doc \in [Callers -> SUBSET RuleType]
  /\ match \in [Callers -> SUBSET SUBSET RuleType]
  /\ held \in [Callers -> SUBSET SUBSET RuleType]
  /\ rooted \in SUBSET RulePrefixes

PolicyInit ==
  /\ admins \in AdminLists
  /\ policy = {}
  /\ pc = [a \in Callers |-> "idle"]
  /\ resolved = [a \in Callers |-> NoScope]
  /\ doc = [a \in Callers |-> {}]
  /\ match = [a \in Callers |-> {}]
  /\ held = [a \in Callers |-> {}]
  /\ rooted = {}

Finish(a) ==
  /\ pc' = [pc EXCEPT ![a] = "idle"]
  /\ resolved' = [resolved EXCEPT ![a] = NoScope]
  /\ doc' = [doc EXCEPT ![a] = {}]
  /\ match' = [match EXCEPT ![a] = {}]

\* Policy: the scope first, the rules in a statement of their own.
GetScope(a) ==
  LET sc == ScopeOf(a, admins, policy) IN
  /\ pc[a] = "idle"
  /\ Everything(sc) \/ sc.reach # {}
  /\ pc' = [pc EXCEPT ![a] = "get"]
  /\ resolved' = [resolved EXCEPT ![a] = sc]
  /\ UNCHANGED <<admins, policy, doc, match, held, rooted>>

GetRules(a) ==
  /\ pc[a] = "get"
  /\ held' = [held EXCEPT ![a] = {AccessPolicyVersion(Visible(resolved[a], policy))}]
  /\ Finish(a)
  /\ UNCHANGED <<admins, policy, rooted>>

\* The documents a caller composes: what it read with one rule placed, moved
\* to another level or withdrawn; nothing; or one rule written blind.
Drafts(a) ==
  LET base == UNION held[a] IN
  {{}} \cup {base \ {r} : r \in base}
    \cup {{q \in base : Key(q) # Key(r)} \cup {r} : r \in Offered}

\* SetPolicy up to its transaction; a refused document writes nothing.
PutScope(a) ==
  LET sc == ScopeOf(a, admins, policy) IN
  /\ ~ReadOnly
  /\ pc[a] = "idle"
  /\ \E rules \in Drafts(a), conditional \in BOOLEAN :
       /\ conditional => held[a] # {}
       /\ Admissible(sc, Checked(rules))
       /\ doc' = [doc EXCEPT ![a] = Checked(rules)]
       /\ match' = [match EXCEPT ![a] = IF conditional THEN held[a] ELSE {}]
  /\ pc' = [pc EXCEPT ![a] = "put"]
  /\ resolved' = [resolved EXCEPT ![a] = sc]
  /\ UNCHANGED <<admins, policy, held, rooted>>

\* Mutant: the precondition is compared when the request arrives.
PreconditionOnArrival(a) == match[a] \subseteq held[a]

\* ReplaceAccessPolicy under its advisory lock: rows are deleted and written
\* anew, the hidden ones too, all in the name of this caller.
Precondition(a) ==
  \A version \in match[a] : version = AccessPolicyVersion(Visible(resolved[a], policy))

Replacement(a) == doc[a] \cup GrantsOf(Hidden(resolved[a], policy))

Row(r, a) == [prefix |-> r.prefix, principal |-> r.principal,
              write |-> r.write, admin |-> r.admin, by |-> a]

Replace(a) ==
  /\ pc[a] = "put"
  /\ Precondition(a)
  /\ policy' = {Row(r, a) : r \in Replacement(a)}
  /\ rooted' = IF resolved[a].admin
               THEN rooted \cup {r.prefix : r \in {q \in doc[a] : q.admin}}
               ELSE rooted
  /\ pc' = [pc EXCEPT ![a] = "answer"]
  /\ UNCHANGED <<admins, resolved, doc, match, held>>

Conflict(a) ==
  /\ pc[a] = "put"
  /\ ~Precondition(a)
  /\ Finish(a)
  /\ UNCHANGED <<admins, policy, held, rooted>>

\* The write's answer reads the policy back, by then possibly another's.
ReadBack(a) ==
  /\ pc[a] = "answer"
  /\ held' = [held EXCEPT ![a] = {AccessPolicyVersion(Visible(resolved[a], policy))}]
  /\ Finish(a)
  /\ UNCHANGED <<admins, policy, rooted>>

\* Mutant: serve comes up whatever the table holds.
RestartUnchecked ==
  /\ admins' \in AdminLists \ {admins}
  /\ pc' = [a \in Callers |-> "idle"]
  /\ resolved' = [a \in Callers |-> NoScope]
  /\ doc' = [a \in Callers |-> {}]
  /\ match' = [a \in Callers |-> {}]
  /\ UNCHANGED <<policy, held, rooted>>

\* A restart under another configuration: serve refuses to come up on a
\* policy that no configured administrator could edit.
Restart ==
  /\ admins' \in AdminLists \ {admins}
  /\ policy # {} => admins' # {}
  /\ pc' = [a \in Callers |-> "idle"]
  /\ resolved' = [a \in Callers |-> NoScope]
  /\ doc' = [a \in Callers |-> {}]
  /\ match' = [a \in Callers |-> {}]
  /\ UNCHANGED <<policy, held, rooted>>

PolicyNext ==
  \/ \E a \in Callers : \/ GetScope(a) \/ GetRules(a)
                        \/ PutScope(a) \/ Replace(a) \/ Conflict(a) \/ ReadBack(a)
  \/ Restart

PolicySpec == PolicyInit /\ [][PolicyNext]_policyVars

-----------------------------------------------------------------------------
(* Properties.                                                              *)

\* Nobody comes to administer a subtree but from a configured administrator's
\* hand: every rule that delegates lies at or under a subtree one of them
\* delegated, whatever the prefix administrators below, requests decided in
\* a scope since withdrawn, wipes and restarts made of the policy.
DelegationRooted == \A r \in policy : r.admin => UnderAny(r.prefix, rooted)

\* A policy that holds a rule has somebody who may undo it (the check in
\* SetPolicy and the one at startup, together).
PolicyHasEditors == policy # {} => admins # {}

\* A write that named the version it read removes no rule its author had not
\* read: of two editors who read one policy, the second is refused.
NoUnseenLoss ==
  [][\A a \in Callers :
       Replace(a) => \A version \in match[a] :
                       GrantsOf(policy) \ GrantsOf(policy') \subseteq version]_policyVars

\* The surfaces that answer about many concepts agree with the one that reads
\* a single concept (MayRead): a listing narrowed on the way in returns what
\* scopeRows would leave of it on the way out, an archive holds nothing its
\* taker could not fetch, and only a readable address answers "forbidden".
ListingAgrees(sc, requested) ==
  Listing(sc, Addresses, requested)
    = {id \in ScopeRows(sc, Addresses) :
         UnderAny(id, IF requested = {} THEN {Root} ELSE requested)}

ArchiveAgrees(sc, prefix) ==
  ArchiveAnswer(sc, prefix) = "ok"
    => \A id \in Addresses : Under(id, prefix) => MayRead(sc, id)

RefusalAgrees(sc, id) == WriteAnswer(sc, id) # "not_found" <=> MayRead(sc, id)

SurfacesAgree ==
  \A a \in Callers :
    LET sc == ScopeOf(a, admins, policy)
    IN /\ \A requested \in SUBSET RulePrefixes : ListingAgrees(sc, requested)
       /\ \A prefix \in RulePrefixes \cup {Root} : ArchiveAgrees(sc, prefix)
       /\ \A id \in Addresses : RefusalAgrees(sc, id)

\* The rules outside a prefix administrator's reach survive its write
\* untouched, the record of who granted them included.
OutsideUntouched ==
  [][\A a \in Callers : Replace(a) => Hidden(resolved[a], policy) \subseteq policy']_policyVars
=============================================================================
