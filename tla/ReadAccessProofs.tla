-------------------------- MODULE ReadAccessProofs --------------------------
(***************************************************************************)
(* Who may read what, and what a reader is given: what AccessPolicy promises *)
(* for every set of callers, rules, paths and configurations, and Reading    *)
(* for every base, every listing, every page length and whatever others      *)
(* write meanwhile.  Both rest on what the containment of paths is.          *)
(***************************************************************************)
EXTENDS AccessPolicy, Reading, WellFoundedInduction, FiniteSetTheorems, SequenceTheorems, TLAPS

(* Paths: containment is transitive, and of two directories that hold one    *)
(* path the shallower holds the deeper.                                      *)
LEMMA UnderTransitive ==
  ASSUME NEW a \in Seq(STRING), NEW b \in Seq(STRING), NEW c \in Seq(STRING),
         Under(a, b), Under(b, c)
  PROVE  Under(a, c)
<1>1. Len(a) \in Nat /\ Len(b) \in Nat /\ Len(c) \in Nat
  OBVIOUS
<1>2. Len(c) <= Len(a)
  BY <1>1 DEF Under
<1>3. ASSUME NEW i \in 1..Len(c) PROVE a[i] = c[i]
  <2>1. i \in 1..Len(b)
    BY <1>1 DEF Under
  <2> QED
    BY <2>1 DEF Under
<1> QED
  BY <1>2, <1>3 DEF Under

\* Two directories above one path are above one another.
LEMMA UnderChain ==
  ASSUME NEW a \in Seq(STRING), NEW b \in Seq(STRING), NEW c \in Seq(STRING),
         Under(a, b), Under(a, c)
  PROVE  Under(b, c) \/ Under(c, b)
<1>1. Len(a) \in Nat /\ Len(b) \in Nat /\ Len(c) \in Nat
  OBVIOUS
<1>2. CASE Len(c) <= Len(b)
  <2>1. ASSUME NEW i \in 1..Len(c) PROVE b[i] = c[i]
    <3>1. i \in 1..Len(b)
      BY <1>1, <1>2
    <3> QED
      BY <3>1 DEF Under
  <2> QED
    BY <1>2, <2>1 DEF Under
<1>3. CASE Len(b) <= Len(c)
  <2>1. ASSUME NEW i \in 1..Len(b) PROVE c[i] = b[i]
    <3>1. i \in 1..Len(c)
      BY <1>1, <1>3
    <3> QED
      BY <3>1 DEF Under
  <2> QED
    BY <1>3, <2>1 DEF Under
<1> QED
  BY <1>1, <1>2, <1>3

\* Everything is under the root.
LEMMA UnderRoot ==
  ASSUME NEW a \in Seq(STRING) PROVE Under(a, Root)
<1>1. Len(Root) = 0 /\ Len(a) \in Nat
  BY DEF Root
<1> QED
  BY <1>1 DEF Under

(* intersect: a path lies under the intersection of two sets of prefixes     *)
(* exactly when it lies under both.                                          *)
LEMMA IntersectExact ==
  ASSUME NEW id \in Seq(STRING), NEW R \in SUBSET Seq(STRING),
         NEW G \in SUBSET Seq(STRING)
  PROVE  UnderAny(id, Intersect(R, G)) <=> UnderAny(id, R) /\ UnderAny(id, G)
<1>1. ASSUME UnderAny(id, Intersect(R, G))
      PROVE  UnderAny(id, R) /\ UnderAny(id, G)
  <2>1. PICK p \in Intersect(R, G) : Under(id, p)
    BY <1>1 DEF UnderAny
  <2>2. CASE p \in R /\ UnderAny(p, G)
    BY <2>1, <2>2, UnderTransitive DEF UnderAny
  <2>3. CASE p \in G /\ UnderAny(p, R)
    BY <2>1, <2>3, UnderTransitive DEF UnderAny
  <2> QED
    BY <2>1, <2>2, <2>3 DEF Intersect
<1>2. ASSUME UnderAny(id, R), UnderAny(id, G)
      PROVE  UnderAny(id, Intersect(R, G))
  <2>1. PICK p \in R : Under(id, p)
    BY <1>2 DEF UnderAny
  <2>2. PICK q \in G : Under(id, q)
    BY <1>2 DEF UnderAny
  <2>3. CASE Under(p, q)
    BY <2>1, <2>2, <2>3 DEF UnderAny, Intersect
  <2>4. CASE Under(q, p)
    BY <2>1, <2>2, <2>4 DEF UnderAny, Intersect
  <2> QED
    BY <2>1, <2>2, <2>3, <2>4, UnderChain
<1> QED
  BY <1>1, <1>2

-----------------------------------------------------------------------------
\* A rule's prefix is a path.
LEMMA PrefixesAreSequences == RulePrefixes \subseteq Seq(STRING)
BY AccessAssumption DEF RulePrefixes

\* What a caller is resolved to is a scope.
LEMMA ScopeOfType ==
  ASSUME NEW a, NEW list, NEW rows \in SUBSET RowType
  PROVE  ScopeOf(a, list, rows) \in ScopeType
<1> DEFINE mine == {r \in rows : r.principal \in {Everybody, a}}
<1>1. \A r \in rows : r.prefix \in RulePrefixes
  BY DEF RowType
<1>2. /\ {r.prefix : r \in mine} \in SUBSET RulePrefixes
      /\ {r.prefix : r \in {q \in mine : q.write}} \in SUBSET RulePrefixes
      /\ {r.prefix : r \in {q \in mine : q.admin}} \in SUBSET RulePrefixes
  BY <1>1
<1> HIDE DEF mine
<1> QED
  BY <1>2 DEF ScopeOf, ScopeType, NoScope, mine

\* A policy that passed its checks is made of rules.
LEMMA CheckedType ==
  ASSUME NEW rules \in SUBSET RuleType PROVE Checked(rules) \in SUBSET RuleType
BY DEF Checked, RuleType

\* The grants a policy's rows give are rules.
LEMMA GrantsType ==
  ASSUME NEW rows \in SUBSET RowType PROVE GrantsOf(rows) \in SUBSET RuleType
BY DEF GrantsOf, Grant, RowType, RuleType

\* What a scope shows and hides are parts of the policy.
LEMMA VisibleType ==
  ASSUME NEW sc, NEW rows
  PROVE  Visible(sc, rows) \in SUBSET rows /\ Hidden(sc, rows) \in SUBSET rows
BY DEF Visible, Hidden, Inside

\* What callers put into a document are rules.
LEMMA OfferedType == Offered \in SUBSET RuleType
BY AccessAssumption DEF RuleType, RulePrefixes

\* A document a caller may put back is made of rules.
LEMMA DraftsType ==
  ASSUME TypeOK, NEW a \in Callers, NEW rules \in Drafts(a)
  PROVE  rules \in SUBSET RuleType
<1>1. UNION held[a] \in SUBSET RuleType
  BY DEF TypeOK
<1> QED
  BY <1>1, OfferedType DEF Drafts

-----------------------------------------------------------------------------
\* A caller not yet resolved has a scope, an empty one.
LEMMA NoScopeType == NoScope \in ScopeType
BY DEF NoScope, ScopeType

\* An answered request keeps the types.
LEMMA FinishType ==
  ASSUME TypeOK, NEW a \in Callers, Finish(a)
  PROVE  /\ pc' \in [Callers -> {"idle", "get", "put", "answer"}]
         /\ resolved' \in [Callers -> ScopeType]
         /\ doc' \in [Callers -> SUBSET RuleType]
         /\ match' \in [Callers -> SUBSET SUBSET RuleType]
BY NoScopeType DEF TypeOK, Finish

\* A caller who reads the policy keeps the version of what was shown.
LEMMA ReadType ==
  ASSUME TypeOK, NEW a \in Callers,
         held' = [held EXCEPT ![a] = {AccessPolicyVersion(Visible(resolved[a], policy))}]
  PROVE  held' \in [Callers -> SUBSET SUBSET RuleType]
<1>1. Visible(resolved[a], policy) \in SUBSET RowType
  BY VisibleType DEF TypeOK
<1>2. AccessPolicyVersion(Visible(resolved[a], policy)) \in SUBSET RuleType
  BY <1>1, GrantsType DEF AccessPolicyVersion
<1> QED
  BY <1>2 DEF TypeOK

\* Every step keeps the types of the policy.
LEMMA TypeStep == TypeOK /\ [PolicyNext]_policyVars => TypeOK'
<1> SUFFICES ASSUME TypeOK, [PolicyNext]_policyVars PROVE TypeOK'
  OBVIOUS
<1>1. ASSUME NEW a \in Callers, GetScope(a) PROVE TypeOK'
  <2>1. ScopeOf(a, admins, policy) \in ScopeType
    BY ScopeOfType DEF TypeOK
  <2> QED
    BY <1>1, <2>1 DEF TypeOK, GetScope
<1>2. ASSUME NEW a \in Callers, GetRules(a) PROVE TypeOK'
  BY <1>2, FinishType, ReadType DEF TypeOK, GetRules
<1>3. ASSUME NEW a \in Callers, PutScope(a) PROVE TypeOK'
  <2>1. ScopeOf(a, admins, policy) \in ScopeType
    BY ScopeOfType DEF TypeOK
  <2>2. PICK rules \in Drafts(a), conditional \in BOOLEAN :
          /\ doc' = [doc EXCEPT ![a] = Checked(rules)]
          /\ match' = [match EXCEPT ![a] = IF conditional THEN held[a] ELSE {}]
    BY <1>3 DEF PutScope
  <2>3. Checked(rules) \in SUBSET RuleType
    BY DraftsType, CheckedType
  <2>4. (IF conditional THEN held[a] ELSE {}) \in SUBSET SUBSET RuleType
    BY DEF TypeOK
  <2>5. doc' \in [Callers -> SUBSET RuleType]
    BY <2>2, <2>3 DEF TypeOK
  <2>6. match' \in [Callers -> SUBSET SUBSET RuleType]
    BY <2>2, <2>4 DEF TypeOK
  <2> QED
    BY <1>3, <2>1, <2>5, <2>6 DEF TypeOK, PutScope
<1>4. ASSUME NEW a \in Callers, Replace(a) PROVE TypeOK'
  <2>1. Hidden(resolved[a], policy) \in SUBSET RowType
    BY VisibleType DEF TypeOK
  <2>2. Replacement(a) \in SUBSET RuleType
    BY <2>1, GrantsType DEF TypeOK, Replacement
  <2>3. {Row(r, a) : r \in Replacement(a)} \in SUBSET RowType
    BY <2>2 DEF Row, RuleType, RowType
  <2>4. {r.prefix : r \in {q \in doc[a] : q.admin}} \in SUBSET RulePrefixes
    <3>1. doc[a] \in SUBSET RuleType
      BY DEF TypeOK
    <3> QED
      BY <3>1 DEF RuleType
  <2> QED
    BY <1>4, <2>3, <2>4 DEF TypeOK, Replace
<1>5. ASSUME NEW a \in Callers, Conflict(a) PROVE TypeOK'
  BY <1>5, FinishType DEF TypeOK, Conflict
<1>6. ASSUME NEW a \in Callers, ReadBack(a) PROVE TypeOK'
  BY <1>6, FinishType, ReadType DEF TypeOK, ReadBack
<1>7. ASSUME Restart PROVE TypeOK'
  BY <1>7, NoScopeType DEF TypeOK, Restart
<1>8. ASSUME UNCHANGED policyVars PROVE TypeOK'
  BY <1>8 DEF TypeOK, policyVars
<1> QED
  BY <1>1, <1>2, <1>3, <1>4, <1>5, <1>6, <1>7, <1>8 DEF PolicyNext

(* Every state of the component is one the code's types allow.               *)
THEOREM TypeCorrect == PolicySpec => []TypeOK
<1>1. PolicyInit => TypeOK
  BY NoScopeType DEF PolicyInit, TypeOK
<1> QED
  BY <1>1, TypeStep, PTL DEF PolicySpec

-----------------------------------------------------------------------------
(* Delegation.  A request decided in a scope that has since been withdrawn   *)
(* still carries prefixes that were rooted when it read them, and rooted      *)
(* subtrees never unroot, so the invariant follows the requests as well as    *)
(* the rows.                                                                *)
AdminsUnder(rules, prefixes) ==
  \A r \in rules : r.admin => UnderAny(r.prefix, prefixes)

Rooted ==
  /\ DelegationRooted
  /\ \A a \in Callers : \A p \in resolved[a].reach : UnderAny(p, rooted)
  /\ \A a \in Callers :
       pc[a] = "put" => resolved[a].admin \/ AdminsUnder(doc[a], resolved[a].reach)

\* A caller administers nothing outside what was once delegated from the root.
LEMMA ReachRooted ==
  ASSUME TypeOK, DelegationRooted, NEW a \in Callers,
         NEW p \in ScopeOf(a, admins, policy).reach
  PROVE  UnderAny(p, rooted)
<1>1. \E r \in policy : r.admin /\ r.prefix = p
  BY DEF ScopeOf, NoScope
<1> QED
  BY <1>1 DEF DelegationRooted

\* What a bounded administrator may put back stays under that caller's reach.
LEMMA AdmissibleDelegates ==
  ASSUME NEW sc \in ScopeType, NEW rules \in SUBSET RuleType,
         Admissible(sc, rules), sc.unscoped => sc.reach = {}
  PROVE  sc.admin \/ AdminsUnder(rules, sc.reach)
<1>1. CASE sc.admin
  BY <1>1
<1>2. CASE sc.unscoped /\ ~sc.admin
  <2>1. rules = {}
    BY <1>2 DEF Admissible, ScopeType
  <2> QED
    BY <2>1 DEF AdminsUnder
<1>3. CASE ~sc.unscoped /\ ~sc.admin
  <2>1. Outside(rules, sc.reach) = {}
    BY <1>3 DEF Admissible, Everything
  <2> QED
    BY <2>1 DEF AdminsUnder, Outside, Inside
<1> QED
  BY <1>1, <1>2, <1>3 DEF ScopeType

\* Delegations stay rooted through every step.
LEMMA RootedStep == TypeOK /\ Rooted /\ [PolicyNext]_policyVars => Rooted'
<1> SUFFICES ASSUME TypeOK, Rooted, [PolicyNext]_policyVars PROVE Rooted'
  OBVIOUS
<1>1. ASSUME NEW a \in Callers, GetScope(a) PROVE Rooted'
  <2>1. \A b \in Callers : \A p \in resolved'[b].reach : UnderAny(p, rooted)
    BY <1>1, ReachRooted DEF GetScope, Rooted, TypeOK
  <2>2. DelegationRooted' /\ rooted' = rooted
    BY <1>1 DEF GetScope, Rooted, DelegationRooted
  <2>3. \A b \in Callers : pc'[b] = "put" => pc[b] = "put" /\ b # a
    BY <1>1 DEF GetScope, TypeOK
  <2>4. \A b \in Callers : b # a => resolved'[b] = resolved[b] /\ doc'[b] = doc[b]
    BY <1>1 DEF GetScope, TypeOK
  <2>5. \A b \in Callers :
          pc'[b] = "put" => resolved'[b].admin \/ AdminsUnder(doc'[b], resolved'[b].reach)
    BY <2>3, <2>4 DEF Rooted
  <2> QED
    BY <2>1, <2>2, <2>5 DEF Rooted, AdminsUnder
<1>2. ASSUME NEW a \in Callers, Finish(a), UNCHANGED <<policy, rooted>>
      PROVE  Rooted'
  <2>1. \A b \in Callers : b # a => pc'[b] = pc[b] /\ resolved'[b] = resolved[b] /\ doc'[b] = doc[b]
    BY <1>2 DEF Finish, TypeOK
  <2>2. pc'[a] # "put" /\ resolved'[a].reach = {}
    BY <1>2 DEF Finish, TypeOK, NoScope
  <2>3. \A b \in Callers : \A p \in resolved'[b].reach : UnderAny(p, rooted)
    BY <2>1, <2>2 DEF Rooted
  <2>4. \A b \in Callers :
          pc'[b] = "put" => resolved'[b].admin \/ AdminsUnder(doc'[b], resolved'[b].reach)
    BY <2>1, <2>2 DEF Rooted
  <2> QED
    BY <1>2, <2>3, <2>4 DEF Rooted, DelegationRooted, AdminsUnder
<1>3. ASSUME NEW a \in Callers, PutScope(a) PROVE Rooted'
  <2> DEFINE sc == ScopeOf(a, admins, policy)
  <2>1. PICK rules \in Drafts(a) :
          Admissible(sc, Checked(rules)) /\ doc' = [doc EXCEPT ![a] = Checked(rules)]
    BY <1>3 DEF PutScope
  <2>2. Checked(rules) \in SUBSET RuleType
    BY DraftsType, CheckedType
  <2>3. sc \in ScopeType /\ (sc.unscoped => sc.reach = {})
    <3>1. sc \in ScopeType
      BY ScopeOfType DEF TypeOK
    <3>2. sc.unscoped => sc.reach = {}
      BY DEF ScopeOf, NoScope
    <3> QED
      BY <3>1, <3>2
  <2>4. sc.admin \/ AdminsUnder(Checked(rules), sc.reach)
    BY <2>1, <2>2, <2>3, AdmissibleDelegates
  <2>5. \A p \in sc.reach : UnderAny(p, rooted)
    BY ReachRooted DEF Rooted
  <2>6. resolved' = [resolved EXCEPT ![a] = sc] /\ pc' = [pc EXCEPT ![a] = "put"]
    BY <1>3 DEF PutScope
  <2>7. UNCHANGED <<policy, rooted>>
    BY <1>3 DEF PutScope
  <2> HIDE DEF sc
  <2>8. \A b \in Callers : b # a => pc'[b] = pc[b] /\ resolved'[b] = resolved[b] /\ doc'[b] = doc[b]
    BY <2>1, <2>6 DEF TypeOK
  <2>9. resolved'[a] = sc /\ doc'[a] = Checked(rules)
    BY <2>1, <2>6 DEF TypeOK
  <2>10. \A b \in Callers : \A p \in resolved'[b].reach : UnderAny(p, rooted)
    BY <2>5, <2>8, <2>9 DEF Rooted
  <2>11. \A b \in Callers :
          pc'[b] = "put" => resolved'[b].admin \/ AdminsUnder(doc'[b], resolved'[b].reach)
    BY <2>4, <2>8, <2>9 DEF Rooted
  <2> QED
    BY <2>7, <2>10, <2>11 DEF Rooted, DelegationRooted, AdminsUnder
<1>4. ASSUME NEW a \in Callers, Replace(a) PROVE Rooted'
  <2>1. ASSUME NEW p, UnderAny(p, rooted) PROVE UnderAny(p, rooted')
    BY <1>4, <2>1 DEF Replace, UnderAny
  <2>2. ASSUME NEW r \in doc[a], r.admin PROVE UnderAny(r.prefix, rooted')
    <3> USE PrefixesAreSequences
    <3>1. r.prefix \in Seq(STRING)
      BY DEF TypeOK, RuleType
    <3>2. CASE resolved[a].admin
      <4>1. r.prefix \in rooted'
        BY <1>4, <2>2, <3>2 DEF Replace
      <4>2. Under(r.prefix, r.prefix)
        BY <3>1 DEF Under
      <4> QED
        BY <4>1, <4>2 DEF UnderAny
    <3>3. CASE ~resolved[a].admin
      <4>1. PICK p \in resolved[a].reach : Under(r.prefix, p)
        BY <1>4, <2>2, <3>3 DEF Replace, Rooted, AdminsUnder, UnderAny
      <4>2. PICK g \in rooted : Under(p, g)
        BY <4>1 DEF Rooted, UnderAny
      <4>3. p \in Seq(STRING) /\ g \in Seq(STRING)
        BY <4>1, <4>2 DEF TypeOK, ScopeType
      <4>4. Under(r.prefix, g)
        BY <3>1, <4>1, <4>2, <4>3, UnderTransitive
      <4> QED
        BY <2>1, <4>2, <4>4 DEF UnderAny
    <3> QED
      BY <3>2, <3>3
  <2>3. ASSUME NEW r \in policy', r.admin PROVE UnderAny(r.prefix, rooted')
    <3>1. PICK g \in Replacement(a) : r = Row(g, a)
      BY <1>4 DEF Replace
    <3>2. r.prefix = g.prefix /\ g.admin
      BY <2>3, <3>1 DEF Row
    <3>3. CASE g \in doc[a]
      BY <2>2, <3>2, <3>3
    <3>4. CASE g \in GrantsOf(Hidden(resolved[a], policy))
      <4>1. PICK q \in policy : g = Grant(q)
        BY <3>4, VisibleType DEF GrantsOf
      <4>2. q.admin /\ q.prefix = g.prefix
        BY <3>2, <4>1 DEF Grant
      <4> QED
        BY <2>1, <3>2, <4>1, <4>2 DEF Rooted, DelegationRooted
    <3> QED
      BY <3>1, <3>3, <3>4 DEF Replacement
  <2>4. \A b \in Callers : pc'[b] = "put" => pc[b] = "put"
    BY <1>4 DEF Replace, TypeOK
  <2> QED
    BY <1>4, <2>1, <2>3, <2>4 DEF Rooted, DelegationRooted, AdminsUnder, Replace
<1>5. ASSUME Restart PROVE Rooted'
  <2>1. \A b \in Callers : pc'[b] # "put" /\ resolved'[b].reach = {}
    BY <1>5 DEF Restart, NoScope
  <2> QED
    BY <1>5, <2>1 DEF Restart, Rooted, DelegationRooted, AdminsUnder
<1>6. ASSUME UNCHANGED policyVars PROVE Rooted'
  BY <1>6 DEF policyVars, Rooted, DelegationRooted, AdminsUnder
<1>7. ASSUME NEW a \in Callers, GetRules(a) \/ Conflict(a) \/ ReadBack(a) PROVE Rooted'
  BY <1>2, <1>7 DEF GetRules, Conflict, ReadBack
<1> QED
  BY <1>1, <1>3, <1>4, <1>5, <1>6, <1>7 DEF PolicyNext

(* Whatever is delegated further, withdrawn or restored, administration of a *)
(* subtree comes down from a configured administrator (SetPolicy's checks).  *)
THEOREM DelegationComesFromAdmins == PolicySpec => []DelegationRooted
<1>1. PolicyInit => TypeOK /\ Rooted
  BY NoScopeType DEF PolicyInit, TypeOK, Rooted, DelegationRooted, AdminsUnder, NoScope
<1>2. TypeOK /\ Rooted /\ [PolicyNext]_policyVars => (TypeOK /\ Rooted)'
  BY TypeStep, RootedStep
<1>3. Rooted => DelegationRooted
  BY DEF Rooted
<1> QED
  BY <1>1, <1>2, <1>3, PTL DEF PolicySpec

-----------------------------------------------------------------------------
(* A document that holds a rule was admitted by a process that names an       *)
(* administrator, and requests do not outlive their process.                 *)
Supported ==
  /\ PolicyHasEditors
  /\ \A a \in Callers : doc[a] # {} => admins # {}

\* The policy keeps somebody who may edit it through every step.
LEMMA SupportedStep == TypeOK /\ Supported /\ [PolicyNext]_policyVars => Supported'
<1> SUFFICES ASSUME TypeOK, Supported, [PolicyNext]_policyVars PROVE Supported'
  OBVIOUS
<1>1. ASSUME NEW a \in Callers, GetScope(a) PROVE Supported'
  BY <1>1 DEF GetScope, Supported, PolicyHasEditors
<1>2. ASSUME NEW a \in Callers, Finish(a), UNCHANGED <<policy, admins>>
      PROVE  Supported'
  BY <1>2 DEF Finish, Supported, PolicyHasEditors, TypeOK
<1>3. ASSUME NEW a \in Callers, PutScope(a) PROVE Supported'
  <2>1. PICK rules : /\ Admissible(ScopeOf(a, admins, policy), Checked(rules))
                     /\ doc' = [doc EXCEPT ![a] = Checked(rules)]
    BY <1>3 DEF PutScope
  <2>2. Checked(rules) # {} => admins # {}
    BY <2>1 DEF Admissible
  <2> QED
    BY <1>3, <2>1, <2>2 DEF PutScope, Supported, PolicyHasEditors, TypeOK
<1>4. ASSUME NEW a \in Callers, Replace(a) PROVE Supported'
  <2>1. Replacement(a) # {} => doc[a] # {} \/ policy # {}
    BY VisibleType DEF Replacement, GrantsOf
  <2> QED
    BY <1>4, <2>1 DEF Replace, Supported, PolicyHasEditors
<1>5. ASSUME Restart PROVE Supported'
  BY <1>5 DEF Restart, Supported, PolicyHasEditors
<1>6. ASSUME UNCHANGED policyVars PROVE Supported'
  BY <1>6 DEF policyVars, Supported, PolicyHasEditors
<1>7. ASSUME NEW a \in Callers, GetRules(a) \/ Conflict(a) \/ ReadBack(a) PROVE Supported'
  BY <1>2, <1>7 DEF GetRules, Conflict, ReadBack
<1> QED
  BY <1>1, <1>3, <1>4, <1>5, <1>6, <1>7 DEF PolicyNext

(* The check before a write and the check at startup leave no policy that    *)
(* nobody could undo.                                                       *)
THEOREM PolicyCanBeUndone == PolicySpec => []PolicyHasEditors
<1>1. PolicyInit => TypeOK /\ Supported
  BY NoScopeType DEF PolicyInit, TypeOK, Supported, PolicyHasEditors
<1>2. TypeOK /\ Supported /\ [PolicyNext]_policyVars => (TypeOK /\ Supported)'
  BY TypeStep, SupportedStep
<1>3. Supported => PolicyHasEditors
  BY DEF Supported
<1> QED
  BY <1>1, <1>2, <1>3, PTL DEF PolicySpec

-----------------------------------------------------------------------------
(* The conditional write compares, under the lock, the very rules it is       *)
(* about to replace (ReplaceAccessPolicy).                                   *)
THEOREM ConditionalWritesLoseNothing == PolicySpec => NoUnseenLoss
<1>1. ASSUME NEW a \in Callers, Replace(a), NEW version \in match[a]
      PROVE  GrantsOf(policy) \ GrantsOf(policy') \subseteq version
  <2>1. version = GrantsOf(Visible(resolved[a], policy))
    BY <1>1 DEF Replace, Precondition, AccessPolicyVersion
  <2>2. ASSUME NEW g \in GrantsOf(policy), g \notin GrantsOf(policy') PROVE g \in version
    <3>1. PICK q \in policy : g = Grant(q)
      BY DEF GrantsOf
    <3>2. CASE q \in Visible(resolved[a], policy)
      BY <2>1, <3>1, <3>2 DEF GrantsOf
    <3>3. CASE q \notin Visible(resolved[a], policy)
      <4>1. g \in Replacement(a)
        BY <3>1, <3>3 DEF Replacement, Hidden, GrantsOf
      <4>2. Row(g, a) \in policy'
        BY <1>1, <4>1 DEF Replace
      <4>3. Grant(Row(g, a)) = g
        BY <3>1 DEF Row, Grant
      <4> QED
        BY <2>2, <4>2, <4>3 DEF GrantsOf
    <3> QED
      BY <3>2, <3>3
  <2> QED
    BY <2>2
<1>2. [PolicyNext]_policyVars => [\A a \in Callers :
        Replace(a) => \A version \in match[a] :
                        GrantsOf(policy) \ GrantsOf(policy') \subseteq version]_policyVars
  BY <1>1
<1> QED
  BY <1>2, PTL DEF PolicySpec, NoUnseenLoss

-----------------------------------------------------------------------------
(* The listing path and the fetch path answer alike.                         *)
LEMMA ListingExact ==
  ASSUME NEW sc \in ScopeType, NEW requested \in SUBSET RulePrefixes
  PROVE  ListingAgrees(sc, requested)
<1> DEFINE wanted == IF requested = {} THEN {Root} ELSE requested
<1>1. Addresses \subseteq Seq(STRING) /\ sc.read \in SUBSET Seq(STRING)
      /\ requested \in SUBSET Seq(STRING)
  BY PrefixesAreSequences, AccessAssumption DEF ScopeType
<1>2. \A id \in Addresses : UnderAny(id, {Root})
  BY <1>1, UnderRoot DEF UnderAny
<1>3. ASSUME NEW id \in Addresses
      PROVE  id \in Listing(sc, Addresses, requested)
               <=> MayRead(sc, id) /\ UnderAny(id, wanted)
  <2>1. CASE ReadsWholeBundle(sc)
    <3>1. MayRead(sc, id)
      BY <1>1, <2>1, UnderRoot DEF ReadsWholeBundle, MayRead, UnderAny
    <3> QED
      BY <2>1, <3>1 DEF Listing
  <2>2. CASE ~ReadsWholeBundle(sc) /\ requested = {}
    BY <1>2, <2>2 DEF Listing, ReadsWholeBundle, MayRead
  <2>3. CASE ~ReadsWholeBundle(sc) /\ requested # {}
    <3>1. id \in Listing(sc, Addresses, requested) <=> UnderAny(id, Intersect(requested, sc.read))
      BY <2>3 DEF Listing
    <3>2. MayRead(sc, id) <=> UnderAny(id, sc.read)
      BY <2>3 DEF MayRead, ReadsWholeBundle
    <3>3. id \in Seq(STRING)
      BY <1>1
    <3> QED
      BY <1>1, <2>3, <3>1, <3>2, <3>3, IntersectExact
  <2> QED
    BY <2>1, <2>2, <2>3
<1>4. \A id \in Addresses : id \in ScopeRows(sc, Addresses) <=> MayRead(sc, id)
  BY DEF ScopeRows, MayRead
<1>5. Listing(sc, Addresses, requested) \subseteq Addresses
  BY DEF Listing
<1> QED
  BY <1>3, <1>4, <1>5 DEF ListingAgrees, ScopeRows

\* An archive holds exactly what its caller may read under the prefix.
LEMMA ArchiveExact ==
  ASSUME NEW sc \in ScopeType, NEW prefix \in RulePrefixes \cup {Root}
  PROVE  ArchiveAgrees(sc, prefix)
<1>1. SUFFICES ASSUME ArchiveAnswer(sc, prefix) = "ok", NEW id \in Addresses, Under(id, prefix)
               PROVE  MayRead(sc, id)
  BY DEF ArchiveAgrees
<1>2. CASE Everything(sc)
  BY <1>2 DEF MayRead
<1>3. CASE ~Everything(sc)
  <2>1. prefix # Root /\ MayRead(sc, prefix)
    BY <1>1, <1>3 DEF ArchiveAnswer
  <2>2. PICK p \in sc.read : Under(prefix, p)
    BY <1>3, <2>1 DEF MayRead, UnderAny
  <2>3. id \in Seq(STRING) /\ prefix \in Seq(STRING) /\ p \in Seq(STRING)
    BY <2>1, <2>2, PrefixesAreSequences, AccessAssumption DEF ScopeType
  <2>4. Under(id, p)
    BY <1>1, <2>2, <2>3, UnderTransitive
  <2> QED
    BY <2>2, <2>4 DEF MayRead, UnderAny
<1> QED
  BY <1>2, <1>3

\* A caller is refused exactly the paths outside the grants.
LEMMA RefusalExact ==
  ASSUME NEW a, NEW list, NEW rows \in SUBSET RowType, NEW id
  PROVE  RefusalAgrees(ScopeOf(a, list, rows), id)
<1> DEFINE sc == ScopeOf(a, list, rows)
<1>1. sc.write \subseteq sc.read
  BY DEF ScopeOf, NoScope
<1>2. MayWrite(sc, id) => MayRead(sc, id)
  BY <1>1 DEF MayWrite, MayRead, UnderAny
<1> QED
  BY <1>2 DEF RefusalAgrees, WriteAnswer

(* Whatever the policy says, a listing, an archive and a refusal tell a       *)
(* caller of no address it could not read (narrow, MayArchive, mayWriteIn).  *)
THEOREM SurfacesAlwaysAgree == PolicySpec => []SurfacesAgree
<1>1. TypeOK => SurfacesAgree
  <2> SUFFICES ASSUME TypeOK, NEW a \in Callers
               PROVE  LET sc == ScopeOf(a, admins, policy) IN
                      /\ \A requested \in SUBSET RulePrefixes : ListingAgrees(sc, requested)
                      /\ \A prefix \in RulePrefixes \cup {Root} : ArchiveAgrees(sc, prefix)
                      /\ \A id \in Addresses : RefusalAgrees(sc, id)
    BY DEF SurfacesAgree
  <2>1. ScopeOf(a, admins, policy) \in ScopeType
    BY ScopeOfType DEF TypeOK
  <2> QED
    BY <2>1, ListingExact, ArchiveExact, RefusalExact DEF TypeOK
<1> QED
  BY <1>1, TypeCorrect, PTL

-----------------------------------------------------------------------------
(* Orders on a finite set, and pages cut from it.                           *)
Orders(R, S) ==
  /\ \A a \in S : <<a, a>> \notin R
  /\ \A a, b, c \in S : <<a, b>> \in R /\ <<b, c>> \in R => <<a, c>> \in R
  /\ \A a, b \in S : a # b => <<a, b>> \in R \/ <<b, a>> \in R

Ahead(R, S, a) == {b \in S : <<b, a>> \in R}
Leading(R, S, n) == {a \in S : Cardinality(Ahead(R, S, a)) < n}

\* A set of numbers that is not empty has a least.
LEMMA LeastNumber ==
  ASSUME NEW S \in SUBSET Nat, S # {}
  PROVE  \E m \in S : \A y \in S : m <= y
<1>1. PICK m \in S : \A y \in S : ~ (<<y, m>> \in OpToRel(<, Nat))
  BY NatLessThanWellFounded, WFMin, Zenon
<1>2. \A y \in S : ~ (y < m)
  BY <1>1 DEF OpToRel
<1>3. \A y \in S : m <= y
  BY <1>2
<1> QED
  BY <1>3

\* Fewer are ahead of one that is ahead of another.
LEMMA RankGrows ==
  ASSUME NEW R, NEW S, IsFiniteSet(S), Orders(R, S), NEW a \in S, NEW b \in S,
         <<a, b>> \in R
  PROVE  /\ Cardinality(Ahead(R, S, a)) \in Nat
         /\ Cardinality(Ahead(R, S, b)) \in Nat
         /\ Cardinality(Ahead(R, S, a)) < Cardinality(Ahead(R, S, b))
<1>1. Ahead(R, S, a) \subseteq Ahead(R, S, b) /\ Ahead(R, S, b) \subseteq S
  BY DEF Orders, Ahead
<1>2. a \in Ahead(R, S, b) /\ a \notin Ahead(R, S, a)
  BY DEF Orders, Ahead
<1>3. IsFiniteSet(Ahead(R, S, b))
  BY <1>1, FS_Subset
<1>4. /\ Cardinality(Ahead(R, S, a)) <= Cardinality(Ahead(R, S, b))
      /\ Cardinality(Ahead(R, S, a)) = Cardinality(Ahead(R, S, b))
           => Ahead(R, S, a) = Ahead(R, S, b)
      /\ IsFiniteSet(Ahead(R, S, a))
  BY <1>1, <1>3, FS_Subset
<1>5. Cardinality(Ahead(R, S, a)) \in Nat /\ Cardinality(Ahead(R, S, b)) \in Nat
  BY <1>3, <1>4, FS_CardinalityType
<1>6. Cardinality(Ahead(R, S, a)) # Cardinality(Ahead(R, S, b))
  BY <1>2, <1>4
<1> QED
  BY <1>4, <1>5, <1>6

\* How many are ahead of one: fewer than there are.
LEMMA RankBounded ==
  ASSUME NEW R, NEW S, IsFiniteSet(S), Orders(R, S), NEW a \in S
  PROVE  /\ Cardinality(Ahead(R, S, a)) \in Nat /\ Cardinality(S) \in Nat
         /\ Cardinality(Ahead(R, S, a)) < Cardinality(S)
<1>1. Ahead(R, S, a) \subseteq S /\ a \notin Ahead(R, S, a)
  BY DEF Ahead, Orders
<1>2. /\ Cardinality(Ahead(R, S, a)) <= Cardinality(S)
      /\ Cardinality(Ahead(R, S, a)) = Cardinality(S) => Ahead(R, S, a) = S
      /\ IsFiniteSet(Ahead(R, S, a))
  BY <1>1, FS_Subset
<1>3. Cardinality(Ahead(R, S, a)) \in Nat /\ Cardinality(S) \in Nat
  BY <1>2, FS_CardinalityType
<1>4. Cardinality(Ahead(R, S, a)) # Cardinality(S)
  BY <1>1, <1>2
<1> QED
  BY <1>2, <1>3, <1>4

\* An ordered finite set that is not empty has a first, and so has any part.
LEMMA HasFirst ==
  ASSUME NEW R, NEW S, IsFiniteSet(S), Orders(R, S), NEW T \in SUBSET S, T # {}
  PROVE  \E a \in T : \A b \in T \ {a} : <<a, b>> \in R
<1> DEFINE rank(a) == Cardinality(Ahead(R, S, a))
           ranks == {rank(a) : a \in T}
<1>1. \A a \in S : rank(a) \in Nat
  BY RankBounded
<1>2. ranks \in SUBSET Nat /\ ranks # {}
  BY <1>1
<1>3. PICK m \in ranks : \A y \in ranks : m <= y
  BY <1>2, LeastNumber
<1>4. PICK a \in T : m = rank(a)
  BY <1>3
<1>5. ASSUME NEW b \in T \ {a}, <<a, b>> \notin R PROVE FALSE
  <2>1. <<b, a>> \in R
    BY <1>5 DEF Orders
  <2>2. rank(b) < rank(a)
    BY <2>1, RankGrows
  <2>3. rank(a) <= rank(b)
    BY <1>3, <1>4
  <2>4. rank(a) \in Nat /\ rank(b) \in Nat
    BY <1>1
  <2> HIDE DEF rank
  <2> QED
    BY <2>2, <2>3, <2>4
<1> QED
  BY <1>5

\* ... and a last.
LEMMA HasLast ==
  ASSUME NEW R, NEW S, IsFiniteSet(S), Orders(R, S), NEW T \in SUBSET S, T # {}
  PROVE  \E a \in T : \A b \in T \ {a} : <<b, a>> \in R
<1> DEFINE back == {p \in S \X S : <<p[2], p[1]>> \in R}
<1>1. Orders(back, S)
  BY DEF Orders
<1>2. \A a, b \in S : <<a, b>> \in back <=> <<b, a>> \in R
  OBVIOUS
<1> HIDE DEF back
<1>3. PICK a \in T : \A b \in T \ {a} : <<a, b>> \in back
  BY <1>1, HasFirst
<1> QED
  BY <1>2, <1>3

\* What is ahead of one of the leading leads too.
LEMMA LeadingClosed ==
  ASSUME NEW R, NEW S, IsFiniteSet(S), Orders(R, S), NEW n \in Nat,
         NEW a \in Leading(R, S, n), NEW b \in S, <<b, a>> \in R
  PROVE  b \in Leading(R, S, n)
<1>1. a \in S /\ Cardinality(Ahead(R, S, a)) < n
  BY DEF Leading
<1>2. /\ Cardinality(Ahead(R, S, b)) < Cardinality(Ahead(R, S, a))
      /\ Cardinality(Ahead(R, S, b)) \in Nat /\ Cardinality(Ahead(R, S, a)) \in Nat
  BY <1>1, RankGrows
<1>3. Cardinality(Ahead(R, S, b)) < n
  BY <1>1, <1>2
<1> QED
  BY <1>3 DEF Leading

\* Where one more than a page is asked for and no more than a page comes, it
\* is everything.
LEMMA LeadingAll ==
  ASSUME NEW R, NEW S, IsFiniteSet(S), Orders(R, S), NEW n \in Nat,
         Cardinality(Leading(R, S, n + 1)) <= n
  PROVE  Leading(R, S, n + 1) = S /\ Leading(R, S, n) = S
<1> DEFINE read == Leading(R, S, n + 1)
<1>1. read \subseteq S /\ IsFiniteSet(read) /\ Cardinality(read) \in Nat
  <2>1. read \subseteq S
    BY DEF Leading
  <2> QED
    BY <2>1, FS_Subset, FS_CardinalityType
<1>2. ASSUME S \ read # {} PROVE FALSE
  <2> DEFINE missing == S \ read
  <2>0. missing \in SUBSET S /\ missing # {}
    BY <1>2
  <2> HIDE DEF missing
  <2>1. PICK a \in missing : \A b \in missing \ {a} : <<a, b>> \in R
    BY <2>0, HasFirst
  <2> USE DEF missing
  <2>2. Ahead(R, S, a) \subseteq read
    BY <2>1 DEF Ahead, Orders
  <2>3. Cardinality(Ahead(R, S, a)) <= Cardinality(read)
    BY <1>1, <2>2, FS_Subset
  <2>4. Cardinality(Ahead(R, S, a)) \in Nat
    BY RankBounded
  <2>5. Cardinality(Ahead(R, S, a)) < n + 1
    BY <1>1, <2>3, <2>4
  <2> QED
    BY <2>1, <2>5 DEF Leading
<1>3. read = S
  BY <1>1, <1>2
<1>4. \A a \in S : Cardinality(Ahead(R, S, a)) < n
  <2> TAKE a \in S
  <2>1. Cardinality(S) <= n
    BY <1>3
  <2>2. /\ Cardinality(Ahead(R, S, a)) \in Nat /\ Cardinality(S) \in Nat
        /\ Cardinality(Ahead(R, S, a)) < Cardinality(S)
    BY RankBounded
  <2> QED
    BY <2>1, <2>2
<1> QED
  BY <1>3, <1>4 DEF Leading

\* The page is the leading n, whether cut from the set or from what was read.
LEMMA PageOfRead ==
  ASSUME NEW R, NEW S, IsFiniteSet(S), Orders(R, S), NEW n \in Nat
  PROVE  Leading(R, Leading(R, S, n + 1), n) = Leading(R, S, n)
<1> DEFINE read == Leading(R, S, n + 1)
<1>1. read \subseteq S
  BY DEF Leading
<1>2. ASSUME NEW a \in read PROVE Ahead(R, read, a) = Ahead(R, S, a)
  <2>1. \A b \in S : <<b, a>> \in R => b \in read
    BY LeadingClosed
  <2> QED
    BY <1>1, <2>1 DEF Ahead
<1>3. Leading(R, S, n) \subseteq read
  <2> SUFFICES ASSUME NEW a \in S, Cardinality(Ahead(R, S, a)) < n
               PROVE  Cardinality(Ahead(R, S, a)) < n + 1
    BY DEF Leading
  <2>1. Cardinality(Ahead(R, S, a)) \in Nat
    BY RankBounded
  <2> QED
    BY <2>1
<1> HIDE DEF read
<1>4. ASSUME NEW a \in Leading(R, read, n) PROVE a \in Leading(R, S, n)
  <2>1. a \in read /\ Cardinality(Ahead(R, read, a)) < n
    BY DEF Leading
  <2> QED
    BY <1>1, <1>2, <2>1 DEF Leading
<1>5. ASSUME NEW a \in Leading(R, S, n) PROVE a \in Leading(R, read, n)
  <2>1. a \in read /\ Cardinality(Ahead(R, S, a)) < n
    BY <1>3 DEF Leading
  <2> QED
    BY <1>2, <2>1 DEF Leading
<1> QED
  BY <1>4, <1>5 DEF read

\* A page ends at its last: what is not on it comes after.
LEMMA PageEnds ==
  ASSUME NEW R, NEW S, IsFiniteSet(S), Orders(R, S), NEW n \in Nat \ {0},
         NEW page, page = Leading(R, S, n), S # {}
  PROVE  /\ \E last \in page : \A b \in page \ {last} : <<b, last>> \in R
         /\ \A last \in page :
              (\A b \in page \ {last} : <<b, last>> \in R)
                => \A b \in S : b \in page <=> b = last \/ <<b, last>> \in R
<1>1. page \subseteq S
  BY DEF Leading
<1>2. page # {}
  <2>1. PICK a \in S : \A b \in S \ {a} : <<a, b>> \in R
    BY HasFirst
  <2>2. Ahead(R, S, a) = {}
    BY <2>1 DEF Ahead, Orders
  <2>3. Cardinality(Ahead(R, S, a)) < n
    BY <2>2, FS_EmptySet
  <2> QED
    BY <2>3 DEF Leading
<1>3. \A a \in page, b \in S : <<b, a>> \in R => b \in page
  BY LeadingClosed
<1>4. \A T \in SUBSET S : T # {} => \E a \in T : \A b \in T \ {a} : <<b, a>> \in R
  BY HasLast
<1>5. \E last \in page : \A b \in page \ {last} : <<b, last>> \in R
  BY <1>1, <1>2, <1>4
<1>6. ASSUME NEW last \in page, \A b \in page \ {last} : <<b, last>> \in R, NEW b \in S
      PROVE  b \in page <=> b = last \/ <<b, last>> \in R
  BY <1>3, <1>6
<1> QED
  BY <1>5, <1>6

-----------------------------------------------------------------------------
(* The order of a listing: its columns, then the address.                   *)
ColumnsOK(c) ==
  /\ Len(c) \in Nat
  /\ \A i \in 1..Len(c) : c[i].desc \in BOOLEAN /\ c[i].null \in BOOLEAN
                          /\ (c[i].null => ~c[i].desc)

\* Values a row of a listing may have in its columns.
Fits(c, x) ==
  /\ Len(x) = Len(c)
  /\ \A i \in 1..Len(c) : x[i] \in Nat \/ (c[i].null /\ x[i] = None)

Lexically(c, x, i, y, j) ==
  \E m \in 1..Len(c) + 1 :
    /\ \A k \in 1..m - 1 : x[k] = y[k]
    /\ IF m > Len(c) THEN i < j ELSE Sooner(c[m], x[m], y[m])

\* A column tells any two values apart one way, and consistently.
LEMMA ColumnOrders ==
  ASSUME NEW c, ColumnsOK(c), NEW m \in 1..Len(c),
         NEW x, NEW y, NEW z, Fits(c, x), Fits(c, y), Fits(c, z)
  PROVE  /\ ~Sooner(c[m], x[m], x[m])
         /\ Sooner(c[m], x[m], y[m]) /\ Sooner(c[m], y[m], z[m]) => Sooner(c[m], x[m], z[m])
         /\ x[m] # y[m] => Sooner(c[m], x[m], y[m]) \/ Sooner(c[m], y[m], x[m])
<1>1. /\ x[m] \in Nat \/ (c[m].null /\ x[m] = None)
      /\ y[m] \in Nat \/ (c[m].null /\ y[m] = None)
      /\ z[m] \in Nat \/ (c[m].null /\ z[m] = None)
  BY DEF Fits
<1>2. c[m].desc \in BOOLEAN /\ c[m].null \in BOOLEAN /\ (c[m].null => ~c[m].desc)
  BY DEF ColumnsOK
<1>3. None \notin Nat
  BY RowsAssumption
<1> QED
  BY <1>1, <1>2, <1>3 DEF Sooner

\* No row comes before itself.
LEMMA LexicallyIrreflexive ==
  ASSUME NEW c, ColumnsOK(c), NEW x, Fits(c, x), NEW i \in Nat
  PROVE  ~Lexically(c, x, i, x, i)
<1> SUFFICES ASSUME NEW m \in 1..Len(c) + 1,
                    IF m > Len(c) THEN i < i ELSE Sooner(c[m], x[m], x[m])
             PROVE  FALSE
  BY DEF Lexically
<1>1. Len(c) \in Nat
  BY DEF ColumnsOK
<1>2. m \in 1..Len(c)
  BY <1>1
<1> QED
  BY <1>2, ColumnOrders

\* The order of a listing's columns, ties broken by id, is transitive.
LEMMA LexicallyTransitive ==
  ASSUME NEW c, ColumnsOK(c), NEW x, NEW y, NEW z, Fits(c, x), Fits(c, y), Fits(c, z),
         NEW i \in Nat, NEW j \in Nat, NEW k \in Nat,
         Lexically(c, x, i, y, j), Lexically(c, y, j, z, k)
  PROVE  Lexically(c, x, i, z, k)
<1>0. Len(c) \in Nat
  BY DEF ColumnsOK
<1>1. PICK m \in 1..Len(c) + 1 :
        /\ \A l \in 1..m - 1 : x[l] = y[l]
        /\ IF m > Len(c) THEN i < j ELSE Sooner(c[m], x[m], y[m])
  BY DEF Lexically
<1>2. PICK n \in 1..Len(c) + 1 :
        /\ \A l \in 1..n - 1 : y[l] = z[l]
        /\ IF n > Len(c) THEN j < k ELSE Sooner(c[n], y[n], z[n])
  BY DEF Lexically
<1>3. CASE m < n
  <2>1. \A l \in 1..m - 1 : x[l] = z[l]
    BY <1>0, <1>1, <1>2, <1>3
  <2>2. m \in 1..Len(c) /\ y[m] = z[m]
    BY <1>0, <1>2, <1>3
  <2>3. Sooner(c[m], x[m], z[m])
    BY <1>0, <1>1, <2>2
  <2>4. ~(m > Len(c))
    BY <1>0, <2>2
  <2> QED
    BY <2>1, <2>3, <2>4 DEF Lexically
<1>4. CASE n < m
  <2>1. \A l \in 1..n - 1 : x[l] = z[l]
    BY <1>0, <1>1, <1>2, <1>4
  <2>2. n \in 1..Len(c) /\ x[n] = y[n]
    BY <1>0, <1>1, <1>4
  <2>3. Sooner(c[n], x[n], z[n])
    BY <1>0, <1>2, <2>2
  <2>4. ~(n > Len(c))
    BY <1>0, <2>2
  <2> QED
    BY <2>1, <2>3, <2>4 DEF Lexically
<1>5. CASE m = n
  <2>1. \A l \in 1..m - 1 : x[l] = z[l]
    BY <1>0, <1>1, <1>2, <1>5
  <2>2. CASE m > Len(c)
    <3>1. i < k
      BY <1>1, <1>2, <1>5, <2>2
    <3> QED
      BY <2>1, <2>2, <3>1 DEF Lexically
  <2>3. CASE ~(m > Len(c))
    <3>1. m \in 1..Len(c)
      BY <1>0, <2>3
    <3>2. Sooner(c[m], x[m], y[m]) /\ Sooner(c[m], y[m], z[m])
      BY <1>1, <1>2, <1>5, <2>3
    <3>3. Sooner(c[m], x[m], z[m])
      BY <3>1, <3>2, ColumnOrders
    <3> QED
      BY <2>1, <2>3, <3>3 DEF Lexically
  <2> QED
    BY <2>2, <2>3
<1> QED
  BY <1>0, <1>3, <1>4, <1>5

\* Of two rows one comes first.
LEMMA LexicallyTotal ==
  ASSUME NEW c, ColumnsOK(c), NEW x, NEW y, Fits(c, x), Fits(c, y),
         NEW i \in Nat, NEW j \in Nat, i # j
  PROVE  Lexically(c, x, i, y, j) \/ Lexically(c, y, j, x, i)
<1> DEFINE apart == {m \in 1..Len(c) : x[m] # y[m]}
<1>0. Len(c) \in Nat
  BY DEF ColumnsOK
<1>1. CASE apart = {}
  <2>1. \A k \in 1..(Len(c) + 1) - 1 : x[k] = y[k]
    BY <1>0, <1>1
  <2>2. Len(c) + 1 \in 1..Len(c) + 1 /\ Len(c) + 1 > Len(c)
    BY <1>0
  <2>3. i < j \/ j < i
    OBVIOUS
  <2> QED
    BY <2>1, <2>2, <2>3 DEF Lexically
<1>2. CASE apart # {}
  <2>1. apart \in SUBSET Nat
    BY <1>0
  <2>2. PICK m \in apart : \A l \in apart : m <= l
    BY <1>2, <2>1, LeastNumber
  <2>3. m \in 1..Len(c) + 1 /\ m \in 1..Len(c) /\ ~(m > Len(c)) /\ x[m] # y[m]
    BY <1>0, <2>2
  <2>4. \A k \in 1..m - 1 : x[k] = y[k]
    BY <1>0, <2>2, <2>3
  <2>5. Sooner(c[m], x[m], y[m]) \/ Sooner(c[m], y[m], x[m])
    BY <2>3, ColumnOrders
  <2> QED
    BY <2>3, <2>4, <2>5 DEF Lexically
<1> QED
  BY <1>1, <1>2

\* keysetAfter asks for what comes later in the very order of the pages.
LEMMA KeysetIsLater ==
  ASSUME NEW sort, NEW keys, NEW last \in Nat, NEW id \in Nat,
         ColumnsOK(Columns(sort)), Fits(Columns(sort), keys),
         Fits(Columns(sort), Values(sort, id))
  PROVE  KeysetAfter(sort, keys, last, id)
           <=> Lexically(Columns(sort), keys, last, Values(sort, id), id)
<1> DEFINE c == Columns(sort)
           v == Values(sort, id)
<1>0. Len(c) \in Nat
  BY DEF ColumnsOK
<1>1. ASSUME NEW m \in 1..Len(c) + 1
      PROVE  (/\ \A k \in 1..m - 1 : v[k] = keys[k]
              /\ IF m > Len(c) THEN id > last
                 ELSE /\ keys[m] # None
                      /\ IF c[m].desc THEN v[m] < keys[m]
                         ELSE IF v[m] = None THEN c[m].null ELSE v[m] > keys[m])
             <=> (/\ \A k \in 1..m - 1 : keys[k] = v[k]
                  /\ IF m > Len(c) THEN last < id ELSE Sooner(c[m], keys[m], v[m]))
  <2>1. CASE m > Len(c)
    BY <2>1
  <2>2. CASE ~(m > Len(c))
    <3>1. m \in 1..Len(c)
      BY <1>0, <2>2
    <3>2. /\ keys[m] \in Nat \/ (c[m].null /\ keys[m] = None)
          /\ v[m] \in Nat \/ (c[m].null /\ v[m] = None)
      BY <3>1 DEF Fits
    <3>3. c[m].desc \in BOOLEAN /\ c[m].null \in BOOLEAN /\ (c[m].null => ~c[m].desc)
      BY <3>1 DEF ColumnsOK
    <3> HIDE DEF c, v
    <3>4. (/\ keys[m] # None
           /\ IF c[m].desc THEN v[m] < keys[m]
              ELSE IF v[m] = None THEN c[m].null ELSE v[m] > keys[m])
          <=> Sooner(c[m], keys[m], v[m])
      BY <3>2, <3>3, RowsAssumption DEF Sooner
    <3> QED
      BY <2>2, <3>4
  <2> QED
    BY <2>1, <2>2
<1> QED
  BY <1>1 DEF KeysetAfter, Lexically

-----------------------------------------------------------------------------
(* Rows, and what others make of them.                                      *)
RowsTyped ==
  /\ row \in [Ids -> ConceptRow]
  /\ now \in Nat /\ stored \subseteq Files /\ scope \in SUBSET Seq(STRING)

\* The newest of some times is a time.
LEMMA RecentType == ASSUME NEW times \in Seq(Nat) PROVE Recent(times) \in Nat
<1>1. Len(times) \in Nat
  OBVIOUS
<1>2. IsFiniteSet(1..Len(times))
  BY <1>1, FS_Interval
<1>3. IsFiniteSet({i \in 1..Len(times) : times[i] + Window >= now})
  BY <1>2, FS_Subset
<1> QED
  BY <1>3, FS_CardinalityType DEF Recent

\* A row's newest verification is a time or none.
LEMMA LastVerifiedType ==
  ASSUME NEW r \in ConceptRow PROVE LastVerified(r) \in Nullable
BY DEF ConceptRow, LastVerified, Later, Nullable

\* Every listing orders by columns the lemmas above speak of.
LEMMA ColumnsFine == ASSUME NEW sort PROVE ColumnsOK(Columns(sort))
<1> DEFINE Fine(c) == c.desc \in BOOLEAN /\ c.null \in BOOLEAN /\ (c.null => ~c.desc)
<1>0. Fine(Ascending) /\ Fine(Descending) /\ Fine(NullsLast)
  BY DEF Ascending, Descending, NullsLast
<1> HIDE DEF Fine
<1>1. Len(Columns(sort)) \in Nat /\ \A i \in 1..Len(Columns(sort)) : Fine(Columns(sort)[i])
  <2>1. CASE sort = "verified_at"
    BY <1>0, <2>1 DEF Columns
  <2>2. CASE sort = "stale_after"
    BY <1>0, <2>2 DEF Columns
  <2>3. CASE sort = "usage"
    BY <1>0, <2>3 DEF Columns
  <2>4. CASE sort = "failed"
    BY <1>0, <2>4 DEF Columns
  <2>5. CASE sort \notin {"verified_at", "stale_after", "usage", "failed"}
    BY <2>5 DEF Columns
  <2> QED
    BY <2>1, <2>2, <2>3, <2>4, <2>5
<1> QED
  BY <1>1 DEF ColumnsOK, Fine

\* What a listing holds has values in its columns.
LEMMA ValuesFit ==
  ASSUME RowsTyped, NEW sort, NEW id \in Ids, InFeed(sort, id)
  PROVE  Fits(Columns(sort), Values(sort, id))
<1> DEFINE r == row[id]
<1>1. r \in ConceptRow
  BY DEF RowsTyped
<1>2. /\ r.stale \in Nullable /\ r.created \in Nat /\ r.worked \in Nat
      /\ r.fetched \in Seq(Nat) /\ r.failed \in Seq(Nat)
  BY <1>1 DEF ConceptRow
<1>3. LastVerified(r) \in Nat \cup {None}
  BY <1>1, LastVerifiedType DEF Nullable
<1>4. /\ Recent(r.fetched) \in Nat /\ Recent(r.failed) \in Nat
      /\ Len(r.fetched) \in Nat /\ Len(r.failed) \in Nat
  BY <1>2, RecentType
<1> HIDE DEF r
<1>5. CASE sort = "verified_at"
  <2>1. Values(sort, id) = <<LastVerified(r)>> /\ Columns(sort) = <<NullsLast>>
    BY <1>5 DEF Values, Columns, r
  <2> QED
    BY <1>3, <2>1 DEF Fits, NullsLast
<1>6. CASE sort = "stale_after"
  <2>1. Values(sort, id) = <<r.stale>> /\ Columns(sort) = <<Ascending>>
    BY <1>6 DEF Values, Columns, r
  <2>2. r.stale \in Nat
    BY <1>2, <1>6 DEF InFeed, PastExpiry, Nullable, r
  <2> QED
    BY <2>1, <2>2 DEF Fits
<1>7. CASE sort = "usage"
  <2>1. /\ Values(sort, id) = <<Recent(r.fetched), Len(r.fetched), r.created>>
        /\ Columns(sort) = <<Descending, Descending, Ascending>>
    BY <1>7 DEF Values, Columns, r
  <2> QED
    BY <1>2, <1>4, <2>1 DEF Fits
<1>8. CASE sort = "failed"
  <2>1. /\ Values(sort, id) = <<Recent(r.failed), Len(r.failed), r.worked, LastVerified(r)>>
        /\ Columns(sort) = <<Descending, Descending, Ascending, NullsLast>>
    BY <1>8 DEF Values, Columns, r
  <2> QED
    <3> DEFINE c == Columns(sort)
               v == Values(sort, id)
    <3>1. NullsLast.null
      BY DEF NullsLast
    <3>2. /\ Len(c) = 4 /\ Len(v) = 4 /\ c[4] = NullsLast
          /\ v[1] \in Nat /\ v[2] \in Nat /\ v[3] \in Nat /\ v[4] \in Nat \cup {None}
      BY <1>2, <1>3, <1>4, <2>1
    <3> HIDE DEF c, v
    <3>3. Fits(c, v)
      BY <3>1, <3>2 DEF Fits
    <3> QED
      BY <3>3 DEF c, v
<1>9. CASE sort \notin {"verified_at", "stale_after", "usage", "failed"}
  <2>1. Values(sort, id) = << >> /\ Columns(sort) = << >>
    BY <1>9 DEF Values, Columns
  <2> QED
    BY <2>1 DEF Fits
<1> QED
  BY <1>5, <1>6, <1>7, <1>8, <1>9

\* The listings' cursors are exact where every expiry is a whole second.
WholeSecond(t) == (t \div Second) * Second = t
WholeSeconds ==
  /\ \A t \in Instants : WholeSecond(t)
  /\ \A b \in Bases : \A id \in Ids : b.row[id].stale # None => WholeSecond(b.row[id].stale)
RowsWhole == \A id \in Ids : row[id].stale # None => WholeSecond(row[id].stale)

\* The changes of a row.
LEMMA RowChanges ==
  ASSUME NEW r \in ConceptRow, NEW t \in Nat, NEW stale \in Nullable
  PROVE  /\ [r EXCEPT !.state = "live", !.status = "draft",
                      !.changed = t, !.created = t] \in ConceptRow
         /\ [r EXCEPT !.state = "deleted"] \in ConceptRow
         /\ [r EXCEPT !.human = t] \in ConceptRow
         /\ [r EXCEPT !.machine = t] \in ConceptRow
         /\ [r EXCEPT !.stale = stale, !.changed = t] \in ConceptRow
         /\ [r EXCEPT !.fetched = Append(@, t)] \in ConceptRow
         /\ [r EXCEPT !.worked = @ + 1] \in ConceptRow
         /\ [r EXCEPT !.failed = Append(@, t)] \in ConceptRow
<1>1. [r EXCEPT !.state = "live", !.status = "draft", !.changed = t, !.created = t] \in ConceptRow
  <2> DEFINE r1 == [r EXCEPT !.state = "live"]
             r2 == [r1 EXCEPT !.status = "draft"]
             r3 == [r2 EXCEPT !.changed = t]
             r4 == [r3 EXCEPT !.created = t]
  <2>1. r1 \in ConceptRow
    BY DEF ConceptRow
  <2> HIDE DEF r1
  <2>2. r2 \in ConceptRow
    BY <2>1 DEF ConceptRow
  <2> HIDE DEF r2
  <2>3. r3 \in ConceptRow
    BY <2>2 DEF ConceptRow
  <2> HIDE DEF r3
  <2>4. r4 \in ConceptRow
    BY <2>3 DEF ConceptRow
  <2> QED
    BY <2>4 DEF r1, r2, r3
<1>2. [r EXCEPT !.state = "deleted"] \in ConceptRow
  BY DEF ConceptRow
<1>3. t \in Nullable
  BY DEF Nullable
<1>4. [r EXCEPT !.human = t] \in ConceptRow
  BY <1>3 DEF ConceptRow
<1>5. [r EXCEPT !.machine = t] \in ConceptRow
  BY <1>3 DEF ConceptRow
<1>6. [r EXCEPT !.stale = stale, !.changed = t] \in ConceptRow
  BY DEF ConceptRow
<1>7. r.fetched \in Seq(Nat) /\ r.failed \in Seq(Nat) /\ r.worked \in Nat
  BY DEF ConceptRow
<1>8. Append(r.fetched, t) \in Seq(Nat) /\ Append(r.failed, t) \in Seq(Nat)
      /\ r.worked + 1 \in Nat
  BY <1>7
<1>9. [r EXCEPT !.fetched = Append(@, t)] \in ConceptRow
  BY <1>8 DEF ConceptRow
<1>10. [r EXCEPT !.worked = @ + 1] \in ConceptRow
  BY <1>8 DEF ConceptRow
<1>11. [r EXCEPT !.failed = Append(@, t)] \in ConceptRow
  BY <1>8 DEF ConceptRow
<1> QED
  BY <1>1, <1>2, <1>4, <1>5, <1>6, <1>9, <1>10, <1>11

\* No expiry is a value the column may hold.
LEMMA NoExpiry == None \in Nullable
BY DEF Nullable

\* A row written well typed leaves all of them so.
LEMMA CommitKeeps ==
  ASSUME RowsTyped, NEW id \in Ids, NEW r \in ConceptRow, Written(id, r), UNCHANGED now
  PROVE  RowsTyped'
BY DEF RowsTyped, Written

\* Writes and the passing of time keep the rows typed.
LEMMA RowsStep ==
  ASSUME RowsTyped, Write \/ Tick
  PROVE  RowsTyped'
<1>0. ASSUME NEW id \in Ids PROVE row[id] \in ConceptRow /\ now \in Nat
  BY DEF RowsTyped
<1>1. ASSUME NEW id \in Ids, Create(id), UNCHANGED now PROVE RowsTyped'
  <2>1. [row[id] EXCEPT !.state = "live", !.status = "draft",
                        !.changed = now, !.created = now] \in ConceptRow
    BY <1>0, NoExpiry, RowChanges, Zenon
  <2> QED
    BY <1>1, <2>1, CommitKeeps DEF Create
<1>2. ASSUME NEW id \in Ids, Delete(id), UNCHANGED now PROVE RowsTyped'
  <2>1. [row[id] EXCEPT !.state = "deleted"] \in ConceptRow
    BY <1>0 DEF ConceptRow
  <2> QED
    BY <1>2, <2>1, CommitKeeps DEF Delete
<1>3. ASSUME NEW id \in Ids, Verify(id), UNCHANGED now PROVE RowsTyped'
  <2> DEFINE at == IF now > row[id].changed THEN now ELSE row[id].changed
  <2>1. PICK kind \in Anyone : Written(id, [row[id] EXCEPT ![kind] = at])
    BY <1>3 DEF Verify
  <2>2. row[id] \in ConceptRow /\ at \in Nat
    BY <1>0 DEF ConceptRow
  <2> HIDE DEF at
  <2>3. CASE kind = "human"
    <3>1. [row[id] EXCEPT !["human"] = at] \in ConceptRow
      BY <2>2 DEF ConceptRow, Nullable
    <3> QED
      BY <1>3, <2>1, <2>3, <3>1, CommitKeeps
  <2>4. CASE kind = "machine"
    <3>1. [row[id] EXCEPT !["machine"] = at] \in ConceptRow
      BY <2>2 DEF ConceptRow, Nullable
    <3> QED
      BY <1>3, <2>1, <2>4, <3>1, CommitKeeps
  <2> QED
    BY <2>3, <2>4 DEF Anyone
<1>4. ASSUME NEW id \in Ids, Edit(id), UNCHANGED now PROVE RowsTyped'
  <2> DEFINE at == IF LastVerified(row[id]) # None /\ LastVerified(row[id]) >= now
                   THEN LastVerified(row[id]) + 1 ELSE now
  <2>1. PICK stale \in Instants \cup {None} :
          Written(id, [row[id] EXCEPT !.stale = stale, !.changed = at])
    BY <1>4, Zenon DEF Edit
  <2>2. row[id] \in ConceptRow /\ at \in Nat
    BY <1>0, LastVerifiedType DEF Nullable
  <2>3. stale \in Nullable
    BY RowsAssumption DEF Nullable
  <2> HIDE DEF at
  <2>4. [row[id] EXCEPT !.stale = stale, !.changed = at] \in ConceptRow
    BY <2>2, <2>3 DEF ConceptRow
  <2> QED
    BY <1>4, <2>1, <2>4, CommitKeeps
<1>5. ASSUME NEW id \in Ids, Use(id), UNCHANGED now PROVE RowsTyped'
  <2>1. /\ [row[id] EXCEPT !.fetched = Append(@, now)] \in ConceptRow
        /\ [row[id] EXCEPT !.worked = @ + 1] \in ConceptRow
        /\ [row[id] EXCEPT !.failed = Append(@, now)] \in ConceptRow
    BY <1>0, NoExpiry, RowChanges, Zenon
  <2> QED
    BY <1>5, <2>1, CommitKeeps DEF Use
<1>6. ASSUME StoreFile \/ RemoveFile \/ Regrant, UNCHANGED now PROVE RowsTyped'
  BY <1>6, RowsAssumption DEF StoreFile, RemoveFile, Regrant, RowsTyped
<1>7. ASSUME Tick PROVE RowsTyped'
  BY <1>7 DEF Tick, RowsTyped
<1> QED
  BY <1>1, <1>2, <1>3, <1>4, <1>5, <1>6, <1>7 DEF Write

\* Only an edit touches the expiry.
LEMMA ExpiryKept ==
  ASSUME NEW r \in ConceptRow, NEW t
  PROVE  /\ [r EXCEPT !.state = "live", !.status = "draft",
                      !.changed = t, !.created = t].stale = r.stale
         /\ [r EXCEPT !.state = "deleted"].stale = r.stale
         /\ [r EXCEPT !.human = t].stale = r.stale
         /\ [r EXCEPT !.machine = t].stale = r.stale
         /\ [r EXCEPT !.fetched = Append(@, t)].stale = r.stale
         /\ [r EXCEPT !.worked = @ + 1].stale = r.stale
         /\ [r EXCEPT !.failed = Append(@, t)].stale = r.stale
BY DEF ConceptRow

\* Writes keep every expiry a whole second where the payloads do.
LEMMA WholeStep ==
  ASSUME WholeSeconds, RowsTyped, RowsWhole, Write \/ Tick
  PROVE  RowsWhole'
<1>0. ASSUME NEW id \in Ids
      PROVE  row[id] \in ConceptRow /\ (row[id].stale # None => WholeSecond(row[id].stale))
  BY DEF RowsTyped, RowsWhole
<1>1. ASSUME NEW id \in Ids, NEW r, Written(id, r), r.stale # None => WholeSecond(r.stale)
      PROVE  RowsWhole'
  BY <1>1 DEF Written, RowsWhole, RowsTyped
<1>2. ASSUME NEW id \in Ids, NEW r, Written(id, r), r.stale = row[id].stale
      PROVE  RowsWhole'
  BY <1>0, <1>1, <1>2
<1>3. ASSUME NEW id \in Ids, Create(id) \/ Delete(id) PROVE RowsWhole'
  BY <1>0, <1>2, <1>3, ExpiryKept DEF Create, Delete
<1>4. ASSUME NEW id \in Ids, Verify(id) PROVE RowsWhole'
  <2> DEFINE at == IF now > row[id].changed THEN now ELSE row[id].changed
  <2>1. PICK kind \in Anyone : Written(id, [row[id] EXCEPT ![kind] = at])
    BY <1>4 DEF Verify
  <2> HIDE DEF at
  <2>2. CASE kind = "human"
    BY <1>0, <1>2, <2>1, <2>2, ExpiryKept
  <2>3. CASE kind = "machine"
    BY <1>0, <1>2, <2>1, <2>3, ExpiryKept
  <2> QED
    BY <2>2, <2>3 DEF Anyone
<1>5. ASSUME NEW id \in Ids, Use(id) PROVE RowsWhole'
  BY <1>0, <1>2, <1>5, ExpiryKept DEF Use
<1>6. ASSUME NEW id \in Ids, Edit(id) PROVE RowsWhole'
  <2> DEFINE at == IF LastVerified(row[id]) # None /\ LastVerified(row[id]) >= now
                   THEN LastVerified(row[id]) + 1 ELSE now
  <2>1. PICK stale \in Instants \cup {None} :
          Written(id, [row[id] EXCEPT !.stale = stale, !.changed = at])
    BY <1>6, Zenon DEF Edit
  <2> HIDE DEF at
  <2>2. [row[id] EXCEPT !.stale = stale, !.changed = at].stale = stale
    BY <1>0 DEF ConceptRow
  <2>3. stale # None => WholeSecond(stale)
    BY DEF WholeSeconds
  <2> QED
    BY <1>1, <2>1, <2>2, <2>3
<1>7. ASSUME UNCHANGED row PROVE RowsWhole'
  BY <1>7 DEF RowsWhole
<1> QED
  BY <1>3, <1>4, <1>5, <1>6, <1>7 DEF Write, Tick, StoreFile, RemoveFile, Regrant

-----------------------------------------------------------------------------
(* One page of a listing.                                                   *)

\* What a page may be drawn from.
Remaining(sort, f, cursor) ==
  {id \in Ids : /\ Matches(id, f) /\ InFeed(sort, id)
                /\ \/ cursor = NoCursor
                   \/ KeysetAfter(sort, cursor.keys, cursor.id, id)}
InOrder(sort) == {p \in Ids \X Ids : Precedes(sort, p[1], p[2])}
LaterIn(sort, a, b) == Lexically(Columns(sort), Values(sort, a), a, Values(sort, b), b)

\* What a page compares is the order of the listing.
LEMMA PrecedesIsLexical ==
  ASSUME NEW sort, NEW a, NEW b PROVE Precedes(sort, a, b) <=> LaterIn(sort, a, b)
BY DEF Precedes, Lexically, LaterIn

\* What a cursor leaves is finitely many rows in one order.
LEMMA RemainingOrdered ==
  ASSUME RowsTyped, NEW sort, NEW f, NEW cursor
  PROVE  LET S == Remaining(sort, f, cursor) IN
         /\ S \subseteq Ids /\ IsFiniteSet(S) /\ Orders(InOrder(sort), S)
         /\ \A a \in S : Fits(Columns(sort), Values(sort, a))
<1> DEFINE S == Remaining(sort, f, cursor)
<1>1. S \subseteq Ids /\ \A a \in S : InFeed(sort, a)
  BY DEF Remaining
<1>2. IsFiniteSet(S)
  BY <1>1, RowsAssumption, FS_Subset
<1>3. \A a \in S : Fits(Columns(sort), Values(sort, a)) /\ a \in Nat /\ a \in Ids
  BY <1>1, ValuesFit, RowsAssumption
<1> HIDE DEF S
<1>4. \A a, b \in S : <<a, b>> \in InOrder(sort) <=> LaterIn(sort, a, b)
  BY <1>3, PrecedesIsLexical DEF InOrder
<1>5. \A a \in S : ~LaterIn(sort, a, a)
  BY <1>3, ColumnsFine, LexicallyIrreflexive DEF LaterIn
<1>6. ASSUME NEW a \in S, NEW b \in S, NEW c \in S, LaterIn(sort, a, b), LaterIn(sort, b, c)
      PROVE  LaterIn(sort, a, c)
  BY <1>3, <1>6, ColumnsFine, LexicallyTransitive DEF LaterIn
<1>7. ASSUME NEW a \in S, NEW b \in S, a # b PROVE LaterIn(sort, a, b) \/ LaterIn(sort, b, a)
  BY <1>3, <1>7, ColumnsFine, LexicallyTotal DEF LaterIn
<1>8. Orders(InOrder(sort), S)
  BY <1>4, <1>5, <1>6, <1>7 DEF Orders
<1> QED
  BY <1>1, <1>2, <1>3, <1>8 DEF S

\* A page of a listing is the rows that lead; when there are more, its cursor is
\* the last of them.
LEMMA ListGives ==
  ASSUME RowsTyped, NEW sort, NEW f, NEW cursor, NEW limit \in Nat \ {0}
  PROVE  LET page == List(sort, f, cursor, limit)
             S == Remaining(sort, f, cursor)
         IN /\ page.dirs = {} /\ page.given \subseteq S
            /\ \/ page.cursor = NoCursor /\ page.given = S
               \/ \E last \in S :
                    /\ page.cursor = [sort |-> sort, id |-> last,
                                      keys |-> Rendered(sort, Values(sort, last))]
                    /\ \A b \in S : b \in page.given <=> ~LaterIn(sort, last, b)
<1> DEFINE page == List(sort, f, cursor, limit)
           S == Remaining(sort, f, cursor)
           R == InOrder(sort)
           read == Leading(R, S, limit + 1)
           given == Leading(R, read, limit)
           last == CHOOSE a \in given : \A b \in given \ {a} : <<b, a>> \in R
<1>1. /\ S \subseteq Ids /\ IsFiniteSet(S) /\ Orders(R, S)
      /\ \A a \in S : Fits(Columns(sort), Values(sort, a))
  BY RemainingOrdered
<1>2. \A a, b \in Ids : Precedes(sort, a, b) <=> <<a, b>> \in R
  BY DEF InOrder
<1>3. read \subseteq S /\ given \subseteq read
  BY DEF Leading
<1>4. page = [given |-> given, dirs |-> {},
              cursor |-> IF Cardinality(read) <= limit THEN NoCursor
                         ELSE [sort |-> sort, keys |-> Rendered(sort, Values(sort, last)),
                               id |-> last]]
  <2> DEFINE Before(a, b) == Precedes(sort, a, b)
  <2>1. read = {a \in S : Cardinality({b \in S : Precedes(sort, b, a)}) < limit + 1}
    <3>1. \A a \in S : {b \in S : Precedes(sort, b, a)} = Ahead(R, S, a)
      BY <1>1, <1>2 DEF Ahead
    <3> QED
      BY <3>1 DEF Leading
  <2>2. given = {a \in read : Cardinality({b \in read : Precedes(sort, b, a)}) < limit}
    <3>1. \A a \in read : {b \in read : Precedes(sort, b, a)} = Ahead(R, read, a)
      BY <1>1, <1>2, <1>3 DEF Ahead
    <3> QED
      BY <3>1 DEF Leading
  <2>3. last = CHOOSE a \in given : \A b \in given \ {a} : Precedes(sort, b, a)
    <3>1. \A a \in given : (\A b \in given \ {a} : Precedes(sort, b, a))
                             <=> (\A b \in given \ {a} : <<b, a>> \in R)
      BY <1>1, <1>2, <1>3
    <3> QED
      BY <3>1
  <2> QED
    BY <2>1, <2>2, <2>3 DEF List, First, LastOf, Remaining
<1> HIDE DEF page, S, R
<1>5. given = Leading(R, S, limit)
  BY <1>1, PageOfRead
<1>6. given \subseteq S
  BY <1>3
<1>7. CASE Cardinality(read) <= limit
  <2>1. given = S
    BY <1>1, <1>5, <1>7, LeadingAll
  <2> QED
    BY <1>4, <1>7, <2>1 DEF page, S
<1>8. CASE ~(Cardinality(read) <= limit)
  <2>1. S # {}
    <3>1. SUFFICES ASSUME S = {} PROVE FALSE
      OBVIOUS
    <3>2. read = {}
      BY <1>3, <3>1
    <3> QED
      BY <1>8, <3>2, FS_EmptySet
  <2> HIDE DEF read, given
  <2>2. /\ \E a \in given : \A b \in given \ {a} : <<b, a>> \in R
        /\ \A a \in given : (\A b \in given \ {a} : <<b, a>> \in R)
                              => \A b \in S : b \in given <=> b = a \/ <<b, a>> \in R
    BY <1>1, <1>5, <2>1, PageEnds
  <2>3. last \in given /\ \A b \in given \ {last} : <<b, last>> \in R
    BY <2>2
  <2> HIDE DEF last
  <2>4. \A b \in S : b \in given <=> b = last \/ <<b, last>> \in R
    BY <2>2, <2>3
  <2>5. last \in S
    BY <1>6, <2>3
  <2>6. \A b \in S : (b = last \/ <<b, last>> \in R) <=> <<last, b>> \notin R
    BY <1>1, <2>5 DEF Orders
  <2>7. \A b \in S : <<last, b>> \in R <=> LaterIn(sort, last, b)
    BY <1>1, <2>5, PrecedesIsLexical DEF InOrder, R
  <2>8. \A b \in S : b \in given <=> ~LaterIn(sort, last, b)
    BY <2>4, <2>6, <2>7
  <2>9. /\ page.dirs = {} /\ page.given = given
        /\ page.cursor = [sort |-> sort, id |-> last,
                          keys |-> Rendered(sort, Values(sort, last))]
    BY <1>4, <1>8
  <2> QED
    BY <1>6, <2>5, <2>8, <2>9 DEF page, S
<1> QED
  BY <1>7, <1>8

-----------------------------------------------------------------------------
(* One page of a level: a run of concepts and a run of files.               *)
LEMMA NumbersOrdered ==
  ASSUME NEW S \in SUBSET Nat
  PROVE  Orders({p \in S \X S : p[1] < p[2]}, S)
BY DEF Orders

\* A run of a level is finitely many concepts, or files.
LEMMA RunOfNumbers ==
  ASSUME RowsTyped, NEW kind, NEW dir
  PROVE  /\ Run(kind, dir) \in SUBSET Nat /\ IsFiniteSet(Run(kind, dir))
         /\ Run(kind, dir) \subseteq IF kind = "concepts" THEN Ids ELSE Files
<1>1. Run(kind, dir) \subseteq IF kind = "concepts" THEN Ids ELSE Files
  BY DEF Run, RowsTyped
<1>2. IsFiniteSet(Run(kind, dir))
  BY <1>1, RowsAssumption, FS_Subset
<1> QED
  BY <1>1, <1>2, RowsAssumption

\* What earlier pages gave of a run, and how far a page goes.
Given(resumed, after, a) == resumed /\ (after = None \/ a <= after)
Through(next, a) == next = None \/ a <= next

\* A page of a run gives what was not given yet, up to where its cursor says.
LEMMA RunGives ==
  ASSUME RowsTyped, NEW kind, NEW dir, NEW resumed \in BOOLEAN, NEW after \in Nullable,
         resumed \/ after = None
  PROVE  LET page == RunPage(kind, dir, resumed, after) IN
         /\ page.given \subseteq Run(kind, dir) /\ page.next \in Nullable
         /\ \A a \in Run(kind, dir) :
              /\ a \in page.given <=> ~Given(resumed, after, a) /\ Through(page.next, a)
              /\ Given(resumed, after, a) => Through(page.next, a)
<1> DEFINE page == RunPage(kind, dir, resumed, after)
           all == Run(kind, dir)
           n == MaxBrowseEntries
           S == {a \in all : after # None => a > after}
           R == {p \in S \X S : p[1] < p[2]}
           read == Leading(R, S, n + 1)
           given == Leading(R, read, n)
           last == CHOOSE a \in given : \A b \in given \ {a} : <<b, a>> \in R
<1>0. all \in SUBSET Nat /\ IsFiniteSet(all)
  BY RunOfNumbers
<1>1. CASE resumed /\ after = None
  <2>1. page = [given |-> {}, next |-> None]
    BY <1>1 DEF RunPage
  <2> QED
    BY <2>1, <1>1 DEF Given, Through, Nullable
<1>2. CASE ~(resumed /\ after = None)
  <2>1. S \in SUBSET Nat /\ IsFiniteSet(S) /\ S \subseteq all
    BY <1>0, FS_Subset
  <2>2. Orders(R, S)
    BY <2>1, NumbersOrdered
  <2>3. n \in Nat \ {0}
    BY ListingsAssumption
  <2>4. \A a, b \in S : a < b <=> <<a, b>> \in R
    OBVIOUS
  <2>5. read \subseteq S /\ given \subseteq read
    BY DEF Leading
  <2>6. page = [given |-> given,
                next |-> IF Cardinality(read) <= n THEN None ELSE last]
    <3> DEFINE read2 == {a \in S : Cardinality({b \in S : b < a}) < n + 1}
               given2 == {a \in read2 : Cardinality({b \in read2 : b < a}) < n}
               last2 == CHOOSE a \in given2 : \A b \in given2 \ {a} : b < a
    <3>1. page = [given |-> given2,
                  next |-> IF Cardinality(read2) <= n THEN None ELSE last2]
      BY <1>2 DEF RunPage, First, LastOf
    <3> HIDE DEF page, all, R, n
    <3>2. read = read2
      <4>1. \A a \in S : {b \in S : b < a} = Ahead(R, S, a)
        BY <2>4 DEF Ahead
      <4> QED
        BY <4>1 DEF Leading
    <3> HIDE DEF read, read2
    <3>3. given = given2
      <4>1. \A a \in read : {b \in read : b < a} = Ahead(R, read, a)
        BY <2>4, <2>5 DEF Ahead
      <4> QED
        BY <3>2, <4>1 DEF Leading
    <3> HIDE DEF given2
    <3>4. last = last2
      <4>1. \A a \in given : (\A b \in given \ {a} : b < a)
                               <=> (\A b \in given \ {a} : <<b, a>> \in R)
        BY <2>4, <2>5
      <4> QED
        BY <3>3, <4>1
    <3> HIDE DEF last, last2
    <3> QED
      BY <3>1, <3>2, <3>3, <3>4
  <2> HIDE DEF page, all, R, n
  <2>7. given = Leading(R, S, n)
    BY <2>1, <2>2, <2>3, PageOfRead
  <2>8. \A a \in all : a \in S <=> ~Given(resumed, after, a)
    BY <1>0, <1>2 DEF Given, Nullable
  <2>11. \A a \in S : after # None => a > after
    OBVIOUS
  <2>9. CASE Cardinality(read) <= n
    <3>1. given = S
      BY <2>1, <2>2, <2>3, <2>7, <2>9, LeadingAll
    <3>2. page.given = S /\ page.next = None
      BY <2>6, <2>9, <3>1
    <3> QED
      BY <2>1, <2>8, <3>2 DEF page, all, Through, Nullable
  <2>10. CASE ~(Cardinality(read) <= n)
    <3>1. S # {}
      <4>1. SUFFICES ASSUME S = {} PROVE FALSE
        OBVIOUS
      <4>2. read = {}
        BY <2>5, <4>1
      <4> QED
        BY <2>3, <2>10, <4>2, FS_EmptySet
    <3> HIDE DEF read, given, S
    <3>2. /\ \E a \in given : \A b \in given \ {a} : <<b, a>> \in R
          /\ \A a \in given : (\A b \in given \ {a} : <<b, a>> \in R)
                                => \A b \in S : b \in given <=> b = a \/ <<b, a>> \in R
      BY <2>1, <2>2, <2>3, <2>7, <3>1, PageEnds
    <3>3. last \in given /\ \A b \in given \ {last} : <<b, last>> \in R
      BY <3>2
    <3>4. page.given = given /\ page.next = last
      BY <2>6, <2>10
    <3> HIDE DEF last
    <3>5. \A b \in S : b \in given <=> b = last \/ b < last
      BY <2>4, <2>5, <3>2, <3>3
    <3>6. last \in S /\ last \in Nat /\ last # None
      BY <2>1, <2>5, <3>3, RowsAssumption
    <3>7. given \subseteq S
      BY <2>5
    <3>8. \A a \in all : a \in given <=> ~Given(resumed, after, a) /\ Through(last, a)
      BY <1>0, <2>8, <3>5, <3>6, <3>7 DEF Through
    <3>9. \A a \in all : Given(resumed, after, a) => Through(last, a)
      BY <1>0, <1>2, <2>11, <3>6 DEF Through, Given, Nullable
    <3> QED
      BY <2>1, <3>4, <3>6, <3>7, <3>8, <3>9 DEF page, all, Nullable
  <2> QED
    BY <2>9, <2>10
<1> QED
  BY <1>1, <1>2

-----------------------------------------------------------------------------
(* The fields of a walk, and what its steps make of them.                   *)
WalkFields == {"state", "sort", "filter", "limit", "dir", "cursor", "given", "told"}

\* A walk not begun.
LEMMA NoWalkFields ==
  /\ DOMAIN NoWalk = WalkFields
  /\ NoWalk.state = "none" /\ NoWalk.cursor = NoCursor
  /\ NoWalk.given = [a \in Objects |-> 0] /\ NoWalk.told = [d \in AllDirectories |-> 0]
BY DEF NoWalk, WalkFields

\* A walk of a listing begins with nothing given.
LEMMA FeedBegins ==
  ASSUME StartFeed
  PROVE  /\ DOMAIN walk' = WalkFields
         /\ walk'.state = "walking" /\ walk'.cursor = NoCursor
         /\ walk'.sort # Level /\ walk'.filter \in FilterType /\ walk'.limit \in Nat \ {0}
         /\ walk'.given = [a \in Objects |-> 0] /\ walk'.told = [d \in AllDirectories |-> 0]
<1>1. PICK sort \in Feeds \ {Level}, f \in Filters, n \in Limits :
        walk' = [NoWalk EXCEPT !.state = "walking", !.sort = Mode(sort, f),
                               !.filter = f, !.limit = n]
  BY Zenon DEF StartFeed, Begin
<1>2. f \in FilterType /\ n \in Nat \ {0}
  BY ListingsAssumption
<1>3. Mode(sort, f) # Level
  <2>1. CASE sort # ""
    BY <2>1, Zenon DEF Mode
  <2>2. CASE sort = "" /\ "source" \in f.refers
    BY <2>2, Zenon DEF Mode, Level
  <2>3. CASE sort = "" /\ "source" \notin f.refers /\ f.refers = {"links_to"}
    BY <2>3, Zenon DEF Mode, Level
  <2>4. CASE sort = "" /\ "source" \notin f.refers /\ f.refers # {"links_to"}
    BY <2>4, Zenon DEF Mode, Level
  <2> QED
    BY <2>1, <2>2, <2>3, <2>4, Zenon
<1>4. walk' = [state |-> "walking", sort |-> Mode(sort, f), filter |-> f, limit |-> n,
               dir |-> Root, cursor |-> NoCursor, given |-> [a \in Objects |-> 0],
               told |-> [d \in AllDirectories |-> 0]]
  BY <1>1 DEF NoWalk
<1> QED
  BY <1>2, <1>3, <1>4 DEF WalkFields

\* A walk of a level begins with nothing given or told.
LEMMA LevelBegins ==
  ASSUME StartLevel
  PROVE  /\ DOMAIN walk' = WalkFields
         /\ walk'.state = "walking" /\ walk'.cursor = NoCursor /\ walk'.sort = Level
         /\ walk'.given = [a \in Objects |-> 0] /\ walk'.told = [d \in AllDirectories |-> 0]
<1>1. PICK dir \in Directories :
        walk' = [NoWalk EXCEPT !.state = "walking", !.sort = Level, !.dir = dir]
  BY Zenon DEF StartLevel, Begin
<1>2. walk' = [state |-> "walking", sort |-> Level, filter |-> None, limit |-> 0,
               dir |-> dir, cursor |-> NoCursor, given |-> [a \in Objects |-> 0],
               told |-> [d \in AllDirectories |-> 0]]
  BY <1>1 DEF NoWalk
<1> QED
  BY <1>2 DEF WalkFields

\* Taking a page counts what is on it and moves the cursor, nothing else.
LEMMA PageTaken ==
  ASSUME DOMAIN walk = WalkFields, NEW page, Took(page)
  PROVE  /\ DOMAIN walk' = WalkFields
         /\ walk'.state = (IF page.cursor = NoCursor THEN "ended" ELSE walk.state)
         /\ walk'.cursor = page.cursor
         /\ walk'.sort = walk.sort /\ walk'.filter = walk.filter
         /\ walk'.limit = walk.limit /\ walk'.dir = walk.dir
         /\ walk'.given = [a \in Objects |-> IF a \in page.given /\ walk.given[a] < 2
                                             THEN walk.given[a] + 1 ELSE walk.given[a]]
         /\ walk'.told = [d \in AllDirectories |->
                            IF d \in page.dirs /\ walk.told[d] < 2
                            THEN walk.told[d] + 1 ELSE walk.told[d]]
<1> DEFINE s == IF page.cursor = NoCursor THEN "ended" ELSE walk.state
           g == [a \in Objects |-> IF a \in page.given /\ walk.given[a] < 2
                                   THEN walk.given[a] + 1 ELSE walk.given[a]]
           t == [d \in AllDirectories |-> IF d \in page.dirs /\ walk.told[d] < 2
                                          THEN walk.told[d] + 1 ELSE walk.told[d]]
<1>1. walk' = [walk EXCEPT !.state = s, !.cursor = page.cursor, !.given = g, !.told = t]
  BY DEF Took
<1> HIDE DEF s, g, t
<1>2. /\ DOMAIN walk' = WalkFields
      /\ walk'.state = s /\ walk'.cursor = page.cursor /\ walk'.given = g /\ walk'.told = t
      /\ walk'.sort = walk.sort /\ walk'.filter = walk.filter
      /\ walk'.limit = walk.limit /\ walk'.dir = walk.dir
  BY <1>1 DEF WalkFields
<1> QED
  BY <1>2 DEF s, g, t

-----------------------------------------------------------------------------
(* What the walks keep.                                                     *)
Typed ==
  /\ RowsTyped
  /\ DOMAIN walk = WalkFields
  /\ walk.state \in {"none", "walking", "ended"}
  /\ walk.given \in [Objects -> 0..2] /\ walk.told \in [AllDirectories -> 0..2]
  /\ walk.state # "none" /\ walk.sort # Level =>
       walk.limit \in Nat \ {0} /\ walk.filter \in FilterType
  /\ reader \in {"walks", "asks"} /\ granted \in SUBSET Seq(STRING)
  /\ reader = "asks" => walk = NoWalk /\ stray = NoCursor
  /\ reader = "walks" => ask = NoAsk /\ granted = scope

\* Zeros and what a page makes of counts are counts.
LEMMA CountsFit ==
  /\ [a \in Objects |-> 0] \in [Objects -> 0..2]
  /\ [d \in AllDirectories |-> 0] \in [AllDirectories -> 0..2]
OBVIOUS

\* The reader's rows are typed at the start.
LEMMA TypedInit == Init => Typed
<1> SUFFICES ASSUME Init PROVE Typed
  OBVIOUS
<1>1. PICK b \in Bases :
        /\ row = b.row /\ stored = b.stored /\ scope = b.scope
        /\ now = Start /\ walk = NoWalk /\ stray = NoCursor /\ ask = NoAsk
        /\ reader = b.reader /\ granted = b.scope
  BY DEF Init
<1>2. RowsTyped
  BY <1>1, BasesAssumption, RowsAssumption DEF RowsTyped
<1> QED
  BY <1>1, <1>2, BasesAssumption, NoWalkFields, CountsFit DEF Typed

\* What a step of the walks does to a page's taker.
LEMMA PageIsTaken ==
  ASSUME Typed, NextPage \/ WrongPage
  PROVE  /\ walk.state = "walking" /\ UNCHANGED stray
         /\ \E page : Took(page)
  BY DEF NextPage, WrongPage, PageWith, FeedPage, LevelPage

\* Every step keeps the reader's types.
LEMMA TypedStep == Typed /\ [Next]_vars => Typed'
<1> SUFFICES ASSUME Typed, [Next]_vars PROVE Typed'
  OBVIOUS
<1> USE DEF Typed
<1>1. ASSUME StartFeed \/ StartLevel, Walks, Started PROVE Typed'
  <2>1. /\ DOMAIN walk' = WalkFields /\ walk'.state = "walking"
        /\ walk'.given \in [Objects -> 0..2] /\ walk'.told \in [AllDirectories -> 0..2]
        /\ walk'.sort # Level => walk'.limit \in Nat \ {0} /\ walk'.filter \in FilterType
    BY <1>1, FeedBegins, LevelBegins, CountsFit
  <2>2. /\ UNCHANGED <<rowVars, ask, reader>> /\ reader = "walks" /\ granted' = scope
    BY <1>1 DEF Walks, Started, searchVars
  <2> QED
    BY <2>1, <2>2 DEF RowsTyped, rowVars
<1>2. ASSUME NextPage \/ WrongPage, Walks, Goes PROVE Typed'
  <2>1. PICK page : Took(page)
    BY <1>2, PageIsTaken
  <2>2. walk.state = "walking"
    BY <1>2, PageIsTaken
  <2>3. /\ DOMAIN walk' = WalkFields /\ walk'.state \in {"walking", "ended"}
        /\ walk'.sort = walk.sort /\ walk'.filter = walk.filter /\ walk'.limit = walk.limit
        /\ walk'.given \in [Objects -> 0..2] /\ walk'.told \in [AllDirectories -> 0..2]
    <3> DEFINE more(n) == n + 1
    <3>1. \A n \in 0..2 : n < 2 => more(n) \in 0..2
      OBVIOUS
    <3>2. /\ walk.given \in [Objects -> 0..2] /\ walk.told \in [AllDirectories -> 0..2]
          /\ walk'.given = [a \in Objects |-> IF a \in page.given /\ walk.given[a] < 2
                                              THEN more(walk.given[a]) ELSE walk.given[a]]
          /\ walk'.told = [d \in AllDirectories |->
                             IF d \in page.dirs /\ walk.told[d] < 2
                             THEN more(walk.told[d]) ELSE walk.told[d]]
      BY <2>1, PageTaken
    <3> HIDE DEF more
    <3>3. walk'.given \in [Objects -> 0..2]
      BY <3>1, <3>2
    <3>4. walk'.told \in [AllDirectories -> 0..2]
      BY <3>1, <3>2
    <3> QED
      BY <2>1, <2>2, <3>3, <3>4, PageTaken
  <2>4. UNCHANGED <<rowVars, ask, reader, granted>> /\ reader = "walks"
    BY <1>2 DEF Walks, Goes, searchVars
  <2> QED
    BY <2>2, <2>3, <2>4 DEF RowsTyped, rowVars
<1>3. ASSUME Asks, Started \/ Goes PROVE Typed'
  <2>1. /\ UNCHANGED <<rowVars, walk, stray, reader>> /\ reader = "asks"
        /\ granted' = granted \/ granted' = scope
    BY <1>3 DEF Asks, Started, Goes, walkVars
  <2> QED
    BY <2>1 DEF RowsTyped, rowVars
<1>4. ASSUME Write \/ Tick, Others, Meanwhile PROVE Typed'
  <2>1. RowsTyped'
    BY <1>4, RowsStep
  <2>2. /\ UNCHANGED <<walk, stray, ask, reader>>
        /\ granted' = IF reader = "walks" THEN scope' ELSE granted
    BY <1>4 DEF Others, Meanwhile, walkVars, searchVars
  <2> QED
    BY <2>1, <2>2 DEF RowsTyped
<1>5. ASSUME UNCHANGED vars PROVE Typed'
  BY <1>5 DEF vars, rowVars, walkVars, searchVars, RowsTyped
<1> QED
  BY <1>1, <1>2, <1>3, <1>4, <1>5 DEF Next

-----------------------------------------------------------------------------
(* Given once.                                                              *)

\* A cursor is a place in the listing it was given in.
Cursors ==
  walk.cursor # NoCursor =>
    /\ walk.state = "walking"
    /\ walk.sort = Level => /\ walk.cursor.keys[1] \in Nullable
                            /\ walk.cursor.keys[2] \in Nullable
    /\ walk.sort # Level => /\ walk.cursor.id \in Nat
                            /\ Fits(Columns(walk.sort), walk.cursor.keys)

\* Of what the steady are: where each of them stands, it stays.
Steadily ==
  /\ steady \subseteq Objects
  /\ reader = "walks" =>
       /\ walk.state = "none" => steady = {}
       /\ walk.state # "none" /\ walk.sort = Level =>
            \A a \in steady : Here(a) /\ Directly(a, walk.dir)
       /\ walk.state # "none" /\ walk.sort # Level =>
            \A a \in steady : /\ a \in Ids /\ Narrow(walk.filter) # None
                              /\ Matches(a, Narrow(walk.filter)) /\ InFeed(walk.sort, a)

RunOf(a) == IF a \in Ids THEN 1 ELSE 2

\* What the cursor has left behind.
Passed(a) ==
  \/ walk.state = "ended"
  \/ /\ walk.cursor # NoCursor
     /\ IF walk.sort = Level THEN Given(TRUE, walk.cursor.keys[RunOf(a)], a)
        ELSE ~Lexically(Columns(walk.sort), walk.cursor.keys, walk.cursor.id,
                        Values(walk.sort, a), a)

Once ==
  reader = "walks" =>
    \A a \in steady : /\ Passed(a) => walk.given[a] = 1
                      /\ ~Passed(a) => walk.given[a] = 0

Told ==
  \A d \in AllDirectories :
    /\ walk.told[d] <= 1
    /\ walk.state = "walking" /\ walk.cursor = NoCursor => walk.told[d] = 0

OnceInv == Typed /\ RowsWhole /\ Cursors /\ Steadily /\ Once /\ Told

\* The strengthened invariant says what a walk promises.
LEMMA OnceImplies == OnceInv => GivenOnce
<1> SUFFICES ASSUME OnceInv PROVE GivenOnce
  OBVIOUS
<1>1. CASE reader = "asks"
  <2>1. /\ walk.state = "none" /\ \A a \in Objects : walk.given[a] = 0
        /\ \A d \in AllDirectories : walk.told[d] = 0
    BY <1>1, NoWalkFields DEF OnceInv, Typed
  <2> QED
    BY <2>1 DEF OnceInv, Steadily, GivenOnce
<1>2. CASE reader = "walks"
  <2>1. \A a \in steady : walk.given[a] <= 1
    BY <1>2 DEF OnceInv, Once
  <2>2. walk.state = "ended" => \A a \in steady : walk.given[a] = 1
    BY <1>2 DEF OnceInv, Once, Passed
  <2> QED
    BY <2>1, <2>2 DEF OnceInv, Told, GivenOnce
<1> QED
  BY <1>1, <1>2 DEF OnceInv, Typed

\* The wrong cursor is refused, but where the scope leaves nothing to list.
LEMMA WrongPages ==
  ASSUME WrongPage
  PROVE  /\ walk.sort # Level /\ Narrow(walk.filter) = None
         /\ Took(Nothing)
<1>1. stray # NoCursor
  BY DEF WrongPage
<1>2. stray.sort = walk.sort => walk.sort = Level /\ stray.id # walk.dir
  BY DEF WrongPage
<1>3. ~LevelPage(stray)
  BY <1>1, <1>2 DEF LevelPage, Accepts
<1>4. FeedPage(stray)
  BY <1>3 DEF WrongPage, PageWith
<1>5. ~Accepts(stray, walk.sort, Len(Columns(walk.sort))) \/ walk.sort = Level
  BY <1>1, <1>2 DEF Accepts
<1> QED
  BY <1>4, <1>5 DEF FeedPage

\* While nobody writes, everything stands where it stood.
LEMMA RowsStand ==
  ASSUME UNCHANGED rowVars, walk'.sort = walk.sort, walk'.filter = walk.filter, NEW a
  PROVE  /\ Values(walk.sort, a)' = Values(walk.sort, a)
         /\ Narrow(walk.filter)' = Narrow(walk.filter)
         /\ Matches(a, Narrow(walk.filter))' <=> Matches(a, Narrow(walk.filter))
         /\ InFeed(walk.sort, a)' <=> InFeed(walk.sort, a)
<1>1. row' = row /\ now' = now /\ scope' = scope
  BY DEF rowVars
<1>2. Values(walk.sort, a)' = Values(walk.sort, a)
  BY <1>1 DEF Values, Recent
<1>3. Narrow(walk.filter)' = Narrow(walk.filter)
  BY <1>1 DEF Narrow
<1>4. Matches(a, Narrow(walk.filter))' <=> Matches(a, Narrow(walk.filter))
  BY <1>1, <1>3 DEF Matches
<1>5. InFeed(walk.sort, a)' <=> InFeed(walk.sort, a)
  BY <1>1 DEF InFeed, PastExpiry, UnansweredFailure
<1> QED
  BY <1>2, <1>3, <1>4, <1>5

\* The cursor of a first page names no row,
LEMMA NoCursorHasNoId == NoCursor.id = None
BY Zenon DEF NoCursor

\* A page of nothing ends a walk nothing is steady in.
LEMMA NothingOnce ==
  ASSUME OnceInv, walk.state = "walking", reader = "walks", UNCHANGED <<rowVars, reader>>,
         Goes, walk.sort # Level, Narrow(walk.filter) = None, Took(Nothing)
  PROVE  (Cursors /\ Steadily /\ Once /\ Told)'
<1>1. steady = {} /\ steady' = {}
  BY DEF OnceInv, Steadily, Goes
<1>2. walk'.cursor = NoCursor /\ walk'.state = "ended" /\ walk'.told = [d \in AllDirectories |-> walk.told[d]]
  BY PageTaken DEF OnceInv, Typed, Nothing
<1>3. Cursors'
  BY <1>2 DEF Cursors
<1>4. Steadily' /\ Once'
  BY <1>1, <1>2 DEF Steadily, Once
<1>5. Told'
  BY <1>2 DEF OnceInv, Told
<1> QED
  BY <1>3, <1>4, <1>5

\* A page of a listing gives what is steady once, and leaves its cursor behind
\* the last it gave.
LEMMA FeedOnce ==
  ASSUME OnceInv, walk.state = "walking", reader = "walks", UNCHANGED <<rowVars, reader>>,
         Goes, walk.sort # Level, Narrow(walk.filter) # None,
         Took(List(walk.sort, Narrow(walk.filter), walk.cursor, walk.limit))
  PROVE  (Cursors /\ Steadily /\ Once /\ Told)'
<1> DEFINE sort == walk.sort
           c == Columns(sort)
           S == Remaining(sort, Narrow(walk.filter), walk.cursor)
           page == List(sort, Narrow(walk.filter), walk.cursor, walk.limit)
<1>1. walk.limit \in Nat \ {0} /\ RowsTyped /\ DOMAIN walk = WalkFields
  BY DEF OnceInv, Typed
<1>2. /\ page.dirs = {} /\ page.given \subseteq S
      /\ \/ page.cursor = NoCursor /\ page.given = S
         \/ \E last \in S :
              /\ page.cursor = [sort |-> sort, id |-> last,
                                keys |-> Rendered(sort, Values(sort, last))]
              /\ \A b \in S : b \in page.given <=> ~LaterIn(sort, last, b)
  BY <1>1, ListGives
<1>3. /\ S \subseteq Ids /\ \A a \in S : Fits(c, Values(sort, a)) /\ a \in Nat
  BY <1>1, RemainingOrdered, RowsAssumption
<1>4. /\ walk'.state = (IF page.cursor = NoCursor THEN "ended" ELSE "walking")
      /\ walk'.cursor = page.cursor /\ walk'.sort = sort /\ walk'.filter = walk.filter
      /\ walk'.given = [a \in Objects |-> IF a \in page.given /\ walk.given[a] < 2
                                          THEN walk.given[a] + 1 ELSE walk.given[a]]
      /\ walk'.told = [d \in AllDirectories |-> IF d \in page.dirs /\ walk.told[d] < 2
                                                THEN walk.told[d] + 1 ELSE walk.told[d]]
      /\ walk'.dir = walk.dir
  BY <1>1, PageTaken
<1>5. UNCHANGED steady
  BY DEF Goes
<1>6. ASSUME NEW a
      PROVE  /\ Values(walk.sort, a)' = Values(sort, a)
             /\ Narrow(walk.filter)' = Narrow(walk.filter)
             /\ Matches(a, Narrow(walk.filter))' <=> Matches(a, Narrow(walk.filter))
             /\ InFeed(walk.sort, a)' <=> InFeed(sort, a)
  BY <1>4, RowsStand
<1>7. ASSUME NEW a \in steady
      PROVE  /\ a \in Ids /\ a \in Nat /\ a \in Objects /\ Fits(c, Values(sort, a))
             /\ Matches(a, Narrow(walk.filter)) /\ InFeed(sort, a)
  BY <1>1, ValuesFit, RowsAssumption DEF OnceInv, Steadily
<1>8. \A x \in Nat : x # None
  BY RowsAssumption
<1>9. ColumnsOK(c)
  BY ColumnsFine
<1>10. Steadily'
  <2>1. \A a \in steady' : /\ a \in Ids /\ Narrow(walk.filter)' # None
                           /\ Matches(a, Narrow(walk.filter))' /\ InFeed(walk.sort, a)'
    BY <1>5, <1>6, <1>7
  <2>2. walk'.sort # Level /\ steady' \subseteq Objects /\ walk'.state # "none"
    BY <1>4, <1>5 DEF OnceInv, Steadily
  <2> QED
    BY <2>1, <2>2 DEF Steadily
<1>11. ASSUME NEW a \in steady PROVE a \in S <=> ~Passed(a)
  <2>1. CASE walk.cursor = NoCursor
    BY <1>7, <2>1 DEF Remaining, Passed
  <2>2. CASE walk.cursor # NoCursor
    <3>1. walk.cursor.id \in Nat /\ Fits(c, walk.cursor.keys)
      BY <2>2 DEF OnceInv, Cursors
    <3>2. KeysetAfter(sort, walk.cursor.keys, walk.cursor.id, a)
            <=> Lexically(c, walk.cursor.keys, walk.cursor.id, Values(sort, a), a)
      BY <1>7, <1>9, <3>1, KeysetIsLater
    <3> QED
      BY <1>7, <2>2, <3>2 DEF Remaining, Passed
  <2> QED
    BY <2>1, <2>2
<1>12. ASSUME NEW a \in steady
       PROVE  /\ Passed(a) => walk.given[a] = 1
              /\ ~Passed(a) => walk.given[a] = 0
              /\ walk'.given[a] = IF a \in page.given THEN 1 ELSE walk.given[a]
  <2>1. /\ Passed(a) => walk.given[a] = 1
        /\ ~Passed(a) => walk.given[a] = 0
    BY DEF OnceInv, Once
  <2>2. a \in page.given => walk.given[a] = 0
    BY <1>2, <1>11, <2>1
  <2> QED
    BY <1>4, <1>7, <2>1, <2>2
<1>13. Told'
  BY <1>2, <1>4 DEF OnceInv, Told
<1>14. CASE page.cursor = NoCursor /\ page.given = S
  <2>1. Cursors'
    BY <1>4, <1>14 DEF Cursors
  <2>2. \A a \in steady : walk'.given[a] = 1
    BY <1>11, <1>12, <1>14
  <2>3. Once'
    BY <1>4, <1>5, <1>14, <2>2 DEF Once, Passed
  <2> QED
    BY <1>10, <1>13, <2>1, <2>3
<1>15. ASSUME NEW last \in S,
              page.cursor = [sort |-> sort, id |-> last,
                             keys |-> Rendered(sort, Values(sort, last))],
              \A b \in S : b \in page.given <=> ~LaterIn(sort, last, b)
       PROVE  (Cursors /\ Once)'
  <2>1. last \in Ids /\ last \in Nat /\ Fits(c, Values(sort, last))
    BY <1>3
  <2>2. Rendered(sort, Values(sort, last)) = Values(sort, last)
    <3>1. CASE sort = "stale_after"
      <4>1. Values(sort, last) = <<row[last].stale>>
        BY <3>1 DEF Values
      <4>2. row[last].stale # None
        BY <3>1 DEF Remaining, InFeed, PastExpiry
      <4>3. (row[last].stale \div Second) * Second = row[last].stale
        BY <2>1, <4>2 DEF OnceInv, RowsWhole, WholeSecond
      <4> QED
        BY <3>1, <4>1, <4>3 DEF Rendered
    <3>2. CASE sort # "stale_after"
      BY <3>2 DEF Rendered
    <3> QED
      BY <3>1, <3>2
  <2>3. page.cursor.id = last /\ page.cursor.keys = Values(sort, last)
    BY <1>15, <2>2
  <2>4. page.cursor # NoCursor
    BY <1>8, <2>1, <2>3, NoCursorHasNoId
  <2> HIDE DEF page, S, c, sort
  <2>5. Cursors'
    <3>1. walk'.state = "walking" /\ walk'.sort = sort /\ walk'.cursor = page.cursor
      BY <1>4, <2>4
    <3> QED
      BY <2>1, <2>3, <3>1 DEF Cursors, c, sort
  <2>6. ASSUME NEW a \in steady PROVE Passed(a)' <=> ~LaterIn(sort, last, a)
    <3>1. walk'.state # "ended" /\ walk'.cursor # NoCursor /\ walk'.sort # Level
      BY <1>4, <2>4 DEF sort
    <3>2. /\ walk'.cursor.keys = Values(sort, last) /\ walk'.cursor.id = last
          /\ Columns(walk'.sort) = Columns(sort) /\ Values(walk.sort, a)' = Values(sort, a)
      BY <1>4, <1>6, <2>3
    <3> QED
      BY <3>1, <3>2 DEF Passed, LaterIn
  <2>7. ASSUME NEW a \in steady, Passed(a) PROVE ~LaterIn(sort, last, a)
    <3>1. walk.cursor # NoCursor
             /\ ~Lexically(c, walk.cursor.keys, walk.cursor.id, Values(sort, a), a)
      BY <2>7 DEF Passed, c, sort
    <3>2. walk.cursor.id \in Nat /\ Fits(c, walk.cursor.keys)
      BY <3>1 DEF OnceInv, Cursors, c, sort
    <3>3. KeysetAfter(sort, walk.cursor.keys, walk.cursor.id, last)
      BY <3>1 DEF S, Remaining
    <3>4. Lexically(c, walk.cursor.keys, walk.cursor.id, Values(sort, last), last)
      BY <1>9, <2>1, <3>2, <3>3, KeysetIsLater DEF c
    <3>5. LaterIn(sort, last, a)
            => Lexically(c, walk.cursor.keys, walk.cursor.id, Values(sort, a), a)
      BY <1>7, <1>9, <2>1, <3>2, <3>4, LexicallyTransitive DEF LaterIn, c
    <3> QED
      BY <3>1, <3>5
  <2>8. ASSUME NEW a \in steady
        PROVE  /\ ~LaterIn(sort, last, a) => walk'.given[a] = 1
               /\ LaterIn(sort, last, a) => walk'.given[a] = 0
    <3>1. CASE Passed(a)
      <4>1. a \notin page.given
        BY <1>2, <1>11, <3>1
      <4> QED
        BY <1>12, <2>7, <3>1, <4>1
    <3>2. CASE ~Passed(a)
      BY <1>11, <1>12, <1>15, <3>2
    <3> QED
      BY <3>1, <3>2
  <2>9. Once'
    BY <1>5, <2>6, <2>8 DEF Once
  <2> QED
    BY <2>5, <2>9
<1> QED
  BY <1>2, <1>10, <1>13, <1>14, <1>15

\* and belongs to no level.
LEMMA NoCursorIsOfNoLevel == NoCursor.sort # Level
BY Zenon DEF NoCursor, Level

\* A page of a level gives of both runs what lies up to its cursor, directories on the
\* first page only.
LEMMA BrowseGives ==
  ASSUME RowsTyped, NEW dir, NEW cursor,
         cursor # NoCursor => cursor.keys[1] \in Nullable /\ cursor.keys[2] \in Nullable
  PROVE  LET page == Browse(dir, cursor)
             resumed == cursor # NoCursor
             after(i) == IF resumed THEN cursor.keys[i] ELSE None
         IN \E next \in [1..2 -> Nullable] :
              /\ \/ page.cursor = NoCursor /\ next[1] = None /\ next[2] = None
                 \/ /\ page.cursor # NoCursor
                    /\ page.cursor.keys[1] = next[1] /\ page.cursor.keys[2] = next[2]
              /\ resumed => page.dirs = {}
              /\ page.given \subseteq Run("concepts", dir) \cup Run("files", dir)
              /\ \A a \in Run("concepts", dir) \cup Run("files", dir) :
                   /\ a \in page.given <=> /\ ~Given(resumed, after(RunOf(a)), a)
                                           /\ Through(next[RunOf(a)], a)
                   /\ Given(resumed, after(RunOf(a)), a) => Through(next[RunOf(a)], a)
<1> DEFINE page == Browse(dir, cursor)
           resumed == cursor # NoCursor
           after(i) == IF resumed THEN cursor.keys[i] ELSE None
           c == RunPage("concepts", dir, resumed, after(1))
           f == RunPage("files", dir, resumed, after(2))
           next == [i \in 1..2 |-> IF i = 1 THEN c.next ELSE f.next]
<1>1. resumed \in BOOLEAN /\ after(1) \in Nullable /\ after(2) \in Nullable
  BY DEF Nullable
<1>2. (resumed \/ after(1) = None) /\ (resumed \/ after(2) = None)
  OBVIOUS
<1>3. page = [given |-> c.given \cup f.given,
              dirs |-> IF resumed THEN {} ELSE Subdirectories(dir),
              cursor |-> IF c.next = None /\ f.next = None THEN NoCursor
                         ELSE [sort |-> Level, keys |-> <<c.next, f.next>>, id |-> dir]]
  BY DEF Browse
<1> HIDE DEF page, resumed, after
<1>4. /\ c.given \subseteq Run("concepts", dir) /\ c.next \in Nullable
      /\ \A a \in Run("concepts", dir) :
           /\ a \in c.given <=> ~Given(resumed, after(1), a) /\ Through(c.next, a)
           /\ Given(resumed, after(1), a) => Through(c.next, a)
  BY <1>1, <1>2, RunGives
<1>5. /\ f.given \subseteq Run("files", dir) /\ f.next \in Nullable
      /\ \A a \in Run("files", dir) :
           /\ a \in f.given <=> ~Given(resumed, after(2), a) /\ Through(f.next, a)
           /\ Given(resumed, after(2), a) => Through(f.next, a)
  BY <1>1, <1>2, RunGives
<1> HIDE DEF c, f
<1>6. Run("concepts", dir) \subseteq Ids /\ Run("files", dir) \subseteq Files
  BY RunOfNumbers
<1>7. Ids \cap Files = {}
  BY RowsAssumption
<1>8. next \in [1..2 -> Nullable] /\ next[1] = c.next /\ next[2] = f.next
  BY <1>4, <1>5
<1> HIDE DEF next
<1>9. \/ page.cursor = NoCursor /\ next[1] = None /\ next[2] = None
      \/ /\ page.cursor # NoCursor
         /\ page.cursor.keys[1] = next[1] /\ page.cursor.keys[2] = next[2]
  <2>1. CASE c.next = None /\ f.next = None
    BY <1>3, <1>8, <2>1
  <2>2. CASE ~(c.next = None /\ f.next = None)
    <3>1. page.cursor = [sort |-> Level, keys |-> <<c.next, f.next>>, id |-> dir]
      BY <1>3, <2>2
    <3>2. page.cursor.sort = Level /\ page.cursor.keys = <<c.next, f.next>>
      BY <3>1
    <3>3. page.cursor # NoCursor
      BY <3>2, NoCursorIsOfNoLevel
    <3> QED
      BY <1>8, <3>2, <3>3
  <2> QED
    BY <2>1, <2>2
<1>10. resumed => page.dirs = {}
  BY <1>3
<1>11. page.given = c.given \cup f.given
  BY <1>3
<1>12. ASSUME NEW a \in Run("concepts", dir) \cup Run("files", dir)
       PROVE  /\ a \in page.given <=> /\ ~Given(resumed, after(RunOf(a)), a)
                                      /\ Through(next[RunOf(a)], a)
              /\ Given(resumed, after(RunOf(a)), a) => Through(next[RunOf(a)], a)
  <2>1. CASE a \in Run("concepts", dir)
    <3>1. RunOf(a) = 1 /\ a \notin f.given
      BY <1>5, <1>6, <1>7, <2>1 DEF RunOf
    <3> QED
      BY <1>4, <1>8, <1>11, <2>1, <3>1
  <2>2. CASE a \in Run("files", dir)
    <3>1. RunOf(a) = 2 /\ a \notin c.given
      BY <1>4, <1>6, <1>7, <2>2 DEF RunOf
    <3> QED
      BY <1>5, <1>8, <1>11, <2>2, <3>1
  <2> QED
    BY <2>1, <2>2
<1>13. page.given \subseteq Run("concepts", dir) \cup Run("files", dir)
  BY <1>4, <1>5, <1>11
<1> QED
  BY <1>8, <1>9, <1>10, <1>12, <1>13 DEF page, resumed, after

\* A page of a level gives nothing again and skips nothing that stands still.
LEMMA LevelOnce ==
  ASSUME OnceInv, walk.state = "walking", reader = "walks", UNCHANGED <<rowVars, reader>>,
         Goes, walk.sort = Level,
         Took(IF scope = {} THEN Nothing ELSE Browse(walk.dir, walk.cursor))
  PROVE  (Cursors /\ Steadily /\ Once /\ Told)'
<1>0. RowsTyped /\ DOMAIN walk = WalkFields /\ granted = scope
  BY DEF OnceInv, Typed
<1> DEFINE page == IF scope = {} THEN Nothing ELSE Browse(walk.dir, walk.cursor)
<1>1. /\ walk'.state = (IF page.cursor = NoCursor THEN "ended" ELSE "walking")
      /\ walk'.cursor = page.cursor /\ walk'.sort = Level /\ walk'.dir = walk.dir
      /\ walk'.given = [a \in Objects |-> IF a \in page.given /\ walk.given[a] < 2
                                          THEN walk.given[a] + 1 ELSE walk.given[a]]
      /\ walk'.told = [d \in AllDirectories |-> IF d \in page.dirs /\ walk.told[d] < 2
                                                THEN walk.told[d] + 1 ELSE walk.told[d]]
  BY <1>0, PageTaken
<1>2. steady' = steady /\ granted' = granted /\ row' = row /\ stored' = stored
  BY DEF Goes, rowVars
<1>3. Steadily'
  <2>1. \A a \in steady : Here(a) /\ Directly(a, walk.dir)
    BY DEF OnceInv, Steadily
  <2>2. \A a \in steady' : Here(a)' /\ Directly(a, walk'.dir)
    BY <1>1, <1>2, <2>1 DEF Here
  <2>3. walk'.sort = Level /\ walk'.state # "none" /\ steady' \subseteq Objects
    BY <1>1, <1>2 DEF OnceInv, Steadily
  <2> QED
    BY <2>2, <2>3 DEF Steadily, Directly
<1>4. CASE scope = {}
  <2>1. steady = {}
    BY <1>0, <1>4 DEF OnceInv, Steadily, Here, UnderAny
  <2>2. page.cursor = NoCursor /\ page.dirs = {}
    BY <1>4 DEF Nothing
  <2>3. Cursors' /\ Told'
    BY <1>1, <2>2 DEF Cursors, Told, OnceInv
  <2> QED
    BY <1>2, <1>3, <2>1, <2>3 DEF Once
<1>5. CASE scope # {}
  <2> DEFINE resumed == walk.cursor # NoCursor
             after(i) == IF resumed THEN walk.cursor.keys[i] ELSE None
             all == Run("concepts", walk.dir) \cup Run("files", walk.dir)
  <2>1. resumed => walk.cursor.keys[1] \in Nullable /\ walk.cursor.keys[2] \in Nullable
    BY DEF OnceInv, Cursors
  <2>2. page = Browse(walk.dir, walk.cursor)
    BY <1>5
  <2> HIDE DEF page
  <2>3. PICK next \in [1..2 -> Nullable] :
          /\ \/ page.cursor = NoCursor /\ next[1] = None /\ next[2] = None
             \/ /\ page.cursor # NoCursor
                /\ page.cursor.keys[1] = next[1] /\ page.cursor.keys[2] = next[2]
          /\ resumed => page.dirs = {}
          /\ page.given \subseteq all
          /\ \A a \in all :
               /\ a \in page.given <=> /\ ~Given(resumed, after(RunOf(a)), a)
                                       /\ Through(next[RunOf(a)], a)
               /\ Given(resumed, after(RunOf(a)), a) => Through(next[RunOf(a)], a)
    BY <1>0, <2>1, <2>2, BrowseGives
  <2>4. ASSUME NEW a \in steady PROVE a \in all /\ a \in Objects
    <3>1. Here(a) /\ Directly(a, walk.dir) /\ a \in Objects
      BY DEF OnceInv, Steadily
    <3> QED
      BY <1>0, <3>1 DEF Here, Run, Readable, Objects
  <2> HIDE DEF all
  <2>5. ASSUME NEW a \in steady
        PROVE  /\ Passed(a) <=> Given(resumed, after(RunOf(a)), a)
               /\ Passed(a) => walk.given[a] = 1
               /\ ~Passed(a) => walk.given[a] = 0
    <3>1. Passed(a) <=> Given(resumed, after(RunOf(a)), a)
      BY DEF Passed, Given
    <3> QED
      BY <3>1 DEF OnceInv, Once
  <2> HIDE DEF resumed, after
  <2>6. ASSUME NEW a \in steady
        PROVE  walk'.given[a] = IF Through(next[RunOf(a)], a) THEN 1 ELSE 0
    BY <1>1, <2>3, <2>4, <2>5
  <2>7. Told'
    <3>1. CASE resumed
      BY <1>1, <2>3, <3>1 DEF OnceInv, Told
    <3>2. CASE ~resumed
      <4>1. \A d \in AllDirectories : walk.told[d] = 0
        BY <3>2 DEF OnceInv, Told, resumed
      <4> QED
        BY <1>1, <4>1 DEF Told
    <3> QED
      BY <3>1, <3>2
  <2>8. CASE page.cursor = NoCursor /\ next[1] = None /\ next[2] = None
    <3>1. Cursors' /\ walk'.state = "ended"
      BY <1>1, <2>8 DEF Cursors
    <3>2. \A a \in steady : walk'.given[a] = 1
      BY <2>6, <2>8 DEF Through, RunOf
    <3>3. Once'
      BY <1>2, <3>1, <3>2 DEF Once, Passed
    <3> QED
      BY <1>3, <2>7, <3>1, <3>3
  <2>9. CASE page.cursor # NoCursor /\ page.cursor.keys[1] = next[1]
             /\ page.cursor.keys[2] = next[2]
    <3>1. Cursors' /\ walk'.state = "walking" /\ walk'.cursor # NoCursor
      BY <1>1, <2>9 DEF Cursors
    <3>2. ASSUME NEW a \in steady PROVE Passed(a)' <=> Through(next[RunOf(a)], a)
      <4>1. page.cursor.keys[RunOf(a)] = next[RunOf(a)]
        BY <2>9 DEF RunOf
      <4> QED
        BY <1>1, <3>1, <4>1 DEF Passed, Given, Through, RunOf
    <3>3. Once'
      BY <1>2, <2>6, <3>2 DEF Once
    <3> QED
      BY <1>3, <2>7, <3>1, <3>3
  <2> QED
    BY <2>3, <2>8, <2>9
<1> QED
  BY <1>4, <1>5

\* A walk begins with nothing behind its cursor and nothing given.
LEMMA BeginsOnce ==
  ASSUME Typed', StartFeed \/ StartLevel, Walks, Started
  PROVE  (Cursors /\ Steadily /\ Once /\ Told)'
<1>1. /\ walk'.state = "walking" /\ walk'.cursor = NoCursor
      /\ walk'.given = [a \in Objects |-> 0] /\ walk'.told = [d \in AllDirectories |-> 0]
  BY FeedBegins, LevelBegins
<1>2. reader' = "walks" /\ steady' = About'
  BY DEF Walks, Started
<1>3. Cursors' /\ Told'
  BY <1>1 DEF Cursors, Told
<1>4. \A a \in Objects : ~Passed(a)'
  BY <1>1 DEF Passed
<1>5. Steadily'
  <2>1. CASE walk'.sort = Level
    <3>1. steady' = {a \in HereNow' : Directly(a, walk'.dir)}
      BY <1>2, <2>1 DEF About, Directly
    <3>2. \A a \in HereNow' : a \in Objects /\ Here(a)'
      BY DEF HereNow
    <3> QED
      BY <1>1, <2>1, <3>1, <3>2 DEF Steadily, Directly
  <2>2. CASE walk'.sort # Level
    <3>1. steady' = {a \in Ids : Part(a)'[1]}
      BY <1>2, <2>2 DEF About
    <3>2. ASSUME NEW a \in Ids, Part(a)'[1]
          PROVE  /\ Narrow(walk.filter)' # None /\ Matches(a, Narrow(walk.filter))'
                 /\ InFeed(walk.sort, a)'
      <4>1. CASE Narrow(walk.filter)' = None
        <5>1. Part(a)' = <<FALSE>>
          BY <1>2, <2>2, <4>1 DEF Part
        <5> QED
          BY <3>2, <5>1
      <4>2. CASE Narrow(walk.filter)' # None
        <5> DEFINE in == Matches(a, Narrow(walk.filter)) /\ InFeed(walk.sort, a)
                   at == Values(walk.sort, a)
        <5>1. Part(a)' = IF walk'.sort = Level THEN <<Here(a)'>> ELSE <<in', at'>>
          BY <1>2, <3>2, <4>2 DEF Part
        <5>2. Part(a)' = <<in', at'>>
          BY <2>2, <5>1
        <5>3. in'
          <6> HIDE DEF in, at
          <6> QED
            BY <3>2, <5>2
        <5> QED
          BY <4>2, <5>3
      <4> QED
        BY <4>1, <4>2
    <3> QED
      BY <1>1, <2>2, <3>1, <3>2 DEF Steadily, Objects
  <2> QED
    BY <2>1, <2>2
<1>6. Once'
  BY <1>1, <1>4, <1>5 DEF Once, Steadily
<1> QED
  BY <1>3, <1>5, <1>6

\* What others write takes what it moves out of the steady.
LEMMA OthersOnce ==
  ASSUME OnceInv, Typed', Others, Meanwhile
  PROVE  (Cursors /\ Steadily /\ Once /\ Told)'
<1>1. walk' = walk /\ reader' = reader
  BY DEF Others, walkVars
<1>2. steady' = {a \in steady : Part(a)' = Part(a)}
  BY DEF Meanwhile
<1>3. Cursors' /\ Told'
  BY <1>1 DEF OnceInv, Cursors, Told
<1>4. steady' \subseteq Objects
  BY <1>2 DEF OnceInv, Steadily
<1>5. CASE reader = "asks"
  BY <1>1, <1>3, <1>4, <1>5 DEF Steadily, Once
<1>6. CASE reader = "walks" /\ walk.state = "none"
  <2>1. steady' = {}
    BY <1>2, <1>6 DEF OnceInv, Steadily
  <2> QED
    BY <1>1, <1>3, <1>6, <2>1 DEF Steadily, Once
<1>7. CASE reader = "walks" /\ walk.state # "none" /\ walk.sort = Level
  <2>1. \A a \in steady : Here(a) /\ Directly(a, walk.dir)
    BY <1>7 DEF OnceInv, Steadily
  <2>2. ASSUME NEW a \in steady' PROVE Here(a)' /\ Directly(a, walk'.dir)
    <3>1. Part(a) = <<Here(a)>> /\ Part(a)' = <<Here(a)'>>
      BY <1>1, <1>7 DEF Part, Level
    <3>2. Here(a)
      BY <1>2, <2>1
    <3>3. Here(a)' = Here(a)
      BY <1>2, <3>1
    <3> QED
      BY <1>1, <1>2, <2>1, <3>2, <3>3
  <2>3. Steadily'
    BY <1>1, <1>4, <1>7, <2>2 DEF Steadily, Directly
  <2>4. \A a \in steady' : Passed(a)' <=> Passed(a)
    BY <1>1, <1>7 DEF Passed
  <2>5. Once'
    BY <1>1, <1>2, <1>7, <2>4 DEF OnceInv, Once
  <2> QED
    BY <1>3, <2>3, <2>5
<1>8. CASE reader = "walks" /\ walk.state # "none" /\ walk.sort # Level
  <2>1. ASSUME NEW a \in steady'
        PROVE  /\ a \in Ids /\ a \in steady /\ Narrow(walk.filter)' # None
               /\ Matches(a, Narrow(walk.filter))' /\ InFeed(walk.sort, a)'
               /\ Values(walk.sort, a)' = Values(walk.sort, a)
    <3> DEFINE in == Matches(a, Narrow(walk.filter)) /\ InFeed(walk.sort, a)
    <3>1. /\ a \in Ids /\ a \in steady /\ Part(a)' = Part(a)
          /\ Narrow(walk.filter) # None /\ in
      BY <1>2, <1>8 DEF OnceInv, Steadily
    <3>2. Part(a) = <<in, Values(walk.sort, a)>>
      BY <1>8, <3>1 DEF Part
    <3>3. CASE Narrow(walk.filter)' = None
      <4>1. Part(a)' = <<FALSE>>
        BY <1>1, <1>8, <3>3 DEF Part
      <4>2. <<FALSE>> = <<in, Values(walk.sort, a)>>
        BY <3>1, <3>2, <4>1
      <4>3. Len(<<FALSE>>) = 1 /\ Len(<<in, Values(walk.sort, a)>>) = 2
        OBVIOUS
      <4> QED
        BY <4>2, <4>3
    <3>4. CASE Narrow(walk.filter)' # None
      <4>1. Part(a)' = <<in', Values(walk.sort, a)'>>
        BY <1>1, <1>8, <3>1, <3>4 DEF Part
      <4>2. <<in', Values(walk.sort, a)'>> = <<in, Values(walk.sort, a)>>
        BY <3>1, <3>2, <4>1
      <4>3. in' = in /\ Values(walk.sort, a)' = Values(walk.sort, a)
        BY <4>2
      <4> QED
        BY <3>1, <3>4, <4>3
    <3> QED
      BY <3>3, <3>4
  <2>2. Steadily'
    BY <1>1, <1>4, <1>8, <2>1 DEF Steadily
  <2>3. \A a \in steady' : Passed(a)' <=> Passed(a)
    BY <1>1, <1>8, <2>1 DEF Passed
  <2>4. Once'
    BY <1>1, <1>8, <2>1, <2>3 DEF OnceInv, Once
  <2> QED
    BY <1>3, <2>2, <2>4
<1> QED
  BY <1>5, <1>6, <1>7, <1>8 DEF OnceInv, Typed

\* A search leaves the walk it is not where it is.
LEMMA AsksOnce ==
  ASSUME OnceInv, Typed', Asks, Started \/ Goes
  PROVE  (Cursors /\ Steadily /\ Once /\ Told)'
<1>1. walk' = walk /\ reader' = "asks"
  BY DEF Asks, walkVars
<1>2. Cursors' /\ Told' /\ Once'
  BY <1>1 DEF OnceInv, Cursors, Told, Once
<1>3. steady' \subseteq Objects
  <2>1. CASE Goes
    BY <2>1 DEF Goes, OnceInv, Steadily
  <2>2. CASE Started
    BY <1>1, <2>2 DEF Started, About, Objects
  <2> QED
    BY <2>1, <2>2
<1> QED
  BY <1>1, <1>2, <1>3 DEF Steadily

\* Every step keeps the invariant of walks.
LEMMA OnceStep == WholeSeconds /\ OnceInv /\ [Next]_vars => OnceInv'
<1> SUFFICES ASSUME WholeSeconds, OnceInv, [Next]_vars PROVE OnceInv'
  OBVIOUS
<1>1. Typed'
  BY TypedStep DEF OnceInv
<1>2. RowsWhole'
  <2>1. CASE Write \/ Tick
    BY <2>1, WholeStep DEF OnceInv, Typed
  <2>2. CASE UNCHANGED row
    BY <2>2 DEF OnceInv, RowsWhole
  <2>3. UNCHANGED row \/ Write \/ Tick
    BY DEF Next, Walks, Asks, rowVars, vars
  <2> QED
    BY <2>1, <2>2, <2>3
<1> SUFFICES (Cursors /\ Steadily /\ Once /\ Told)'
  BY <1>1, <1>2 DEF OnceInv
<1>3. CASE (StartFeed \/ StartLevel) /\ Walks /\ Started
  BY <1>1, <1>3, BeginsOnce
<1>4. CASE NextPage /\ Walks /\ Goes
  <2>1. walk.state = "walking" /\ reader = "walks" /\ UNCHANGED <<rowVars, reader>>
    BY <1>4, PageIsTaken DEF OnceInv, Walks
  <2>2. FeedPage(walk.cursor) \/ LevelPage(walk.cursor)
    BY <1>4 DEF NextPage, PageWith
  <2>3. CASE FeedPage(walk.cursor)
    <3>1. walk.sort # Level
      BY <2>3 DEF FeedPage
    <3>2. CASE Narrow(walk.filter) = None
      <4>1. Took(Nothing)
        BY <2>3, <3>2 DEF FeedPage
      <4> QED
        BY <1>4, <2>1, <3>1, <3>2, <4>1, NothingOnce
    <3>3. CASE Narrow(walk.filter) # None
      <4>1. Took(List(walk.sort, Narrow(walk.filter), walk.cursor, walk.limit))
        BY <2>3, <3>3 DEF FeedPage
      <4> QED
        BY <1>4, <2>1, <3>1, <3>3, <4>1, FeedOnce
    <3> QED
      BY <3>2, <3>3
  <2>4. CASE LevelPage(walk.cursor)
    BY <1>4, <2>1, <2>4, LevelOnce DEF LevelPage
  <2> QED
    BY <2>2, <2>3, <2>4
<1>5. CASE WrongPage /\ Walks /\ Goes
  <2>1. walk.state = "walking" /\ reader = "walks" /\ UNCHANGED <<rowVars, reader>>
    BY <1>5, PageIsTaken DEF OnceInv, Walks
  <2> QED
    BY <1>5, <2>1, WrongPages, NothingOnce
<1>6. CASE Asks /\ (Started \/ Goes)
  BY <1>1, <1>6, AsksOnce
<1>7. CASE Others /\ Meanwhile
  BY <1>1, <1>7, OthersOnce
<1>8. CASE UNCHANGED vars
  <2>1. UNCHANGED <<row, stored, now, scope, walk, reader, granted, steady>>
    BY <1>8 DEF vars, rowVars, walkVars
  <2>2. Cursors' /\ Told'
    BY <2>1 DEF OnceInv, Cursors, Told
  <2>3. UNCHANGED rowVars /\ walk'.sort = walk.sort /\ walk'.filter = walk.filter
    BY <1>8, <2>1 DEF vars
  <2>4. Steadily'
    BY <2>1, <2>3, RowsStand DEF OnceInv, Steadily, Here, Directly
  <2>5. Once'
    BY <2>1, <2>3, RowsStand DEF OnceInv, Once, Passed
  <2> QED
    BY <2>2, <2>4, <2>5
<1> QED
  BY <1>3, <1>4, <1>5, <1>6, <1>7, <1>8 DEF Next

\* It holds at the start.
LEMMA OnceInit == WholeSeconds /\ Init => OnceInv
<1> SUFFICES ASSUME WholeSeconds, Init PROVE OnceInv
  OBVIOUS
<1>1. Typed
  BY TypedInit
<1>2. RowsWhole
  BY DEF Init, RowsWhole, WholeSeconds
<1>3. walk = NoWalk /\ steady = {}
  BY DEF Init
<1>4. Cursors
  BY <1>3, NoWalkFields DEF Cursors
<1>5. Steadily /\ Once /\ Told
  BY <1>3, NoWalkFields DEF Steadily, Once, Told
<1> QED
  BY <1>1, <1>2, <1>4, <1>5 DEF OnceInv

(* A walk of any listing or level gives what stands still in it on exactly   *)
(* one of its pages, whatever is written between them and however short they *)
(* are, where every expiry is a whole second (list.go, cursor.go, browse.go).*)
THEOREM WalksGiveOnce == WholeSeconds => (Spec => []GivenOnce)
<1> SUFFICES ASSUME WholeSeconds PROVE Spec => []GivenOnce
  OBVIOUS
<1>1. Init => OnceInv
  BY OnceInit
<1>2. OnceInv /\ [Next]_vars => OnceInv'
  BY OnceStep
<1> QED
  BY <1>1, <1>2, OnceImplies, PTL DEF Spec

-----------------------------------------------------------------------------
(* Only what may be read.                                                   *)

\* A filter that admits nothing outside a set of prefixes.
Confined(f, prefixes) ==
  \A p \in Seq(STRING) : (f.prefixes = {} \/ UnderAny(p, f.prefixes)) => UnderAny(p, prefixes)

\* What Narrow leaves of a filter admits nothing outside the scope.
LEMMA NarrowConfines ==
  ASSUME NEW f \in FilterType, scope \in SUBSET Seq(STRING), Narrow(f) # None
  PROVE  Confined(Narrow(f), scope)
<1> DEFINE left == IF f.prefixes = {} THEN scope ELSE Intersect(f.prefixes, scope)
<1>0. f.prefixes \in SUBSET Seq(STRING)
  BY DEF FilterType
<1>1. CASE Root \in scope
  BY <1>1, UnderRoot DEF Confined, UnderAny
<1>2. CASE Root \notin scope
  <2>1. left # {} /\ Narrow(f) = [f EXCEPT !.prefixes = left]
    BY <1>2 DEF Narrow
  <2>2. Narrow(f).prefixes = left
    <3> HIDE DEF left
    <3> QED
      BY <2>1 DEF FilterType
  <2>3. ASSUME NEW p \in Seq(STRING), UnderAny(p, left) PROVE UnderAny(p, scope)
    BY <1>0, <2>3, IntersectExact
  <2> HIDE DEF left
  <2> QED
    BY <2>1, <2>2, <2>3 DEF Confined
<1> QED
  BY <1>1, <1>2

\* What matches such a filter is readable.
LEMMA MatchesIsHere ==
  ASSUME NEW a \in Ids, NEW f, Matches(a, f), Confined(f, granted)
  PROVE  a \in HereNow
<1>1. Path[a] \in Seq(STRING) /\ a \in Objects
  BY RowsAssumption DEF Objects
<1>2. row[a].state = "live" /\ (f.prefixes = {} \/ UnderAny(Path[a], f.prefixes))
  BY DEF Matches
<1> QED
  BY <1>1, <1>2 DEF Confined, HereNow, Here

\* What a page of a level gives is in its directory, and readable.
LEMMA BrowseIsHere ==
  ASSUME RowsTyped, granted = scope, NEW dir, NEW cursor
  PROVE  Browse(dir, cursor).given \subseteq HereNow
<1> DEFINE after(i) == IF cursor # NoCursor THEN cursor.keys[i] ELSE None
           c == RunPage("concepts", dir, cursor # NoCursor, after(1))
           f == RunPage("files", dir, cursor # NoCursor, after(2))
<1>1. Browse(dir, cursor).given = c.given \cup f.given
  BY DEF Browse
<1>2. ASSUME NEW kind, NEW resumed, NEW last
      PROVE  RunPage(kind, dir, resumed, last).given \subseteq Run(kind, dir)
  <2> DEFINE rest == {a \in Run(kind, dir) : last # None => a > last}
             read == First(rest, MaxBrowseEntries + 1, <)
             page == First(read, MaxBrowseEntries, <)
  <2>1. page \subseteq read /\ read \subseteq rest
    BY DEF First
  <2>2. RunPage(kind, dir, resumed, last).given = IF resumed /\ last = None THEN {} ELSE page
    BY DEF RunPage
  <2> HIDE DEF page, read
  <2> QED
    BY <2>1, <2>2
<1>3. \A kind \in {"concepts", "files"} : Run(kind, dir) \subseteq HereNow
  BY RowsAssumption DEF Run, Readable, HereNow, Here, Objects, RowsTyped
<1> HIDE DEF c, f
<1>4. c.given \subseteq HereNow /\ f.given \subseteq HereNow
  BY <1>2, <1>3 DEF c, f
<1> QED
  BY <1>1, <1>4

\* What any page gives is readable as it is given.
LEMMA PageIsHere ==
  ASSUME Typed, reader = "walks", NextPage \/ WrongPage
  PROVE  \E page : Took(page) /\ page.given \subseteq HereNow
<1>1. walk.state = "walking" /\ granted = scope
  BY PageIsTaken DEF Typed
<1>2. PICK cursor : FeedPage(cursor) \/ LevelPage(cursor)
  BY DEF NextPage, WrongPage, PageWith
<1>3. Nothing.given = {}
  BY DEF Nothing
<1>4. CASE FeedPage(cursor)
  <2>1. walk.filter \in FilterType /\ walk.limit \in Nat \ {0}
    BY <1>1, <1>4 DEF FeedPage, Typed
  <2>2. CASE Narrow(walk.filter) = None
    BY <1>3, <1>4, <2>2 DEF FeedPage
  <2>3. CASE Narrow(walk.filter) # None
    <3> DEFINE f == Narrow(walk.filter)
               page == List(walk.sort, f, cursor, walk.limit)
    <3>1. Took(page)
      BY <1>4, <2>3 DEF FeedPage
    <3>2. page.given \subseteq Remaining(walk.sort, f, cursor)
      BY <2>1, ListGives DEF Typed
    <3>3. Confined(f, granted)
      BY <1>1, <2>1, <2>3, NarrowConfines DEF Typed, RowsTyped
    <3> HIDE DEF f, page
    <3>4. Remaining(walk.sort, f, cursor) \subseteq HereNow
      BY <3>3, MatchesIsHere DEF Remaining
    <3> QED
      BY <3>1, <3>2, <3>4
  <2> QED
    BY <2>2, <2>3
<1>5. CASE LevelPage(cursor)
  <2>1. Took(IF scope = {} THEN Nothing ELSE Browse(walk.dir, cursor))
    BY <1>5 DEF LevelPage
  <2> QED
    BY <1>1, <1>3, <2>1, BrowseIsHere DEF Typed
<1> QED
  BY <1>2, <1>4, <1>5

-----------------------------------------------------------------------------
\* A set in an order: a sequence that holds each of its members once, where as
\* many stand before each as are ahead of it.
LEMMA ArrangedHolds ==
  ASSUME NEW R, NEW S, IsFiniteSet(S), Orders(R, S)
  PROVE  /\ Cardinality(S) \in Nat
         /\ DOMAIN Arranged(S, R) = 1..Cardinality(S)
         /\ \A k \in 1..Cardinality(S) :
              Arranged(S, R)[k] \in S /\ Cardinality(Ahead(R, S, Arranged(S, R)[k])) = k - 1
         /\ \A x \in S : \E k \in 1..Cardinality(S) :
              Arranged(S, R)[k] = x /\ k = Cardinality(Ahead(R, S, x)) + 1
<1> DEFINE n == Cardinality(S)
           rank == [x \in S |-> Cardinality(Ahead(R, S, x)) + 1]
<1>1. n \in Nat
  BY FS_CardinalityType
<1>2. rank \in [S -> 1..n]
  <2>1. ASSUME NEW x \in S PROVE Cardinality(Ahead(R, S, x)) + 1 \in 1..n
    BY RankBounded
  <2> QED
    BY <2>1
<1>3. \A x, y \in S : rank[x] = rank[y] => x = y
  <2>1. ASSUME NEW x \in S, NEW y \in S, rank[x] = rank[y], x # y PROVE FALSE
    <3>1. <<x, y>> \in R \/ <<y, x>> \in R
      BY <2>1 DEF Orders
    <3>2. CASE <<x, y>> \in R
      BY <2>1, <3>2, RankGrows
    <3>3. CASE <<y, x>> \in R
      BY <2>1, <3>3, RankGrows
    <3> QED
      BY <3>1, <3>2, <3>3
  <2> QED
    BY <2>1
<1>4. rank \in Injection(S, 1..n)
  <2> HIDE DEF rank
  <2> QED
    BY <1>2, <1>3 DEF Injection, IsInjective
<1>5. IsFiniteSet(1..n) /\ Cardinality(1..n) = n
  BY <1>1, FS_Interval
<1>6. rank \in Surjection(S, 1..n)
  <2> HIDE DEF rank
  <2> QED
    BY <1>4, <1>5, FS_Injection
<1>7. \A k \in 1..n : \E x \in S : rank[x] = k
  <2> HIDE DEF rank
  <2> QED
    BY <1>6 DEF Surjection
<1>8. ASSUME NEW k \in 1..n
      PROVE  Arranged(S, R)[k] \in S /\ Cardinality(Ahead(R, S, Arranged(S, R)[k])) = k - 1
  <2>1. PICK x \in S : rank[x] = k
    BY <1>7
  <2>2. Cardinality(Ahead(R, S, x)) \in Nat
    BY RankBounded
  <2>3. Cardinality({y \in S : <<y, x>> \in R}) = k - 1
    BY <2>1, <2>2 DEF Ahead
  <2>4. Arranged(S, R)[k] = CHOOSE z \in S : Cardinality({y \in S : <<y, z>> \in R}) = k - 1
    BY DEF Arranged
  <2> QED
    BY <2>3, <2>4 DEF Ahead
<1>9. ASSUME NEW x \in S
      PROVE  \E k \in 1..n : Arranged(S, R)[k] = x /\ k = Cardinality(Ahead(R, S, x)) + 1
  <2> DEFINE k == Cardinality(Ahead(R, S, x)) + 1
             z == Arranged(S, R)[k]
  <2>1. k \in 1..n /\ rank[x] = k
    BY <1>2
  <2>2. z \in S /\ Cardinality(Ahead(R, S, z)) = k - 1
    BY <1>8, <2>1
  <2>3. rank[z] = k
    <3> HIDE DEF z
    <3> QED
      BY <2>1, <2>2
  <2> HIDE DEF rank, z
  <2>4. z = x
    BY <1>3, <2>1, <2>2, <2>3
  <2> QED
    BY <2>1, <2>4 DEF z
<1>10. DOMAIN Arranged(S, R) = 1..n
  BY DEF Arranged
<1> QED
  BY <1>1, <1>8, <1>9, <1>10

\* ... and so a sequence of them.
LEMMA ArrangedIsSequence ==
  ASSUME NEW R, NEW S, IsFiniteSet(S), Orders(R, S)
  PROVE  /\ Arranged(S, R) \in Seq(S) /\ Len(Arranged(S, R)) = Cardinality(S)
         /\ DOMAIN Arranged(S, R) = 1..Len(Arranged(S, R))
<1>1. /\ Cardinality(S) \in Nat /\ DOMAIN Arranged(S, R) = 1..Cardinality(S)
      /\ \A k \in 1..Cardinality(S) : Arranged(S, R)[k] \in S
  BY ArrangedHolds
<1>2. Arranged(S, R) \in [1..Cardinality(S) -> S]
  BY <1>1 DEF Arranged
<1> QED
  BY <1>1, <1>2

\* Pairs of positions, where one begins before the other, or there and is longer.
LEMMA ReadFirstOrders ==
  ASSUME NEW S \in SUBSET (Nat \X Nat)
  PROVE  Orders(ReadFirst(S), S)
BY DEF Orders, ReadFirst

\* ... and turns: rounds, and within a round the runs.
LEMMA TurnsOrdered ==
  ASSUME NEW S \in SUBSET (Nat \X Nat)
  PROVE  Orders(TurnsFirst(S), S)
BY DEF Orders, TurnsFirst

-----------------------------------------------------------------------------
(* Stretches of a text.                                                     *)
Texted == Seq(STRING)
Stretches(t) == {p \in (1..Len(t)) \X (1..Len(t)) : p[1] <= p[2]}

\* What a stretch says: its glyphs, one after another.
LEMMA SaidGlyphs ==
  ASSUME NEW t \in Texted, NEW p \in Stretches(t)
  PROVE  /\ Said(t, p) \in Texted /\ Len(Said(t, p)) = p[2] - p[1] + 1
         /\ p[1] \in Nat /\ p[2] \in Nat /\ 1 <= p[1] /\ p[1] <= p[2] /\ p[2] <= Len(t) /\ Len(t) \in Nat
         /\ DOMAIN Said(t, p) = 1..p[2] - p[1] + 1
         /\ \A k \in 1..p[2] - p[1] + 1 : Said(t, p)[k] = t[p[1] + k - 1]
<1>1. /\ p[1] \in 1..Len(t) /\ p[2] \in 1..Len(t) /\ p[1] <= p[2] /\ Len(t) \in Nat
  BY DEF Stretches, Texted
<1> QED
  BY <1>1 DEF Said, Texted

\* Two characters side by side.
LEMMA PairSaid ==
  ASSUME NEW t \in Texted, NEW i \in 1..Len(t) - 1
  PROVE  SubSeq(t, i, i + 1) = <<t[i], t[i + 1]>>
<1> DEFINE s == SubSeq(t, i, i + 1)
           pair == <<t[i], t[i + 1]>>
<1>1. Len(t) \in Nat /\ i \in Nat /\ 1 <= i /\ i + 1 <= Len(t)
  BY DEF Texted
<1>0. i \in 1..Len(t) /\ i + 1 \in 1..Len(t) /\ (i + 1) - i + 1 = 2
  BY <1>1
<1>2. s \in Seq(STRING) /\ Len(s) = 2 /\ s[1] = t[i] /\ s[2] = t[i + 1]
  <2>1. s \in Seq(STRING) /\ Len(s) = 2
    BY <1>0, <1>1, SubSeqProperties DEF Texted
  <2>2. i + 1 - 1 = i /\ i + 2 - 1 = i + 1 /\ 1 \in 1..2 /\ 2 \in 1..2
    BY <1>1
  <2>3. \A k \in 1..(i + 1) - i + 1 : s[k] = t[i + k - 1]
    BY <1>0, <1>1, SubSeqProperties DEF Texted
  <2> HIDE DEF s
  <2> QED
    BY <1>0, <2>1, <2>2, <2>3
<1>3. pair \in Seq(STRING) /\ Len(pair) = 2 /\ pair[1] = t[i] /\ pair[2] = t[i + 1]
  <2>1. t[i] \in STRING /\ t[i + 1] \in STRING
    BY <1>0 DEF Texted
  <2> QED
    BY <2>1
<1> HIDE DEF s, pair
<1>5. \A k \in 1..Len(s) : s[k] = pair[k]
  BY <1>2, <1>3
<1>6. s = pair
  BY <1>2, <1>3, <1>5, SeqEqual
<1> QED
  BY <1>6 DEF s, pair

\* Stretches are finitely many pairs of numbers.
LEMMA StretchesFinite ==
  ASSUME NEW t \in Texted
  PROVE  IsFiniteSet(Stretches(t)) /\ Stretches(t) \subseteq Nat \X Nat
<1>1. Len(t) \in Nat
  BY DEF Texted
<1>2. IsFiniteSet(1..Len(t))
  BY <1>1, FS_Interval
<1>3. IsFiniteSet((1..Len(t)) \X (1..Len(t)))
  BY <1>2, FS_Product
<1>4. Stretches(t) \subseteq (1..Len(t)) \X (1..Len(t))
  BY DEF Stretches
<1> QED
  BY <1>3, <1>4, FS_Subset

\* Stretches in reading order: a text for each of them, and each of them there.
LEMMA ReadingOrder ==
  ASSUME NEW t \in Texted, NEW S \in SUBSET Stretches(t)
  PROVE  /\ Len(InReadingOrder(t, S)) \in Nat
         /\ DOMAIN InReadingOrder(t, S) = 1..Len(InReadingOrder(t, S))
         /\ \A k \in 1..Len(InReadingOrder(t, S)) : \E p \in S : InReadingOrder(t, S)[k] = Said(t, p)
         /\ \A p \in S : \E k \in 1..Len(InReadingOrder(t, S)) : InReadingOrder(t, S)[k] = Said(t, p)
<1> DEFINE s == Arranged(S, ReadFirst(S))
           n == Cardinality(S)
<1>1. IsFiniteSet(S) /\ S \in SUBSET (Nat \X Nat)
  BY StretchesFinite, FS_Subset
<1>2. Orders(ReadFirst(S), S)
  BY <1>1, ReadFirstOrders
<1>3. /\ n \in Nat /\ DOMAIN s = 1..n
      /\ \A k \in 1..n : s[k] \in S
      /\ \A x \in S : \E k \in 1..n : s[k] = x
  BY <1>1, <1>2, ArrangedHolds
<1> HIDE DEF s, n
<1>4. InReadingOrder(t, S) = [k \in 1..n |-> Said(t, s[k])]
  BY <1>3 DEF InReadingOrder, s
<1>5. Len(InReadingOrder(t, S)) = n /\ DOMAIN InReadingOrder(t, S) = 1..n
  BY <1>3, <1>4
<1>6. \A k \in 1..n : InReadingOrder(t, S)[k] = Said(t, s[k])
  BY <1>4
<1> QED
  BY <1>3, <1>5, <1>6

\* A text is cut nowhere inside a stretch of one class.
LEMMA PieceAround ==
  ASSUME NEW n \in Nat, NEW class, DOMAIN class = 1..n, Len(class) = n,
         NEW i \in 1..n, NEW j \in i..n, \A k \in i..j : class[k] = class[i]
  PROVE  \E p \in Pieces(class) : p[1] <= i /\ j <= p[2] /\ p[1] \in 1..n /\ p[2] \in 1..n
<1> DEFINE From == {a \in 1..i : \A k \in a..j : class[k] = class[i]}
           To == {b \in Nat : n - b \in j..n /\ \A k \in i..n - b : class[k] = class[i]}
<1>1. From \in SUBSET Nat /\ i \in From
  OBVIOUS
<1>2. To \in SUBSET Nat /\ n - j \in To
  OBVIOUS
<1>3. PICK a \in From : \A y \in From : a <= y
  BY <1>1, LeastNumber, Zenon
<1>4. PICK c \in To : \A y \in To : c <= y
  BY <1>2, LeastNumber, Zenon
<1> DEFINE b == n - c
<1>5. a \in 1..i /\ \A k \in a..j : class[k] = class[i]
  BY <1>3
<1>6. b \in j..n /\ c \in Nat /\ \A k \in i..b : class[k] = class[i]
  BY <1>4
<1>7. \A k \in a..b : class[k] = class[a]
  <2>1. ASSUME NEW k \in a..b PROVE class[k] = class[i]
    <3>1. CASE k <= j
      BY <1>5, <2>1, <3>1
    <3>2. CASE k > j
      <4>1. k \in i..b
        BY <1>5, <1>6, <3>2
      <4> QED
        BY <1>6, <4>1
    <3> QED
      BY <1>5, <1>6, <3>1, <3>2
  <2>2. a \in a..b
    BY <1>5, <1>6
  <2> QED
    BY <2>1, <2>2
<1>8. class[a] = class[i]
  BY <1>5
<1>9. a = 1 \/ class[a - 1] # class[a]
  <2>1. ASSUME a # 1, class[a - 1] = class[a] PROVE FALSE
    <3>1. a - 1 \in 1..i
      BY <1>5, <2>1
    <3>2. ASSUME NEW k \in a - 1..j PROVE class[k] = class[i]
      <4>1. CASE k = a - 1
        BY <1>8, <2>1, <4>1
      <4>2. CASE k # a - 1
        BY <1>5, <4>2
      <4> QED
        BY <4>1, <4>2
    <3>3. a - 1 \in From
      BY <3>1, <3>2
    <3> QED
      BY <1>3, <1>5, <3>3
  <2> QED
    BY <2>1
<1>10. b = n \/ class[b + 1] # class[a]
  <2>1. ASSUME b # n, class[b + 1] = class[a] PROVE FALSE
    <3>1. c - 1 \in Nat /\ n - (c - 1) = b + 1 /\ b + 1 \in j..n
      BY <1>6, <2>1
    <3>2. ASSUME NEW k \in i..b + 1 PROVE class[k] = class[i]
      <4>1. CASE k = b + 1
        BY <1>8, <2>1, <4>1
      <4>2. CASE k # b + 1
        <5>1. k \in i..b
          BY <1>6, <3>1, <4>2
        <5> QED
          BY <1>6, <5>1
      <4> QED
        BY <4>1, <4>2
    <3>3. c - 1 \in To
      BY <3>1, <3>2
    <3> QED
      BY <1>4, <1>6, <3>1, <3>3
  <2> QED
    BY <2>1
<1> DEFINE p == <<a, b>>
<1>11. a \in 1..n /\ b \in 1..n /\ a <= b /\ a <= i /\ j <= b
  BY <1>5, <1>6
<1> HIDE DEF b, From, To
<1>12. p \in Pieces(class)
  BY <1>7, <1>9, <1>10, <1>11 DEF Pieces
<1> QED
  BY <1>11, <1>12

(* What the index holds of a text.                                          *)

\* What a class is of.
LEMMA Classes ==
  ASSUME NEW g
  PROVE  /\ ClassOf(g) = "script" <=> g \in Script
         /\ ClassOf(g) = "word" <=> g \in Words
         /\ g \in Script => g \notin Words /\ g \notin Joins
         /\ g \in Words => g \notin Joins
BY TextAssumption DEF ClassOf

\* A run is a stretch of one class that is no break.
LEMMA RunsAreStretches ==
  ASSUME NEW t \in Texted, NEW run \in ScriptRuns(t)
  PROVE  \E p \in Stretches(t) : run = Said(t, p) /\ \A k \in p[1]..p[2] : ClassOf(t[k]) = ClassOf(t[p[1]])
<1> DEFINE class == [i \in DOMAIN t |-> ClassOf(t[i])]
<1>1. PICK p \in Pieces(class) : run = Said(t, p)
  BY DEF ScriptRuns
<1>2. Len(t) \in Nat /\ DOMAIN t = 1..Len(t) /\ DOMAIN class = 1..Len(t)
  BY DEF Texted
<1>3. /\ p \in (1..Len(t)) \X (1..Len(t)) /\ p[1] <= p[2]
      /\ \A k \in p[1]..p[2] : class[k] = class[p[1]]
  <2> HIDE DEF class
  <2> QED
    BY <1>2 DEF Pieces
<1>4. \A k \in p[1]..p[2] : k \in DOMAIN t
  BY <1>2, <1>3
<1>5. \A k \in p[1]..p[2] : ClassOf(t[k]) = ClassOf(t[p[1]])
  BY <1>2, <1>3, <1>4
<1> QED
  BY <1>1, <1>3, <1>5 DEF Stretches

\* What is stored of a text: of its runs, its words and its names.
LEMMA LexemesHold ==
  ASSUME NEW t
  PROVE  /\ {<<w>> : w \in (ToSet(t) \cap Words) \ Stops} \subseteq LexemesOf(t)
         /\ {Lexeme(Said(t, q)) : q \in Identifying(t)} \subseteq LexemesOf(t)
BY DEF LexemesOf

\* Two characters of a space-less script side by side are stored.
LEMMA WindowStored ==
  ASSUME NEW t \in Texted, NEW i \in 1..Len(t) - 1, t[i] \in Script, t[i + 1] \in Script
  PROVE  <<t[i], t[i + 1]>> \in LexemesOf(t)
<1> DEFINE class == [k \in DOMAIN t |-> ClassOf(t[k])]
           n == Len(t)
<1>1. n \in Nat /\ DOMAIN t = 1..n /\ DOMAIN class = 1..n /\ Len(class) = n
  BY DEF Texted
<1>2. i \in 1..n /\ i + 1 \in i..n /\ \A k \in i..i + 1 : class[k] = class[i]
  <2>1. i \in Nat /\ i + 1 \in Nat /\ i >= 1 /\ i + 1 <= n
    BY <1>1
  <2>2. ASSUME NEW k \in i..i + 1 PROVE class[k] = class[i]
    <3>1. k = i \/ k = i + 1
      BY <2>1
    <3> QED
      BY <1>1, <2>1, <3>1, Classes
  <2> QED
    BY <2>1, <2>2
<1> HIDE DEF class
<1>3. PICK p \in Pieces(class) : p[1] <= i /\ i + 1 <= p[2] /\ p[1] \in 1..n /\ p[2] \in 1..n
  BY <1>1, <1>2, PieceAround
<1> DEFINE run == Said(t, p)
<1>4. class[i] = "script"
  BY <1>1, <1>2, Classes DEF class
<1>5. class[i] = class[p[1]] /\ class[p[1]] = ClassOf(t[p[1]])
  <2>1. i \in p[1]..p[2]
    BY <1>2, <1>3
  <2>2. class[i] = class[p[1]]
    BY <2>1 DEF Pieces
  <2> QED
    BY <1>1, <1>3, <2>2 DEF class
<1>6. p[1] <= p[2] /\ p \in (1..n) \X (1..n)
  BY <1>1, <1>2, <1>3 DEF Pieces
<1>7. p \in Stretches(t)
  BY <1>6 DEF Stretches
<1>8. /\ run \in Texted /\ Len(run) = p[2] - p[1] + 1
      /\ \A k \in 1..p[2] - p[1] + 1 : run[k] = t[p[1] + k - 1]
  BY <1>7, SaidGlyphs
<1>9. run \in ScriptRuns(t)
  BY <1>3, <1>4, <1>5 DEF ScriptRuns, class
<1>10. Stored(run) \subseteq LexemesOf(t)
  <2> HIDE DEF run
  <2> QED
    BY <1>9 DEF LexemesOf
<1> DEFINE j == i - p[1] + 1
<1>0. /\ p[1] \in Nat /\ p[2] \in Nat /\ i \in Nat /\ p[1] <= i /\ i + 1 <= p[2]
      /\ Len(run) = p[2] - p[1] + 1
  <2> HIDE DEF run
  <2> QED
    BY <1>2, <1>3, <1>8
<1>11. /\ j \in 1..Len(run) - 1 /\ Len(run) # 1 /\ 1 \in 1..p[2] - p[1] + 1
       /\ p[1] + 1 - 1 = p[1] /\ p[1] + j - 1 = i /\ p[1] + (j + 1) - 1 = i + 1
       /\ j \in 1..p[2] - p[1] + 1 /\ j + 1 \in 1..p[2] - p[1] + 1
  <2> DEFINE a == p[1]
             b == p[2]
             n0 == Len(run)
  <2>1. a \in Nat /\ b \in Nat /\ i \in Nat /\ a <= i /\ i + 1 <= b /\ n0 = b - a + 1
    BY <1>0
  <2>3. j = i - a + 1
    OBVIOUS
  <2> HIDE DEF a, b, n0, j
  <2>2. /\ j \in 1..n0 - 1 /\ n0 # 1 /\ 1 \in 1..b - a + 1
        /\ a + 1 - 1 = a /\ a + j - 1 = i /\ a + (j + 1) - 1 = i + 1
        /\ j \in 1..b - a + 1 /\ j + 1 \in 1..b - a + 1
    BY <2>1, <2>3
  <2> QED
    BY <2>2 DEF a, b, n0
<1>12. ClassOf(run[1]) = "script"
  BY <1>4, <1>5, <1>8, <1>11
<1>13. run[j] = t[i] /\ run[j + 1] = t[i + 1]
  BY <1>8, <1>11
<1> HIDE DEF run, j
<1>14. SubSeq(run, j, j + 1) = <<t[i], t[i + 1]>>
  BY <1>8, <1>11, <1>13, PairSaid
<1>15. SubSeq(run, j, j + 1) \in Stored(run)
  BY <1>11, <1>12 DEF Stored, Windows
<1> QED
  BY <1>10, <1>14, <1>15

\* The first character of a run begins a lexeme.
LEMMA RunStartStored ==
  ASSUME NEW t \in Texted, NEW run \in ScriptRuns(t), run[1] \in Script
  PROVE  \E l \in LexemesOf(t) : l[1] = run[1]
<1>1. PICK p \in Stretches(t) : run = Said(t, p)
  BY RunsAreStretches
<1>2. run \in Texted /\ Len(run) \in Nat /\ Len(run) >= 1
  BY <1>1, SaidGlyphs
<1>3. Stored(run) \subseteq LexemesOf(t)
  BY DEF LexemesOf
<1>4. ClassOf(run[1]) = "script"
  BY Classes
<1>5. CASE Len(run) = 1
  BY <1>3, <1>4, <1>5 DEF Stored
<1>6. CASE Len(run) # 1
  <2>0. Len(run) > 1
    BY <1>2, <1>6
  <2>1. 1 \in 1..Len(run) - 1
    BY <1>2, <2>0
  <2>2. SubSeq(run, 1, 1 + 1) = <<run[1], run[1 + 1]>>
    BY <1>2, <2>1, PairSaid
  <2>3. SubSeq(run, 1, 1 + 1) \in Stored(run)
    BY <1>4, <1>6, <2>1 DEF Stored, Windows
  <2>4. SubSeq(run, 1, 1 + 1)[1] = run[1]
    BY <2>2
  <2> QED
    BY <1>3, <2>3, <2>4
<1> QED
  BY <1>5, <1>6

\* What is joined stays so where it is spelled otherwise.
LEMMA JoinedSpelled ==
  ASSUME NEW t \in Texted, NEW p \in NamesIn(t), NEW g \in Texted,
         Lexeme(Said(t, p)) = Lexeme(g)
  PROVE  IsIdentifier(g)
<1>1. /\ p \in (1..Len(t)) \X (1..Len(t)) /\ p[2] > p[1] /\ (p[2] - p[1]) % 2 = 0
      /\ \A k \in p[1]..p[2] : IF (k - p[1]) % 2 = 0 THEN t[k] \in Words ELSE t[k] \in Joins
  BY DEF NamesIn, Whole, Joined, Texted
<1>2. p \in Stretches(t)
  BY <1>1 DEF Stretches, Texted
<1> DEFINE s == Said(t, p)
           n == p[2] - p[1] + 1
<1>3. /\ s \in Texted /\ Len(s) = n /\ DOMAIN s = 1..n /\ p[1] \in Nat /\ p[2] \in Nat
      /\ \A k \in 1..n : s[k] = t[p[1] + k - 1]
  BY <1>2, SaidGlyphs
<1> HIDE DEF s
<1>4. DOMAIN Lexeme(s) = 1..n /\ DOMAIN Lexeme(g) = DOMAIN g
  BY <1>3 DEF Lexeme
<1>5. Lexeme(s) = Lexeme(g)
  BY DEF s
<1>6. DOMAIN g = 1..n /\ Len(g) = n /\ n \in Nat /\ n > 1 /\ (n - 1) % 2 = 0
  <2>1. DOMAIN g = 1..Len(g) /\ Len(g) \in Nat
    BY DEF Texted
  <2>2. 1..Len(g) = 1..n
    BY <1>4, <1>5, <2>1
  <2>3. n \in Nat /\ n > 1 /\ n - 1 = p[2] - p[1]
    BY <1>1, <1>3
  <2>4. Len(g) = n
    <3>1. n \in 1..Len(g)
      BY <2>2, <2>3
    <3>2. Len(g) \in 1..n
      BY <2>1, <2>2, <3>1
    <3> QED
      BY <2>1, <2>3, <3>1, <3>2
  <2> QED
    BY <1>1, <2>1, <2>3, <2>4
<1>7. ASSUME NEW k \in 1..n
      PROVE  IF (k - 1) % 2 = 0 THEN g[k] \in Words ELSE g[k] \in Joins
  <2>1. Lexeme(s)[k] = IF s[k] = Hyphen THEN Underscore ELSE s[k]
    BY <1>3 DEF Lexeme
  <2>2. Lexeme(g)[k] = IF g[k] = Hyphen THEN Underscore ELSE g[k]
    BY <1>6 DEF Lexeme
  <2>3. Lexeme(s)[k] = Lexeme(g)[k]
    BY <1>5
  <2>4. Hyphen \in Joins /\ Underscore \in Joins
    BY DEF Joins
  <2> DEFINE m == p[1] + k - 1
  <2>5. m \in p[1]..p[2] /\ m - p[1] = k - 1 /\ s[k] = t[m]
    BY <1>3
  <2>6. IF (k - 1) % 2 = 0 THEN t[m] \in Words ELSE t[m] \in Joins
    BY <1>1, <2>5
  <2> HIDE DEF m
  <2>7. CASE (k - 1) % 2 = 0
    BY <2>1, <2>2, <2>3, <2>4, <2>5, <2>6, <2>7, Classes
  <2>8. CASE (k - 1) % 2 # 0
    BY <2>1, <2>2, <2>3, <2>4, <2>5, <2>6, <2>8
  <2> QED
    BY <2>7, <2>8
<1> HIDE DEF n
<1>8. Joined(g, 1, Len(g))
  BY <1>6, <1>7 DEF Joined
<1> QED
  BY <1>6, <1>8 DEF IsIdentifier

\* What an identifier begins with is a word.
LEMMA IdentifierBegins ==
  ASSUME NEW g \in Texted, IsIdentifier(g)
  PROVE  g[1] \in Words
<1>1. Len(g) \in Nat /\ Len(g) > 1 /\ Joined(g, 1, Len(g))
  BY DEF IsIdentifier, Texted
<1>2. 1 \in 1..Len(g) /\ (1 - 1) % 2 = 0
  BY <1>1
<1> QED
  BY <1>1, <1>2 DEF Joined

\* Characters of the space-less scripts throughout.
AllScript(g) == \A j \in 1..Len(g) : g[j] \in Script

\* A fragment a text says is found in what the index holds of it.
LEMMA SaidIsFound ==
  ASSUME NEW t \in Texted, NEW g \in Texted, g # << >>,
         g[1] \in Script => AllScript(g), Says(t, g)
  PROVE  Finds(g, LexemesOf(t))
<1>1. Len(g) \in Nat /\ Len(g) >= 1 /\ DOMAIN g = 1..Len(g) /\ Len(t) \in Nat /\ DOMAIN t = 1..Len(t)
  <2>1. Len(g) \in Nat \ {0}
    BY EmptySeq DEF Texted
  <2> QED
    BY <2>1 DEF Texted
<1>2. g[1] \in Script => ~IsIdentifier(g)
  BY IdentifierBegins, Classes
<1>3. CASE g[1] \in Script /\ Len(g) > 1
  <2>1. Occurs(g, t)
    BY <1>1, <1>3, Classes DEF Says
  <2>2. PICK i \in 0..Len(t) - Len(g) : \A j \in DOMAIN g : t[i + j] = g[j]
    BY <2>1 DEF Occurs
  <2>3. ASSUME NEW j \in 1..Len(g) - 1 PROVE SubSeq(g, j, j + 1) \in LexemesOf(t)
    <3>1. /\ i + j \in 1..Len(t) - 1 /\ i + (j + 1) = (i + j) + 1
          /\ j \in DOMAIN g /\ j + 1 \in DOMAIN g
      BY <1>1, <2>2
    <3>2. t[i + j] = g[j] /\ t[(i + j) + 1] = g[j + 1]
      BY <2>2, <3>1
    <3>3. g[j] \in Script /\ g[j + 1] \in Script
      BY <1>1, <1>3, <3>1 DEF AllScript
    <3>4. <<t[i + j], t[(i + j) + 1]>> \in LexemesOf(t)
      BY <3>1, <3>2, <3>3, WindowStored
    <3> QED
      BY <3>2, <3>4, PairSaid
  <2>4. Windows(g) \subseteq LexemesOf(t)
    BY <2>3 DEF Windows
  <2>5. ClassOf(g[1]) = "script" /\ Len(g) # 1
    BY <1>1, <1>3, Classes
  <2> QED
    BY <1>2, <1>3, <2>4, <2>5 DEF Finds
<1>4. CASE g[1] \in Script /\ Len(g) = 1
  <2>1. PICK run \in ScriptRuns(t) : run[1] = g[1]
    BY <1>4, Classes DEF Says
  <2>2. \E l \in LexemesOf(t) : l[1] = g[1]
    BY <1>4, <2>1, RunStartStored
  <2> QED
    BY <1>2, <1>4, <2>2, Classes DEF Finds
<1>5. CASE g[1] \in Words /\ Len(g) = 1
  <2>1. g[1] \notin Stops /\ Occurs(g, t)
    BY <1>5, Classes DEF Says
  <2>2. PICK i \in 0..Len(t) - Len(g) : \A j \in DOMAIN g : t[i + j] = g[j]
    BY <2>1 DEF Occurs
  <2>3. i + 1 \in 1..Len(t) /\ t[i + 1] = g[1]
    BY <1>1, <1>5, <2>2
  <2>4. g[1] \in (ToSet(t) \cap Words) \ Stops
    BY <1>1, <1>5, <2>1, <2>3 DEF ToSet
  <2>5. <<g[1]>> \in LexemesOf(t)
    <3>1. <<g[1]>> \in {<<w>> : w \in (ToSet(t) \cap Words) \ Stops}
      BY <2>4, Zenon
    <3> QED
      BY <3>1, LexemesHold, Zenon
  <2>6. g = <<g[1]>>
    <3>1. g[1] \in STRING
      BY <1>1 DEF Texted
    <3>2. <<g[1]>> \in Seq(STRING) /\ Len(<<g[1]>>) = 1 /\ <<g[1]>>[1] = g[1]
      BY <3>1
    <3>3. \A k \in 1..Len(g) : g[k] = <<g[1]>>[k]
      BY <1>5, <3>2
    <3> QED
      BY <1>5, <3>2, <3>3, SeqEqual DEF Texted
  <2>7. ~IsIdentifier(g) /\ ClassOf(g[1]) # "script"
    BY <1>5, Classes DEF IsIdentifier
  <2> QED
    BY <2>5, <2>6, <2>7 DEF Finds
<1>6. CASE g[1] \in Words /\ Len(g) > 1
  <2>1. PICK p \in NamesIn(t) : p[2] - p[1] < MaxIdentifier /\ Lexeme(Said(t, p)) = Lexeme(g)
    BY <1>6, Classes DEF Says
  <2>2. p \in Identifying(t)
    BY <2>1 DEF Identifying
  <2>3. Lexeme(g) \in LexemesOf(t)
    <3>1. Lexeme(Said(t, p)) \in {Lexeme(Said(t, q)) : q \in Identifying(t)}
      BY <2>2, Zenon
    <3> QED
      BY <2>1, <3>1, LexemesHold, Zenon
  <2>4. IsIdentifier(g)
    BY <2>1, JoinedSpelled
  <2>5. ClassOf(g[1]) # "script"
    BY <1>6, Classes
  <2> QED
    BY <2>3, <2>4, <2>5 DEF Finds
<1>7. CASE g[1] \notin Script \cup Words
  BY <1>7, Classes DEF Says
<1> QED
  BY <1>1, <1>3, <1>4, <1>5, <1>6, <1>7

(* What a question is cut into.                                             *)

\* What a function makes of finitely many is finite.
LEMMA ImageFinite ==
  ASSUME NEW f, IsFiniteSet(DOMAIN f)
  PROVE  LET T == {f[x] : x \in DOMAIN f} IN IsFiniteSet(T) /\ Cardinality(T) <= Cardinality(DOMAIN f)
<1> DEFINE T == {f[x] : x \in DOMAIN f}
           h == [x \in DOMAIN f |-> f[x]]
<1>1. h \in [DOMAIN f -> T]
  OBVIOUS
<1>2. \A y \in T : \E x \in DOMAIN f : h[x] = y
  OBVIOUS
<1> HIDE DEF h, T
<1>3. h \in Surjection(DOMAIN f, T)
  BY <1>1, <1>2 DEF Surjection
<1>4. IsFiniteSet(T) /\ Cardinality(T) <= Cardinality(DOMAIN f)
  BY <1>3, FS_Surjection
<1> QED
  BY <1>4 DEF T

\* Folding changes glyphs, and twice what once.
LEMMA FoldKeeps ==
  ASSUME NEW t \in Texted
  PROVE  /\ Fold(t) \in Texted /\ Len(Fold(t)) = Len(t)
         /\ Fold(t) \in Seq(STRING \ DOMAIN Folded)
         /\ \A i \in 1..Len(t) : Fold(t)[i] \notin DOMAIN Folded
<1>1. Len(t) \in Nat /\ DOMAIN t = 1..Len(t) /\ \A i \in 1..Len(t) : t[i] \in STRING
  BY DEF Texted
<1>2. Fold(t) = [i \in 1..Len(t) |-> IF t[i] \in DOMAIN Folded THEN Folded[t[i]] ELSE t[i]]
  BY <1>1 DEF Fold
<1>3. \A i \in 1..Len(t) : (IF t[i] \in DOMAIN Folded THEN Folded[t[i]] ELSE t[i]) \in STRING \ DOMAIN Folded
  BY <1>1, TextAssumption
<1>4. Fold(t) \in [1..Len(t) -> STRING \ DOMAIN Folded]
  BY <1>2, <1>3
<1>5. Fold(t) \in Seq(STRING \ DOMAIN Folded) /\ Len(Fold(t)) = Len(t)
  BY <1>1, <1>4
<1>6. Fold(t) \in Texted
  BY <1>5, SeqMonotonic DEF Texted
<1> QED
  BY <1>4, <1>5, <1>6, <1>1

\* A text nothing of which folds is folded.
LEMMA FoldedStays ==
  ASSUME NEW t \in Texted, \A i \in 1..Len(t) : t[i] \notin DOMAIN Folded
  PROVE  Fold(t) = t
<1>1. Fold(t) \in Texted /\ Len(Fold(t)) = Len(t)
  BY FoldKeeps
<1>2. \A i \in 1..Len(t) : Fold(t)[i] = t[i]
  BY DEF Fold, Texted
<1> QED
  BY <1>1, <1>2, SeqEqual DEF Texted

\* A fragment: it says something, and what begins with a character of a
\* space-less script is of them throughout.
Fit(g) == g \in Texted /\ Len(g) >= 1 /\ (g[1] \in Script => AllScript(g))

\* The runs of a question are stretches of one class that is no break.
LEMMA RunsFit ==
  ASSUME NEW q \in Texted, NEW p \in Runs(q)
  PROVE  /\ p \in Stretches(q)
         /\ \A k \in p[1]..p[2] : ClassOf(q[k]) = ClassOf(q[p[1]])
<1> DEFINE class == [i \in DOMAIN q |-> <<ClassOf(q[i]), InLoanword(q, i)>>]
<1>1. Len(q) \in Nat /\ DOMAIN q = 1..Len(q) /\ DOMAIN class = 1..Len(q)
  BY DEF Texted
<1>2. p \in Pieces(class)
  BY DEF Runs
<1>3. /\ p \in (1..Len(q)) \X (1..Len(q)) /\ p[1] <= p[2]
      /\ \A k \in p[1]..p[2] : class[k] = class[p[1]]
  <2> HIDE DEF class
  <2> QED
    BY <1>1, <1>2 DEF Pieces
<1>4. ASSUME NEW k \in p[1]..p[2] PROVE ClassOf(q[k]) = ClassOf(q[p[1]])
  <2>1. k \in DOMAIN q /\ p[1] \in DOMAIN q
    BY <1>1, <1>3
  <2>2. /\ class[k] = <<ClassOf(q[k]), InLoanword(q, k)>>
        /\ class[p[1]] = <<ClassOf(q[p[1]]), InLoanword(q, p[1])>>
    BY <2>1
  <2>3. class[k] = class[p[1]]
    BY <1>3
  <2> HIDE DEF class
  <2> QED
    BY <2>2, <2>3
<1> QED
  BY <1>3, <1>4 DEF Stretches

\* A glyph that is no break is in a run.
LEMMA RunAround ==
  ASSUME NEW q \in Texted, NEW i \in 1..Len(q), ClassOf(q[i]) # "break"
  PROVE  Runs(q) # {}
<1> DEFINE class == [k \in DOMAIN q |-> <<ClassOf(q[k]), InLoanword(q, k)>>]
           n == Len(q)
<1>1. n \in Nat /\ DOMAIN q = 1..n /\ DOMAIN class = 1..n /\ Len(class) = n
  BY DEF Texted
<1>2. class[i] = <<ClassOf(q[i]), InLoanword(q, i)>>
  BY <1>1
<1>3. i \in i..n /\ \A k \in i..i : class[k] = class[i]
  BY <1>1
<1> HIDE DEF class
<1>4. PICK p \in Pieces(class) : p[1] <= i /\ i <= p[2] /\ p[1] \in 1..n /\ p[2] \in 1..n
  BY <1>1, <1>3, PieceAround
<1>5. class[i] = class[p[1]]
  <2>1. i \in p[1]..p[2]
    BY <1>4
  <2> QED
    BY <2>1 DEF Pieces
<1>6. class[p[1]] = <<ClassOf(q[p[1]]), InLoanword(q, p[1])>>
  BY <1>1, <1>4 DEF class
<1>7. ClassOf(q[p[1]]) # "break"
  BY <1>2, <1>5, <1>6
<1>8. p \in Runs(q)
  BY <1>4, <1>7 DEF Runs, class
<1> QED
  BY <1>8

\* A name and its qualifiers are stretches that begin with no character of
\* the space-less scripts.
LEMMA NamesFit ==
  ASSUME NEW q \in Texted, NEW p \in Identifying(q)
  PROVE  p \in Stretches(q) /\ q[p[1]] \notin Script
<1>1. PICK m \in NamesIn(q) : p \in {m} \cup Qualifiers(q, m)
  BY DEF Identifying
<1>2. /\ m \in (1..Len(q)) \X (1..Len(q)) /\ m[2] > m[1] /\ Len(q) \in Nat
      /\ \A k \in m[1]..m[2] : q[k] \in Words \/ q[k] \in Joins
  BY DEF NamesIn, Whole, Joined, Texted
<1>3. /\ p \in (m[1]..m[2]) \X (m[1]..m[2]) /\ p[1] <= p[2]
  <2>1. CASE p = m
    BY <1>2, <2>1
  <2>2. CASE p \in Qualifiers(q, m)
    <3>1. p \in (m[1]..m[2]) \X (m[1]..m[2]) /\ \E k \in p[1]..p[2] : TRUE
      BY <2>2 DEF Qualifiers
    <3> QED
      BY <1>2, <3>1
  <2> QED
    BY <1>1, <2>1, <2>2
<1>4. p \in (1..Len(q)) \X (1..Len(q)) /\ p[1] \in m[1]..m[2]
  BY <1>2, <1>3
<1> QED
  BY <1>2, <1>3, <1>4, Classes DEF Stretches

\* A stretch of a text occurs in it.
LEMMA SaidOccurs ==
  ASSUME NEW t \in Texted, NEW p \in Stretches(t)
  PROVE  Occurs(Said(t, p), t)
<1> DEFINE a == p[1]
           b == p[2]
           g == Said(t, p)
<1>1. /\ g \in Texted /\ Len(g) = b - a + 1 /\ DOMAIN g = 1..b - a + 1
      /\ a \in Nat /\ b \in Nat /\ 1 <= a /\ a <= b /\ b <= Len(t) /\ Len(t) \in Nat
      /\ \A k \in 1..b - a + 1 : g[k] = t[a + k - 1]
  BY SaidGlyphs
<1> HIDE DEF a, b, g
<1>2. a - 1 \in 0..Len(t) - Len(g)
  BY <1>1
<1>3. \A j \in DOMAIN g : (a - 1) + j = a + j - 1
  BY <1>1
<1>4. \A j \in DOMAIN g : t[(a - 1) + j] = g[j]
  BY <1>1, <1>3
<1> QED
  BY <1>2, <1>4 DEF Occurs, g

\* What occurs in a part of a text occurs in the text.
LEMMA OccursThrough ==
  ASSUME NEW g \in Texted, NEW r \in Texted, NEW t \in Texted, Occurs(g, r), Occurs(r, t)
  PROVE  Occurs(g, t)
<1>1. /\ DOMAIN g = 1..Len(g) /\ DOMAIN r = 1..Len(r) /\ Len(g) \in Nat /\ Len(r) \in Nat /\ Len(t) \in Nat
  BY DEF Texted
<1>2. PICK i \in 0..Len(r) - Len(g) : \A j \in DOMAIN g : r[i + j] = g[j]
  BY DEF Occurs
<1>3. PICK k \in 0..Len(t) - Len(r) : \A j \in DOMAIN r : t[k + j] = r[j]
  BY DEF Occurs
<1>4. k + i \in 0..Len(t) - Len(g)
  BY <1>1
<1>5. \A j \in DOMAIN g : i + j \in DOMAIN r /\ (k + i) + j = k + (i + j)
  BY <1>1
<1>6. \A j \in DOMAIN g : t[(k + i) + j] = g[j]
  BY <1>2, <1>3, <1>5
<1> QED
  BY <1>4, <1>6 DEF Occurs

\* What a piece of a question is: a fragment that occurs in it, of one class
\* throughout; and what it is asked for as: pieces, and the names it holds.
Uniform(g) == \A j \in 1..Len(g) : ClassOf(g[j]) = ClassOf(g[1])
PieceOf(q, g) == Fit(g) /\ Occurs(g, q) /\ Uniform(g)
FragmentOf(q, g) ==
  Fit(g) /\ Occurs(g, q) /\ (Uniform(g) \/ \E p \in Identifying(q) : g = Said(q, p))

\* What a run is asked for as: something, and nothing but pieces of it.
LEMMA CutFits ==
  ASSUME NEW run \in Texted, Len(run) >= 1,
         \A k \in 1..Len(run) : ClassOf(run[k]) = ClassOf(run[1])
  PROVE  /\ Len(Cut(run)) \in Nat \ {0} /\ DOMAIN Cut(run) = 1..Len(Cut(run))
         /\ \A n \in 1..Len(Cut(run)) : PieceOf(run, Cut(run)[n])
<1>1. Len(run) \in Nat
  BY DEF Texted
<1>2. run[1] \in Script => AllScript(run)
  BY Classes DEF AllScript
<1>3. CASE ClassOf(run[1]) # "script" \/ Short(run) \/ KatakanaRun(run)
  <2>1. Cut(run) = <<run>>
    BY <1>3 DEF Cut
  <2>2. Len(<<run>>) = 1 /\ DOMAIN <<run>> = 1..1 /\ <<run>>[1] = run
    OBVIOUS
  <2>3. PieceOf(run, run)
    <3>1. Occurs(run, run)
      <4>1. 0 \in 0..Len(run) - Len(run) /\ \A j \in 1..Len(run) : 0 + j = j
        BY <1>1
      <4> QED
        BY <4>1 DEF Occurs, Texted
    <3> QED
      BY <1>2, <3>1 DEF PieceOf, Uniform, Fit
  <2>4. \A n \in 1..1 : PieceOf(run, <<run>>[n])
    BY <2>2, <2>3
  <2> QED
    BY <2>1, <2>2, <2>4
<1>4. CASE ~(ClassOf(run[1]) # "script" \/ Short(run) \/ KatakanaRun(run))
  <2> DEFINE all == {<<i, i + 1>> : i \in 1..Len(run) - 1}
             content == {w \in all : run[w[1]] \in ContentChars \/ Honorific(run[w[1]], run[w[2]])}
             S == OrAll(content, all)
             s == InReadingOrder(run, S)
  <2>1. Cut(run) = s
    BY <1>4 DEF Cut, ContentWindows
  <2>2. AllScript(run) /\ Len(run) > 2
    BY <1>1, <1>2, <1>4, Classes DEF Short
  <2>3. S \subseteq all /\ S # {}
    <3>1. content \subseteq all
      OBVIOUS
    <3>2. <<1, 1 + 1>> \in all
      BY <1>1, <2>2
    <3> HIDE DEF content, all
    <3> QED
      BY <3>1, <3>2 DEF OrAll
  <2>4. \A w \in all : w \in Stretches(run) /\ w[2] = w[1] + 1
    BY <1>1 DEF Stretches
  <2>5. S \in SUBSET Stretches(run)
    BY <2>3, <2>4
  <2> HIDE DEF S, all
  <2>6. /\ Len(s) \in Nat /\ DOMAIN s = 1..Len(s)
        /\ \A k \in 1..Len(s) : \E p \in S : s[k] = Said(run, p)
        /\ \A p \in S : \E k \in 1..Len(s) : s[k] = Said(run, p)
    BY <2>5, ReadingOrder
  <2>7. Len(s) # 0
    <3>1. PICK p \in S : TRUE
      BY <2>3
    <3>2. \E k \in 1..Len(s) : TRUE
      BY <2>6, <3>1
    <3> QED
      BY <3>2
  <2> HIDE DEF s
  <2>8. ASSUME NEW n \in 1..Len(s) PROVE PieceOf(run, s[n])
    <3>1. PICK p \in S : s[n] = Said(run, p)
      BY <2>6
    <3>2. p \in Stretches(run) /\ p[2] = p[1] + 1
      BY <2>3, <2>4
    <3>3. /\ s[n] \in Texted /\ Len(s[n]) = p[2] - p[1] + 1
          /\ p[1] \in Nat /\ p[2] \in Nat /\ 1 <= p[1] /\ p[2] <= Len(run)
          /\ \A k \in 1..p[2] - p[1] + 1 : s[n][k] = run[p[1] + k - 1]
      BY <3>1, <3>2, SaidGlyphs
    <3>4. ASSUME NEW k \in 1..Len(s[n]) PROVE s[n][k] \in Script
      <4>1. k \in 1..p[2] - p[1] + 1 /\ p[1] + k - 1 \in 1..Len(run)
        BY <1>1, <3>2, <3>3
      <4> QED
        BY <2>2, <3>3, <4>1 DEF AllScript
    <3>5. Occurs(s[n], run)
      BY <3>1, <3>2, SaidOccurs
    <3>6. Len(s[n]) = 2 /\ 1 \in 1..Len(s[n])
      BY <3>2, <3>3
    <3>7. \A k \in 1..Len(s[n]) : ClassOf(s[n][k]) = "script"
      BY <3>4, Classes
    <3>8. Uniform(s[n])
      BY <3>6, <3>7 DEF Uniform
    <3> QED
      BY <3>3, <3>4, <3>5, <3>6, <3>8 DEF PieceOf, Fit, AllScript
  <2> QED
    BY <2>1, <2>6, <2>7, <2>8
<1> QED
  BY <1>3, <1>4

\* Every fragment of every run gets a turn: what is taken is one of them, and
\* something is taken where there is one.
LEMMA TurnsTake ==
  ASSUME NEW K \in Nat, NEW cuts, DOMAIN cuts = 1..K,
         \A k \in 1..K : Len(cuts[k]) \in Nat /\ DOMAIN cuts[k] = 1..Len(cuts[k])
  PROVE  /\ Len(InTurn(cuts)) \in Nat /\ DOMAIN InTurn(cuts) = 1..Len(InTurn(cuts))
         /\ \A m \in 1..Len(InTurn(cuts)) : \E k \in 1..K : \E n \in 1..Len(cuts[k]) :
              InTurn(cuts)[m] = cuts[k][n]
         /\ (\E k \in 1..K : Len(cuts[k]) # 0) => Len(InTurn(cuts)) # 0
<1> DEFINE of == [k \in 1..K |-> {<<n, k>> : n \in DOMAIN cuts[k]}]
           turns == UNION {{<<n, k>> : n \in DOMAIN cuts[k]} : k \in DOMAIN cuts}
           fresh == {y \in turns : \A x \in turns :
                       <<x, y>> \in TurnsFirst(turns) => Takes(cuts, x) # Takes(cuts, y)}
           s == Arranged(fresh, TurnsFirst(fresh))
           N == Cardinality(fresh)
<1>1. \A x \in turns : \E k \in 1..K : \E n \in 1..Len(cuts[k]) : x = <<n, k>>
  OBVIOUS
<1>2. \A k \in 1..K : \A n \in 1..Len(cuts[k]) : <<n, k>> \in turns
  OBVIOUS
<1>3. turns \subseteq Nat \X Nat
  BY <1>1
<1>4. IsFiniteSet(turns)
  <2>1. IsFiniteSet(DOMAIN of)
    BY FS_Interval
  <2>2. {of[k] : k \in DOMAIN of} = {{<<n, k>> : n \in DOMAIN cuts[k]} : k \in DOMAIN cuts}
    OBVIOUS
  <2>3. ASSUME NEW k \in 1..K PROVE IsFiniteSet({<<n, k>> : n \in DOMAIN cuts[k]})
    <3>0. 1 \in Int /\ Len(cuts[k]) \in Int
      OBVIOUS
    <3>1. IsFiniteSet(1..Len(cuts[k]))
      BY <3>0, FS_Interval, Zenon
    <3>2. IsFiniteSet({k})
      BY FS_Singleton
    <3>3. IsFiniteSet((1..Len(cuts[k])) \X {k})
      BY <3>1, <3>2, FS_Product
    <3>4. {<<n, k>> : n \in DOMAIN cuts[k]} \subseteq (1..Len(cuts[k])) \X {k}
      OBVIOUS
    <3> QED
      BY <3>3, <3>4, FS_Subset
  <2> DEFINE T == {of[k] : k \in DOMAIN of}
  <2>4. \A x \in T : IsFiniteSet(x)
    BY <2>3
  <2>5. IsFiniteSet(T)
    <3> HIDE DEF of
    <3> QED
      BY <2>1, ImageFinite
  <2>6. turns = UNION T
    BY <2>2
  <2> HIDE DEF T, turns
  <2> QED
    BY <2>4, <2>5, <2>6, FS_UNION
<1> HIDE DEF turns
<1>5. fresh \subseteq turns /\ IsFiniteSet(fresh) /\ fresh \in SUBSET (Nat \X Nat)
  <2>1. fresh \subseteq turns
    OBVIOUS
  <2> QED
    BY <1>3, <1>4, <2>1, FS_Subset
<1>6. turns # {} => fresh # {}
  <2>1. ASSUME turns # {} PROVE fresh # {}
    <3>1. Orders(TurnsFirst(turns), turns)
      BY <1>3, TurnsOrdered
    <3>2. PICK a \in turns : \A b \in turns \ {a} : <<a, b>> \in TurnsFirst(turns)
      BY <1>4, <2>1, <3>1, HasFirst
    <3>3. \A x \in turns : <<x, a>> \notin TurnsFirst(turns)
      BY <3>1, <3>2 DEF Orders
    <3> QED
      BY <3>2, <3>3
  <2> QED
    BY <2>1
<1> HIDE DEF fresh
<1>7. Orders(TurnsFirst(fresh), fresh)
  BY <1>5, TurnsOrdered
<1>8. /\ N \in Nat /\ DOMAIN s = 1..N /\ \A k \in 1..N : s[k] \in fresh
      /\ \A x \in fresh : \E k \in 1..N : s[k] = x
  BY <1>5, <1>7, ArrangedHolds
<1>9. InTurn(cuts) = [m \in DOMAIN s |-> Takes(cuts, s[m])]
  BY DEF InTurn, fresh, turns
<1> HIDE DEF s, N
<1>10. Len(InTurn(cuts)) = N /\ DOMAIN InTurn(cuts) = 1..N
  BY <1>8, <1>9
<1>11. ASSUME NEW m \in 1..N
       PROVE  \E k \in 1..K : \E n \in 1..Len(cuts[k]) : InTurn(cuts)[m] = cuts[k][n]
  <2>1. PICK k \in 1..K : \E n \in 1..Len(cuts[k]) : s[m] = <<n, k>>
    BY <1>1, <1>5, <1>8
  <2>2. PICK n \in 1..Len(cuts[k]) : s[m] = <<n, k>>
    BY <2>1
  <2>3. Takes(cuts, s[m]) = cuts[k][n]
    BY <2>2 DEF Takes
  <2> QED
    BY <1>8, <1>9, <2>3
<1>12. ASSUME NEW k \in 1..K, Len(cuts[k]) # 0 PROVE N # 0
  <2>1. 1 \in 1..Len(cuts[k])
    BY <1>12
  <2>2. fresh # {}
    BY <1>2, <1>6, <2>1
  <2> QED
    BY <1>8, <2>2
<1> QED
  BY <1>8, <1>10, <1>11, <1>12

\* What is asked for of a question's runs: runs, and some where there are any.
LEMMA AskedFits ==
  ASSUME NEW q \in Texted
  PROVE  /\ Len(Asked(q)) \in Nat /\ DOMAIN Asked(q) = 1..Len(Asked(q))
         /\ \A k \in 1..Len(Asked(q)) : \E p \in Runs(q) : Asked(q)[k] = Said(q, p)
         /\ Runs(q) # {} => Len(Asked(q)) # 0
<1> DEFINE some == {p \in Runs(q) : ~Grammar(Said(q, p))}
           S == OrAll(some, Runs(q))
           s == InReadingOrder(q, S)
<1>1. Asked(q) = s
  BY DEF Asked
<1>2. some \subseteq Runs(q)
  OBVIOUS
<1> HIDE DEF some
<1>3. S \subseteq Runs(q) /\ (Runs(q) # {} => S # {})
  BY <1>2 DEF OrAll
<1>4. S \in SUBSET Stretches(q)
  BY <1>3, RunsFit
<1> HIDE DEF S
<1>5. /\ Len(s) \in Nat /\ DOMAIN s = 1..Len(s)
      /\ \A k \in 1..Len(s) : \E p \in S : s[k] = Said(q, p)
      /\ \A p \in S : \E k \in 1..Len(s) : s[k] = Said(q, p)
  BY <1>4, ReadingOrder
<1>6. ASSUME Runs(q) # {} PROVE Len(s) # 0
  <2>1. PICK p \in S : TRUE
    BY <1>3, <1>6
  <2>2. \E k \in 1..Len(s) : TRUE
    BY <1>5, <2>1
  <2> QED
    BY <2>2
<1> HIDE DEF s
<1> QED
  BY <1>1, <1>3, <1>5, <1>6

\* Every run asked for is cut into pieces of the question, and every name is one
\* it holds.
LEMMA CutsFit ==
  ASSUME NEW q \in Texted
  PROVE  LET cuts == CutsOf(Identifiers(q), Asked(q)) IN
         \E K \in Nat :
           /\ DOMAIN cuts = 1..K
           /\ \A k \in 1..K : /\ Len(cuts[k]) \in Nat /\ DOMAIN cuts[k] = 1..Len(cuts[k])
                              /\ \A n \in 1..Len(cuts[k]) : FragmentOf(q, cuts[k][n])
           /\ Runs(q) # {} => \E k \in 1..K : Len(cuts[k]) # 0
<1> DEFINE ids == Identifiers(q)
           runs == Asked(q)
           cuts == CutsOf(ids, runs)
           K == Len(ids) + Len(runs)
           S == FirstSaid(Lexeme(q), Identifying(q))
<1>1. S \subseteq Identifying(q)
  BY DEF FirstSaid
<1>2. S \in SUBSET Stretches(q)
  BY <1>1, NamesFit
<1>3. ids = InReadingOrder(q, S)
  BY DEF Identifiers
<1> HIDE DEF S
<1>4. /\ Len(ids) \in Nat /\ DOMAIN ids = 1..Len(ids)
      /\ \A k \in 1..Len(ids) : \E p \in S : ids[k] = Said(q, p)
  BY <1>2, <1>3, ReadingOrder
<1>5. /\ Len(runs) \in Nat /\ DOMAIN runs = 1..Len(runs)
      /\ \A k \in 1..Len(runs) : \E p \in Runs(q) : runs[k] = Said(q, p)
      /\ Runs(q) # {} => Len(runs) # 0
  BY AskedFits
<1> HIDE DEF ids, runs
<1>6. K \in Nat /\ DOMAIN cuts = 1..K
  BY <1>4, <1>5 DEF CutsOf
<1>7. ASSUME NEW k \in 1..Len(ids)
      PROVE  cuts[k] = <<ids[k]>> /\ FragmentOf(q, ids[k])
  <2>1. cuts[k] = <<ids[k]>>
    BY <1>4, <1>5 DEF CutsOf
  <2>2. PICK p \in S : ids[k] = Said(q, p)
    BY <1>4
  <2>3. p \in Stretches(q) /\ q[p[1]] \notin Script
    BY <1>1, <2>2, NamesFit
  <2>4. /\ ids[k] \in Texted /\ Len(ids[k]) = p[2] - p[1] + 1
        /\ p[1] \in Nat /\ p[2] \in Nat /\ p[1] <= p[2]
        /\ \A j \in 1..p[2] - p[1] + 1 : ids[k][j] = q[p[1] + j - 1]
    BY <2>2, <2>3, SaidGlyphs
  <2>5. Len(ids[k]) >= 1 /\ 1 \in 1..p[2] - p[1] + 1 /\ p[1] + 1 - 1 = p[1]
    BY <2>4
  <2>6. ids[k][1] = q[p[1]]
    BY <2>4, <2>5
  <2>7. Occurs(ids[k], q)
    BY <2>2, <2>3, SaidOccurs
  <2>8. \E o \in Identifying(q) : ids[k] = Said(q, o)
    BY <1>1, <2>2
  <2> QED
    BY <2>1, <2>3, <2>4, <2>5, <2>6, <2>7, <2>8 DEF Fit, FragmentOf
<1>8. ASSUME NEW k \in Len(ids) + 1..K
      PROVE  cuts[k] = Cut(runs[k - Len(ids)]) /\ k - Len(ids) \in 1..Len(runs)
  <2>1. k \in 1..K /\ ~(k <= Len(ids)) /\ k - Len(ids) \in 1..Len(runs)
    BY <1>4, <1>5
  <2> QED
    BY <2>1 DEF CutsOf
<1>9. ASSUME NEW m \in 1..Len(runs)
      PROVE  /\ Len(Cut(runs[m])) \in Nat \ {0} /\ DOMAIN Cut(runs[m]) = 1..Len(Cut(runs[m]))
             /\ \A n \in 1..Len(Cut(runs[m])) : FragmentOf(q, Cut(runs[m])[n])
  <2>1. PICK p \in Runs(q) : runs[m] = Said(q, p)
    BY <1>5
  <2>2. /\ p \in Stretches(q)
        /\ \A k \in p[1]..p[2] : ClassOf(q[k]) = ClassOf(q[p[1]])
    BY RunsFit
  <2>3. /\ runs[m] \in Texted /\ Len(runs[m]) = p[2] - p[1] + 1
        /\ p[1] \in Nat /\ p[2] \in Nat /\ p[1] <= p[2]
        /\ \A j \in 1..p[2] - p[1] + 1 : runs[m][j] = q[p[1] + j - 1]
    BY <2>1, <2>2, SaidGlyphs
  <2>4. Len(runs[m]) >= 1 /\ 1 \in 1..p[2] - p[1] + 1 /\ p[1] + 1 - 1 = p[1]
    BY <2>3
  <2>5. runs[m][1] = q[p[1]]
    BY <2>3, <2>4
  <2>6. ASSUME NEW j \in 1..Len(runs[m]) PROVE ClassOf(runs[m][j]) = ClassOf(runs[m][1])
    <3>1. j \in 1..p[2] - p[1] + 1 /\ p[1] + j - 1 \in p[1]..p[2]
      BY <2>3
    <3> QED
      BY <2>2, <2>3, <2>5, <3>1
  <2>7. /\ Len(Cut(runs[m])) \in Nat \ {0} /\ DOMAIN Cut(runs[m]) = 1..Len(Cut(runs[m]))
        /\ \A n \in 1..Len(Cut(runs[m])) : PieceOf(runs[m], Cut(runs[m])[n])
    BY <2>3, <2>4, <2>6, CutFits
  <2>8. Occurs(runs[m], q)
    BY <2>1, <2>2, SaidOccurs
  <2>9. \A g : PieceOf(runs[m], g) => FragmentOf(q, g)
    BY <2>3, <2>8, OccursThrough DEF PieceOf, FragmentOf, Fit
  <2> QED
    BY <2>7, <2>9
<1> HIDE DEF cuts, K
<1>10. ASSUME NEW k \in 1..K
       PROVE  /\ Len(cuts[k]) \in Nat /\ DOMAIN cuts[k] = 1..Len(cuts[k])
              /\ \A n \in 1..Len(cuts[k]) : FragmentOf(q, cuts[k][n])
  <2>1. CASE k \in 1..Len(ids)
    <3>1. cuts[k] = <<ids[k]>> /\ FragmentOf(q, ids[k])
      BY <1>7, <2>1
    <3>2. Len(<<ids[k]>>) = 1 /\ DOMAIN <<ids[k]>> = 1..1 /\ <<ids[k]>>[1] = ids[k]
      OBVIOUS
    <3>3. \A n \in 1..1 : FragmentOf(q, <<ids[k]>>[n])
      BY <3>1, <3>2
    <3> QED
      BY <3>1, <3>2, <3>3
  <2>2. CASE k \notin 1..Len(ids)
    <3>1. k \in Len(ids) + 1..K
      BY <1>4, <1>6, <2>2
    <3> QED
      BY <1>8, <1>9, <3>1
  <2> QED
    BY <2>1, <2>2
<1>11. ASSUME Runs(q) # {} PROVE \E k \in 1..K : Len(cuts[k]) # 0
  <2>1. 1 \in 1..Len(runs) /\ Len(ids) + 1 \in Len(ids) + 1..K /\ Len(ids) + 1 \in 1..K
        /\ (Len(ids) + 1) - Len(ids) = 1
    BY <1>4, <1>5, <1>11 DEF K
  <2>2. cuts[Len(ids) + 1] = Cut(runs[1])
    BY <1>8, <2>1
  <2> QED
    BY <1>9, <2>1, <2>2
<1> QED
  BY <1>6, <1>10, <1>11 DEF cuts, ids, runs

\* What is asked for occurs in the question, if that is not empty.
LEMMA FragmentsOccur ==
  ASSUME NEW query \in Texted, query # << >>
  PROVE  \A g \in ToSet(QueryFragments(query)) : FragmentOf(Fold(query), g)
<1> DEFINE q == Fold(query)
           frags == FragmentsOf(q)
           cuts == CutsOf(Identifiers(q), Asked(q))
<1>1. q \in Texted /\ Len(q) = Len(query) /\ Len(q) >= 1 /\ Len(q) \in Nat
  <2>1. Len(query) \in Nat \ {0}
    BY EmptySeq DEF Texted
  <2> QED
    BY <2>1, FoldKeeps
<1> HIDE DEF q
<1>2. PICK K \in Nat :
        /\ DOMAIN cuts = 1..K
        /\ \A k \in 1..K : /\ Len(cuts[k]) \in Nat /\ DOMAIN cuts[k] = 1..Len(cuts[k])
                           /\ \A n \in 1..Len(cuts[k]) : FragmentOf(q, cuts[k][n])
        /\ Runs(q) # {} => \E k \in 1..K : Len(cuts[k]) # 0
  BY <1>1, CutsFit
<1>3. frags = InTurn(cuts)
  BY DEF FragmentsOf
<1> HIDE DEF cuts, frags
<1>4. /\ Len(frags) \in Nat /\ DOMAIN frags = 1..Len(frags)
      /\ \A m \in 1..Len(frags) : \E k \in 1..K : \E n \in 1..Len(cuts[k]) : frags[m] = cuts[k][n]
      /\ (\E k \in 1..K : Len(cuts[k]) # 0) => Len(frags) # 0
  <2>1. DOMAIN cuts = 1..K /\ \A k \in 1..K : Len(cuts[k]) \in Nat /\ DOMAIN cuts[k] = 1..Len(cuts[k])
    BY <1>2
  <2>2. /\ Len(InTurn(cuts)) \in Nat /\ DOMAIN InTurn(cuts) = 1..Len(InTurn(cuts))
        /\ \A m \in 1..Len(InTurn(cuts)) :
             \E k \in 1..K : \E n \in 1..Len(cuts[k]) : InTurn(cuts)[m] = cuts[k][n]
        /\ (\E k \in 1..K : Len(cuts[k]) # 0) => Len(InTurn(cuts)) # 0
    BY <2>1, TurnsTake
  <2> QED
    BY <1>3, <2>2
<1>5. \A m \in 1..Len(frags) : FragmentOf(q, frags[m])
  BY <1>2, <1>4
<1>6. Runs(q) # {} => Len(frags) # 0
  BY <1>2, <1>4
<1> DEFINE all == OrWhole(frags, q)
<1>7. \A m \in DOMAIN all : FragmentOf(q, all[m])
  <2>1. CASE frags # << >>
    BY <1>4, <1>5, <2>1 DEF OrWhole
  <2>2. CASE frags = << >>
    <3>1. Runs(q) = {}
      BY <1>6, <2>2
    <3>2. 1 \in 1..Len(q)
      BY <1>1
    <3>3. \A i \in 1..Len(q) : ClassOf(q[i]) = "break"
      BY <1>1, <3>1, RunAround
    <3>4. FragmentOf(q, q)
      <4>1. 0 \in 0..Len(q) - Len(q) /\ \A j \in 1..Len(q) : 0 + j = j
        BY <1>1
      <4>2. Occurs(q, q)
        BY <1>1, <4>1 DEF Occurs, Texted
      <4>3. Fit(q) /\ Uniform(q)
        BY <1>1, <3>2, <3>3, Classes DEF Fit, Uniform
      <4> QED
        BY <4>2, <4>3 DEF FragmentOf
    <3>5. all = <<q>>
      BY <2>2 DEF OrWhole
    <3>6. DOMAIN <<q>> = 1..1 /\ <<q>>[1] = q
      OBVIOUS
    <3>7. \A m \in 1..1 : FragmentOf(q, <<q>>[m])
      BY <3>4, <3>6
    <3> QED
      BY <3>5, <3>6, <3>7
  <2> QED
    BY <2>1, <2>2
<1> HIDE DEF all
<1>8. QueryFragments(query) = Capped(all, MaxFragments)
  BY DEF QueryFragments, all, frags, q
<1>9. \A k \in DOMAIN Capped(all, MaxFragments) :
        k \in DOMAIN all /\ Capped(all, MaxFragments)[k] = all[k]
  BY DEF Capped
<1> QED
  BY <1>7, <1>8, <1>9 DEF ToSet, q

\* ... each of them of the scripts throughout, if it begins with them.
LEMMA FragmentsFit ==
  ASSUME NEW query \in Texted, query # << >>
  PROVE  \A g \in ToSet(QueryFragments(query)) : Fit(g)
BY FragmentsOccur DEF FragmentOf

-----------------------------------------------------------------------------
(* Sums and products.                                                       *)

\* A step from each number to the next makes a sequence of numbers.
LEMMA StepByStep ==
  ASSUME NEW n \in Nat, NEW a \in Int, NEW step \in [(1..n) \X Int -> Int]
  PROVE  \E h \in [0..n -> Int] : h[0] = a /\ \A i \in 1..n : h[i] = step[<<i, h[i - 1]>>]
<1> DEFINE Upto(m) == \E h \in [0..m -> Int] : h[0] = a /\ \A i \in 1..m : h[i] = step[<<i, h[i - 1]>>]
           bad == {m \in 0..n : ~Upto(m)}
<1>1. ASSUME bad # {} PROVE FALSE
  <2>1. bad \in SUBSET Nat
    OBVIOUS
  <2>2. PICK m \in bad : \A y \in bad : m <= y
    BY <1>1, <2>1, LeastNumber, Zenon
  <2>3. m # 0
    <3>1. ASSUME m = 0 PROVE Upto(m)
      <4> DEFINE h == [i \in 0..0 |-> a]
      <4>1. h \in [0..m -> Int] /\ h[0] = a /\ \A i \in 1..m : h[i] = step[<<i, h[i - 1]>>]
        BY <3>1
      <4> QED
        BY <4>1
    <3> QED
      BY <2>2, <3>1
  <2>4. m - 1 \in 0..n /\ m \in 1..n /\ Upto(m - 1)
    <3>1. m - 1 \in 0..n /\ m \in 1..n
      BY <2>2, <2>3
    <3>2. m - 1 \notin bad
      <4> HIDE DEF bad
      <4> QED
        BY <2>1, <2>2, <3>1
    <3> QED
      BY <3>1, <3>2
  <2>5. PICK h \in [0..m - 1 -> Int] :
          h[0] = a /\ \A i \in 1..m - 1 : h[i] = step[<<i, h[i - 1]>>]
    BY <2>4
  <2> DEFINE next == step[<<m, h[m - 1]>>]
             g == [i \in 0..m |-> IF i = m THEN next ELSE h[i]]
  <2>6. next \in Int
    <3>1. m - 1 \in 0..m - 1
      BY <2>4
    <3> QED
      BY <2>4, <2>5, <3>1
  <2>7. g \in [0..m -> Int] /\ g[m] = next /\ \A i \in 0..m - 1 : g[i] = h[i]
    <3> HIDE DEF next
    <3> QED
      BY <2>4, <2>5, <2>6
  <2>8. g[0] = a
    BY <2>4, <2>5, <2>7
  <2>9. ASSUME NEW i \in 1..m PROVE g[i] = step[<<i, g[i - 1]>>]
    <3> HIDE DEF g
    <3>1. i - 1 \in 0..m - 1
      BY <2>4
    <3>2. CASE i = m
      BY <2>7, <3>1, <3>2
    <3>3. CASE i # m
      <4>1. i \in 1..m - 1 /\ i \in 0..m - 1
        BY <2>4, <3>3
      <4> QED
        BY <2>5, <2>7, <3>1, <4>1
    <3> QED
      BY <3>2, <3>3
  <2> HIDE DEF g
  <2>10. Upto(m)
    BY <2>7, <2>8, <2>9
  <2> QED
    BY <2>2, <2>10
<1>2. n \in 0..n
  OBVIOUS
<1> QED
  BY <1>1, <1>2

\* What steps from number to number stays one.
LEMMA StepsStay ==
  ASSUME NEW n \in Nat, NEW f, NEW S, f[0] \in S,
         \A i \in 1..n : f[i - 1] \in S => f[i] \in S
  PROVE  \A i \in 0..n : f[i] \in S
<1> DEFINE bad == {i \in 0..n : f[i] \notin S}
<1>1. ASSUME bad # {} PROVE FALSE
  <2>1. PICK m \in bad : \A y \in bad : m <= y
    <3>1. bad \in SUBSET Nat
      OBVIOUS
    <3> QED
      BY <1>1, <3>1, LeastNumber, Zenon
  <2>2. m \in 1..n /\ m - 1 \in 0..n
    BY <2>1
  <2>3. m - 1 \notin bad
    BY <2>1, <2>2
  <2> QED
    BY <2>1, <2>2, <2>3
<1> QED
  BY <1>1

\* A sequence of numbers.
Numbers(values, S) ==
  Len(values) \in Nat /\ \A i \in 1..Len(values) : values[i] \in S

\* The values of a sequence, added up one after another.
LEMMA TotalSteps ==
  ASSUME NEW values, Numbers(values, Int)
  PROVE  \E f : /\ f[0] = 0 /\ Total(values) = f[Len(values)]
                /\ \A i \in 1..Len(values) : f[i] = f[i - 1] + values[i]
                /\ \A i \in 0..Len(values) : f[i] \in Int
<1> DEFINE sum[i \in 0..Len(values)] == IF i = 0 THEN 0 ELSE sum[i - 1] + values[i]
           n == Len(values)
           step == [p \in (1..n) \X Int |-> p[2] + values[p[1]]]
<1>1. n \in Nat /\ \A i \in 1..n : values[i] \in Int
  BY DEF Numbers
<1>2. step \in [(1..n) \X Int -> Int]
  BY <1>1
<1>3. \A i \in 1..n : \A x \in Int : step[<<i, x>>] = x + values[i]
  OBVIOUS
<1> HIDE DEF step
<1>4. PICK h \in [0..n -> Int] : h[0] = 0 /\ \A i \in 1..n : h[i] = step[<<i, h[i - 1]>>]
  <2>1. 0 \in Int
    OBVIOUS
  <2> HIDE DEF n
  <2> QED
    BY <1>1, <1>2, <2>1, StepByStep, Zenon
<1>5. \A i \in 1..n : i - 1 \in 0..n /\ h[i - 1] \in Int
  BY <1>1, <1>4
<1>6. \A i \in 1..n : h[i] = h[i - 1] + values[i]
  BY <1>3, <1>4, <1>5
<1>7. h = [i \in 0..n |-> IF i = 0 THEN 0 ELSE h[i - 1] + values[i]]
  <2>1. \A i \in 0..n : h[i] = IF i = 0 THEN 0 ELSE h[i - 1] + values[i]
    BY <1>1, <1>4, <1>6
  <2> QED
    BY <1>4, <2>1
<1>8. sum = [i \in 0..n |-> IF i = 0 THEN 0 ELSE sum[i - 1] + values[i]]
  BY <1>7, Zenon DEF sum
<1>9. Total(values) = sum[Len(values)]
  BY Zenon DEF Total
<1> HIDE DEF sum
<1>10. sum[0] = 0 /\ \A i \in 1..n : sum[i] = sum[i - 1] + values[i]
  BY <1>1, <1>8
<1>11. \A i \in 1..n : sum[i - 1] \in Int => sum[i] \in Int
  BY <1>1, <1>10
<1>12. \A i \in 0..n : sum[i] \in Int
  <2>1. n \in Nat /\ sum[0] \in Int
    BY <1>1, <1>10
  <2> HIDE DEF n
  <2> QED
    BY <1>11, <2>1, StepsStay, Zenon
<1> QED
  BY <1>9, <1>10, <1>12

-----------------------------------------------------------------------------
(* The words' ranking.                                                      *)
TextTyped == text \in [Ids -> ConceptText]

\* A list of hits: so many rows, each with its score and its verification.
Listed(list) ==
  /\ \E n \in Nat : DOMAIN list = 1..n
  /\ \A i \in DOMAIN list : list[i].id \in Ids /\ list[i].score \in Int /\ list[i].at \in Nullable

\* The first so many of the first numbers are the first numbers too.
LEMMA CutShort ==
  ASSUME NEW n \in Nat, NEW d \in Nat
  PROVE  \E m \in Nat : {i \in 1..n : i <= d} = 1..m
<1>1. CASE n <= d
  <2>1. {i \in 1..n : i <= d} = 1..n
    BY <1>1
  <2> QED
    BY <2>1
<1>2. CASE ~(n <= d)
  <2>1. {i \in 1..n : i <= d} = 1..d
    BY <1>2
  <2> QED
    BY <2>1
<1> QED
  BY <1>1, <1>2

\* The fragments of a question are a sequence.
LEMMA FragmentsAreMany ==
  ASSUME NEW query \in Texted, query # << >>
  PROVE  \E m \in Nat : DOMAIN QueryFragments(query) = 1..m
<1> DEFINE q == Fold(query)
           frags == FragmentsOf(q)
           cuts == CutsOf(Identifiers(q), Asked(q))
           all == OrWhole(frags, q)
<1>1. q \in Texted
  BY FoldKeeps
<1> HIDE DEF q
<1>2. PICK K \in Nat :
        /\ DOMAIN cuts = 1..K
        /\ \A k \in 1..K : Len(cuts[k]) \in Nat /\ DOMAIN cuts[k] = 1..Len(cuts[k])
  BY <1>1, CutsFit
<1>3. frags = InTurn(cuts)
  BY DEF FragmentsOf
<1> HIDE DEF cuts
<1>4. Len(frags) \in Nat /\ DOMAIN frags = 1..Len(frags)
  BY <1>2, <1>3, TurnsTake
<1> HIDE DEF frags
<1>5. \E n \in Nat : DOMAIN all = 1..n
  <2>1. DOMAIN <<q>> = 1..1
    OBVIOUS
  <2> QED
    BY <1>4, <2>1 DEF OrWhole
<1> HIDE DEF all
<1>6. PICK n \in Nat : DOMAIN all = 1..n
  BY <1>5
<1>7. QueryFragments(query) = Capped(all, MaxFragments)
  BY DEF QueryFragments, all, frags, q
<1>8. DOMAIN Capped(all, MaxFragments) = {i \in 1..n : i <= MaxFragments}
  BY <1>6 DEF Capped
<1>9. MaxFragments \in Nat
  BY TextAssumption
<1>10. \E m \in Nat : {i \in 1..n : i <= MaxFragments} = 1..m
  BY <1>6, <1>9, CutShort
<1> QED
  BY <1>7, <1>8, <1>10

\* The concepts found: finitely many, each of them once.
LEMMA FoundFew ==
  ASSUME NEW frags, NEW f
  PROVE  /\ IsFiniteSet(Found(frags, f)) /\ Cardinality(Found(frags, f)) <= Cardinality(Ids)
         /\ Cardinality(Found(frags, f)) \in Nat /\ Cardinality(Ids) \in Nat
         /\ \A x \in Found(frags, f) :
              /\ x.id \in Ids /\ Matches(x.id, f)
              /\ x = Holding(x.id, frags, Haystack(x.id))
<1> DEFINE rows == {i \in Ids : Matches(i, f)}
           h == [i \in rows |-> Holding(i, frags, Haystack(i))]
           all == {Holding(i, frags, Haystack(i)) : i \in rows}
<1>1. IsFiniteSet(Ids) /\ IsFiniteSet(rows) /\ Cardinality(rows) <= Cardinality(Ids)
      /\ Cardinality(Ids) \in Nat /\ Cardinality(rows) \in Nat
  BY RowsAssumption, FS_Subset, FS_CardinalityType
<1>2. DOMAIN h = rows /\ {h[i] : i \in DOMAIN h} = all
  OBVIOUS
<1> HIDE DEF h
<1>3. IsFiniteSet(all) /\ Cardinality(all) <= Cardinality(rows)
  <2> HIDE DEF rows, all
  <2> QED
    BY <1>1, <1>2, ImageFinite
<1>4. Found(frags, f) \subseteq all
  BY DEF Found
<1>5. IsFiniteSet(Found(frags, f)) /\ Cardinality(Found(frags, f)) <= Cardinality(all)
      /\ Cardinality(Found(frags, f)) \in Nat /\ Cardinality(all) \in Nat
  BY <1>3, <1>4, FS_Subset, FS_CardinalityType
<1>6. \A x \in all : x.id \in rows /\ x = Holding(x.id, frags, Haystack(x.id))
  BY DEF Holding
<1> QED
  BY <1>1, <1>3, <1>4, <1>5, <1>6

\* What weighs is a number.
LEMMA WeightsFit ==
  ASSUME NEW query \in Texted, query # << >>, NEW f, NEW S
  PROVE  LET frags == QueryFragments(query) IN
         Weight(Weighted(frags, Found(frags, f)), S) \in Int
<1> DEFINE frags == QueryFragments(query)
           found == Found(frags, f)
           weighted == Weighted(frags, found)
           values == [i \in DOMAIN weighted |-> IF weighted[i].frag \in S THEN weighted[i].weight ELSE 0]
<1>1. PICK m \in Nat : DOMAIN frags = 1..m
  BY FragmentsAreMany
<1>2. \A i \in 1..m : Fit(frags[i])
  BY <1>1, FragmentsFit DEF ToSet
<1>3. IsFiniteSet(found) /\ Cardinality(found) <= Cardinality(Ids) /\ Cardinality(found) \in Nat
      /\ Cardinality(Ids) \in Nat
  BY FoundFew
<1> HIDE DEF frags, found
<1>4. DOMAIN weighted = 1..m
      /\ \A i \in 1..m : weighted[i].weight
                          = WeightOf(frags[i], DocumentFrequency(found, frags[i]), Cardinality(found))
  BY <1>1 DEF Weighted
<1> HIDE DEF weighted
<1>5. ASSUME NEW i \in 1..m PROVE weighted[i].weight \in Int
  <2> DEFINE g == frags[i]
             df == DocumentFrequency(found, g)
             total == Cardinality(found)
  <2>1. df \in Nat /\ df <= total
    <3>1. {x \in found : g \in x.held} \in SUBSET found
      OBVIOUS
    <3> QED
      BY <1>3, <3>1, FS_Subset, FS_CardinalityType DEF DocumentFrequency
  <2>2. Stands(g) \in Int
    <3>1. Len(g) \in Nat
      BY <1>2 DEF Fit, Texted
    <3> QED
      BY <3>1 DEF Stands
  <2> HIDE DEF df, g, total
  <2>3. WeightOf(g, df, total) \in Int
    <3>1. CASE df = 0
      BY <3>1 DEF WeightOf
    <3>2. CASE df # 0
      <4>1. total \in 1..Cardinality(Ids) /\ df \in 1..total
        BY <1>3, <2>1, <3>2 DEF total
      <4>2. Rarity[total][df] \in Nat
        BY <4>1, SearchAssumption
      <4> QED
        BY <2>2, <3>2, <4>2 DEF WeightOf
    <3> QED
      BY <3>1, <3>2
  <2> QED
    BY <1>4, <2>3 DEF g, df, total
<1>6. Numbers(values, Int)
  BY <1>4, <1>5 DEF Numbers
<1> HIDE DEF values
<1>7. Total(values) \in Int
  <2>1. PICK h : Total(values) = h[Len(values)] /\ \A i \in 0..Len(values) : h[i] \in Int
    BY <1>6, TotalSteps
  <2>2. Len(values) \in 0..Len(values)
    BY <1>6 DEF Numbers
  <2> QED
    BY <2>1, <2>2
<1>8. Weight(weighted, S) = Total(values)
  BY DEF Weight, values
<1> QED
  BY <1>7, <1>8 DEF weighted, frags, found

\* The newest of the standing verifications is a time or none.
LEMMA StandingAtType ==
  ASSUME NEW r \in ConceptRow PROVE StandingAt(r) \in Nullable
BY DEF ConceptRow, StandingAt, Later, Nullable

\* What is scored is in one order.
LEMMA ScoredOrder ==
  ASSUME NEW query \in Texted, query # << >>, NEW f, RowsTyped
  PROVE  LET frags == QueryFragments(query)
             found == Found(frags, f)
             S == Scored(query, found, Weighted(frags, found)) IN
         /\ IsFiniteSet(S) /\ \A y \in S : \E x \in found : y.id = x.id
         /\ \A x \in found : \E y \in S : y.id = x.id
         /\ Orders({xy \in S \X S : WordsBefore(xy[1], xy[2])}, S)
         /\ \A y \in S : y.score \in Int
<1> DEFINE frags == QueryFragments(query)
           found == Found(frags, f)
           weighted == Weighted(frags, found)
           S == Scored(query, found, weighted)
           of == [x \in found |-> [id |-> x.id, score |-> Score(query, x, weighted),
                                   placed |-> Placed(x, weighted), standing |-> StandingAt(row[x.id])]]
           R == {xy \in S \X S : WordsBefore(xy[1], xy[2])}
<1>1. IsFiniteSet(found)
      /\ \A x \in found : x.id \in Ids /\ x = Holding(x.id, frags, Haystack(x.id))
  BY FoundFew
<1>2. \A T : Weight(weighted, T) \in Int
  BY WeightsFit
<1> HIDE DEF frags, found, weighted
<1>3. S = {of[x] : x \in DOMAIN of} /\ DOMAIN of = found
  BY DEF Scored
<1>4. IsFiniteSet(S)
  <2> HIDE DEF of, S
  <2> QED
    BY <1>1, <1>3, ImageFinite
<1>5. ASSUME NEW x \in found
      PROVE  Score(query, x, weighted) \in Int /\ Placed(x, weighted) \in Int
  <2> DEFINE a == Weight(weighted, x.held)
             b == Weight(weighted, {g \in x.asked : Occurs(g, NameText(x.id))})
             c == Weight(weighted, x.asked)
             d == IF Occurs(Fold(query), x.says) THEN 6 ELSE 0
             e == IF Called(x.id) \cap AskedNames(query) # {} THEN 20 ELSE 0
             v == IF Standing(row[x.id], Anyone) THEN 1 ELSE 0
  <2>1. a \in Int /\ b \in Int /\ c \in Int /\ d \in Int /\ e \in Int /\ v \in Int
    BY <1>2
  <2>2. Score(query, x, weighted) = 20 * a + 10 * b + c * (d + e + v)
    BY DEF Score
  <2>3. Placed(x, weighted) \in Int
    BY <1>2 DEF Placed
  <2> HIDE DEF a, b, c, d, e, v
  <2> QED
    BY <2>1, <2>2, <2>3
<1>6. \A x \in found : StandingAt(row[x.id]) \in Nullable
  BY <1>1, StandingAtType DEF RowsTyped
<1>7. \A y \in S : y.id \in Nat /\ y.score \in Int /\ y.placed \in Int /\ y.standing \in Nullable
  <2>1. Ids \subseteq Nat
    BY RowsAssumption
  <2>2. \A x \in found : /\ of[x].id \in Nat /\ of[x].score \in Int /\ of[x].placed \in Int
                         /\ of[x].standing \in Nullable
    BY <1>1, <1>5, <1>6, <2>1
  <2> HIDE DEF of, S
  <2> QED
    BY <1>3, <2>2
<1>8. \A y, z \in S : y.id = z.id => y = z
  <2>1. \A x, w \in found : x.id = w.id => x = w
    BY <1>1
  <2>2. \A x \in found : of[x].id = x.id
    OBVIOUS
  <2> HIDE DEF of, S
  <2> QED
    BY <1>3, <2>1, <2>2
<1>9. \A y \in S : \E x \in found : y.id = x.id
  BY DEF Scored
<1>10. \A x \in found : \E y \in S : y.id = x.id
  <2>1. \A x \in found : of[x].id = x.id
    OBVIOUS
  <2> HIDE DEF of, S
  <2> QED
    BY <1>3, <2>1
<1> HIDE DEF S
<1>11. None \notin Nat
  BY RowsAssumption
<1>12. \A y \in S : ~WordsBefore(y, y)
  BY <1>7, <1>11 DEF WordsBefore, NewerFirst, Nullable
<1>13. ASSUME NEW x \in S, NEW y \in S, NEW z \in S, WordsBefore(x, y), WordsBefore(y, z)
       PROVE  WordsBefore(x, z)
  BY <1>7, <1>11, <1>13 DEF WordsBefore, NewerFirst, Nullable
<1>14. ASSUME NEW x \in S, NEW y \in S, x # y PROVE WordsBefore(x, y) \/ WordsBefore(y, x)
  <2>1. x.id # y.id
    BY <1>8, <1>14
  <2> QED
    BY <1>7, <1>11, <2>1 DEF WordsBefore, NewerFirst, Nullable
<1>15. Orders(R, S)
  BY <1>12, <1>13, <1>14 DEF Orders
<1> QED
  BY <1>4, <1>7, <1>9, <1>10, <1>15 DEF S, R, weighted, found, frags

\* The list of the words: rows the filter admits, and some where any concept
\* holds a fragment.
LEMMA LexicalFinds ==
  ASSUME NEW query \in Texted, query # << >>, NEW f, NEW depth \in Nat \ {0}, RowsTyped
  PROVE  /\ Listed(Lexical(query, f, depth))
         /\ \A i \in DOMAIN Lexical(query, f, depth) : Matches(Lexical(query, f, depth)[i].id, f)
         /\ Found(QueryFragments(query), f) # {} => Lexical(query, f, depth) # << >>
<1> DEFINE frags == QueryFragments(query)
           found == Found(frags, f)
           weighted == Weighted(frags, found)
           S == Scored(query, found, weighted)
           R == {xy \in S \X S : WordsBefore(xy[1], xy[2])}
           s == Arranged(S, R)
           best == Capped(s, depth)
           list == [k \in DOMAIN best |-> Hit(best[k].id, best[k].score)]
<1>1. Lexical(query, f, depth) = list
  BY DEF Lexical, LexicalOf, RankedOf, Ranked, BestByWords
<1>2. /\ IsFiniteSet(S) /\ \A y \in S : \E x \in found : y.id = x.id
      /\ \A x \in found : \E y \in S : y.id = x.id
      /\ Orders(R, S) /\ \A y \in S : y.score \in Int
  BY ScoredOrder
<1>3. \A x \in found : x.id \in Ids /\ Matches(x.id, f)
  BY FoundFew
<1> HIDE DEF S, R, weighted, found, frags
<1>4. /\ Cardinality(S) \in Nat /\ DOMAIN s = 1..Cardinality(S)
      /\ \A k \in 1..Cardinality(S) : s[k] \in S
      /\ \A x \in S : \E k \in 1..Cardinality(S) : s[k] = x
  BY <1>2, ArrangedHolds
<1> HIDE DEF s
<1>5. \A k \in DOMAIN best : k \in DOMAIN s /\ best[k] = s[k]
  BY DEF Capped
<1>6. ASSUME NEW i \in DOMAIN list
      PROVE  /\ list[i].id \in Ids /\ Matches(list[i].id, f)
             /\ list[i].score \in Int /\ list[i].at \in Nullable
  <2>1. i \in DOMAIN best /\ best[i] \in S /\ list[i] = Hit(best[i].id, best[i].score)
    BY <1>4, <1>5
  <2>2. PICK x \in found : best[i].id = x.id
    BY <1>2, <2>1
  <2>3. list[i].id = x.id /\ list[i].score = best[i].score /\ list[i].at = LastVerified(row[x.id])
    BY <2>1, <2>2 DEF Hit
  <2>4. LastVerified(row[x.id]) \in Nullable
    BY <1>3, LastVerifiedType DEF RowsTyped
  <2> QED
    BY <1>2, <1>3, <2>1, <2>3, <2>4
<1>7. ASSUME found # {} PROVE list # << >>
  <2>1. PICK y \in S : TRUE
    BY <1>2, <1>7
  <2>2. 1 \in DOMAIN s
    BY <1>4, <2>1
  <2>3. 1 \in DOMAIN best
    BY <1>7, <2>2 DEF Capped
  <2>4. DOMAIN << >> = {}
    OBVIOUS
  <2> QED
    BY <2>3, <2>4
<1>8. \E m \in Nat : DOMAIN list = 1..m
  <2>1. DOMAIN list = {i \in 1..Cardinality(S) : i <= depth}
    BY <1>4 DEF Capped
  <2> HIDE DEF list
  <2> QED
    BY <1>4, <2>1, CutShort
<1> HIDE DEF list
<1> QED
  BY <1>1, <1>6, <1>7, <1>8 DEF Listed, found, frags

-----------------------------------------------------------------------------
(* The fusion.                                                              *)

\* What the shares are fractions of is a number.
LEMMA DenominatorIsNumber == Denominator \in Int
<1> DEFINE product[r \in 0..Cardinality(Ids)] == IF r = 0 THEN 1 ELSE product[r - 1] * (RrfK + r)
           n == Cardinality(Ids)
           step == [p \in (1..n) \X Int |-> p[2] * (RrfK + p[1])]
<1>1. n \in Nat
  BY RowsAssumption, FS_CardinalityType
<1>2. step \in [(1..n) \X Int -> Int]
  <2>1. ASSUME NEW p \in (1..n) \X Int PROVE p[2] * (RrfK + p[1]) \in Int
    <3> DEFINE a == RrfK + p[1]
               b == p[2]
    <3>1. a \in Int /\ b \in Int
      BY SearchAssumption
    <3> HIDE DEF a, b
    <3>2. b * a \in Int
      BY <3>1
    <3> QED
      BY <3>2 DEF a, b
  <2> QED
    BY <2>1
<1>3. \A i \in 1..n : \A x \in Int : step[<<i, x>>] = x * (RrfK + i)
  OBVIOUS
<1> HIDE DEF step
<1>4. PICK h \in [0..n -> Int] : h[0] = 1 /\ \A i \in 1..n : h[i] = step[<<i, h[i - 1]>>]
  <2>1. 1 \in Int
    OBVIOUS
  <2> HIDE DEF n
  <2> QED
    BY <1>1, <1>2, <2>1, StepByStep, Zenon
<1>5. \A i \in 1..n : i - 1 \in 0..n /\ h[i - 1] \in Int
  BY <1>1, <1>4
<1>6. \A i \in 1..n : h[i] = h[i - 1] * (RrfK + i)
  BY <1>3, <1>4, <1>5
<1>7. h = [i \in 0..n |-> IF i = 0 THEN 1 ELSE h[i - 1] * (RrfK + i)]
  <2>1. \A i \in 0..n : h[i] = IF i = 0 THEN 1 ELSE h[i - 1] * (RrfK + i)
    BY <1>1, <1>4, <1>6
  <2> QED
    BY <1>4, <2>1
<1>8. product = [i \in 0..n |-> IF i = 0 THEN 1 ELSE product[i - 1] * (RrfK + i)]
  BY <1>7, Zenon DEF product
<1>9. Denominator = product[n]
  BY Zenon DEF Denominator
<1> HIDE DEF product
<1>10. product[0] = 1 /\ \A i \in 1..n : product[i] = product[i - 1] * (RrfK + i)
  BY <1>1, <1>8
<1>11. ASSUME NEW i \in 1..n, product[i - 1] \in Int PROVE product[i] \in Int
  <2> DEFINE a == RrfK + i
             b == product[i - 1]
  <2>1. a \in Int /\ b \in Int /\ product[i] = b * a
    BY <1>1, <1>10, <1>11, SearchAssumption
  <2> HIDE DEF a, b
  <2> QED
    BY <2>1
<1>12. \A i \in 0..n : product[i] \in Int
  <2>1. n \in Nat /\ product[0] \in Int
    BY <1>1, <1>10
  <2> HIDE DEF n
  <2> QED
    BY <1>11, <2>1, StepsStay, Zenon
<1>13. n \in 0..n
  BY <1>1
<1> QED
  BY <1>9, <1>12, <1>13

\* What a place in a list is worth, and what a standing verification is.
LEMMA ShareIsNumber ==
  /\ \A rank \in Nat \ {0} : Share(rank) \in Int
  /\ Boost \in Int
<1>1. ASSUME NEW rank \in Nat \ {0} PROVE Share(rank) \in Int
  <2> DEFINE a == RrfK + rank
             b == Denominator
  <2>1. a \in Nat \ {0} /\ b \in Int
    BY SearchAssumption, DenominatorIsNumber
  <2> HIDE DEF a, b
  <2>2. b \div a \in Int
    BY <2>1
  <2> QED
    BY <2>2 DEF Share, a, b
<1>2. Share(1) \in Int /\ Share(2) \in Int
  BY <1>1
<1>3. Boost \in Int
  BY <1>2 DEF Boost
<1> QED
  BY <1>1, <1>3

\* What a list gives a concept.
LEMMA GivenByAList ==
  ASSUME NEW list, Listed(list), NEW a
  PROVE  ShareIn(list, a) \in Int /\ WordsScore(list, a) \in Int
<1> DEFINE shares == [i \in DOMAIN list |-> IF list[i].id = a THEN Share(i) ELSE 0]
           words == [i \in DOMAIN list |-> IF list[i].id = a THEN list[i].score ELSE 0]
<1>1. PICK n \in Nat : DOMAIN list = 1..n
  BY DEF Listed
<1>2. \A i \in 1..n : shares[i] \in Int /\ words[i] \in Int
  BY <1>1, ShareIsNumber DEF Listed
<1>3. Numbers(shares, Int) /\ Numbers(words, Int)
  BY <1>1, <1>2 DEF Numbers
<1>4. ASSUME NEW v, Numbers(v, Int) PROVE Total(v) \in Int
  <2>1. PICK h : Total(v) = h[Len(v)] /\ \A i \in 0..Len(v) : h[i] \in Int
    BY <1>4, TotalSteps
  <2>2. Len(v) \in 0..Len(v)
    BY <1>4 DEF Numbers
  <2> QED
    BY <2>1, <2>2
<1>5. ShareIn(list, a) = Total(shares) /\ WordsScore(list, a) = Total(words)
  BY DEF ShareIn, WordsScore
<1> HIDE DEF shares, words
<1> QED
  BY <1>3, <1>4, <1>5

\* What the three lists give it together.
LEMMA GivenTogether ==
  ASSUME NEW x, NEW y, NEW z, Listed(x), Listed(y), Listed(z), NEW a
  PROVE  Shares(<<x, y, z>>, a) \in Int
<1> DEFINE lists == <<x, y, z>>
           shares == [k \in DOMAIN lists |-> ShareIn(lists[k], a)]
<1>1. DOMAIN shares = 1..3 /\ shares[1] = ShareIn(x, a) /\ shares[2] = ShareIn(y, a)
      /\ shares[3] = ShareIn(z, a)
  OBVIOUS
<1>2. \A k \in 1..3 : shares[k] \in Int
  BY <1>1, GivenByAList
<1>3. Len(shares) = 3
  BY <1>1
<1>4. Shares(lists, a) = Total(shares)
  BY DEF Shares
<1> HIDE DEF shares
<1>5. Numbers(shares, Int)
  BY <1>2, <1>3 DEF Numbers
<1>6. PICK h : Total(shares) = h[Len(shares)] /\ \A i \in 0..Len(shares) : h[i] \in Int
  BY <1>5, TotalSteps
<1> QED
  BY <1>3, <1>4, <1>6

\* The hit the fusion keeps of a concept is one of the lists'.
LEMMA HitIsListed ==
  ASSUME NEW x, NEW y, NEW z, NEW a,
         \E l \in {x, y, z} : In(l, a)
  PROVE  \E l \in {x, y, z} : \E i \in DOMAIN l : HitIn(<<x, y, z>>, a) = l[i] /\ l[i].id = a
<1> DEFINE lists == <<x, y, z>>
           first == FirstWith(lists, a)
<1>1. DOMAIN lists = 1..3 /\ lists[1] = x /\ lists[2] = y /\ lists[3] = z
  OBVIOUS
<1>2. \E k \in DOMAIN lists : In(lists[k], a) /\ \A j \in 1..k - 1 : ~In(lists[j], a)
  <2>1. CASE In(x, a)
    <3>1. \A j \in 1..1 - 1 : ~In(lists[j], a)
      OBVIOUS
    <3> QED
      BY <1>1, <2>1, <3>1
  <2>2. CASE ~In(x, a) /\ In(y, a)
    <3>1. \A j \in 1..2 - 1 : j = 1
      OBVIOUS
    <3>2. \A j \in 1..2 - 1 : ~In(lists[j], a)
      BY <1>1, <2>2, <3>1
    <3> QED
      BY <1>1, <2>2, <3>2
  <2>3. CASE ~In(x, a) /\ ~In(y, a) /\ In(z, a)
    <3>1. \A j \in 1..3 - 1 : j = 1 \/ j = 2
      OBVIOUS
    <3>2. \A j \in 1..3 - 1 : ~In(lists[j], a)
      BY <1>1, <2>3, <3>1
    <3> QED
      BY <1>1, <2>3, <3>2
  <2> QED
    BY <2>1, <2>2, <2>3
<1>3. first \in DOMAIN lists /\ In(lists[first], a)
  <2> HIDE DEF lists
  <2> QED
    BY <1>2, Zenon DEF FirstWith
<1> DEFINE l == lists[first]
<1>4. l \in {x, y, z} /\ In(l, a)
  <2>1. first \in 1..3
    BY <1>1, <1>3
  <2>2. first = 1 \/ first = 2 \/ first = 3
    BY <2>1
  <2> QED
    BY <1>1, <1>3, <2>2
<1>5. HitIn(lists, a) = CHOOSE h \in ToSet(l) : h.id = a
  BY DEF HitIn
<1> HIDE DEF l, lists
<1>6. HitIn(lists, a) \in ToSet(l) /\ HitIn(lists, a).id = a
  BY <1>4, <1>5 DEF In
<1>7. PICK i \in DOMAIN l : HitIn(lists, a) = l[i]
  BY <1>6 DEF ToSet
<1> QED
  BY <1>4, <1>6, <1>7 DEF lists

\* What is in some list, and what the fusion makes of it.
InSome(lists) == {a \in Ids : \E l \in ToSet(lists) : In(l, a)}
FusedOf(query, lists) == {Fused(query, lists, a, HitIn(lists, a)) : a \in InSome(lists)}
FusedRank(S) == {xy \in S \X S : FusedBefore(xy[1], xy[2])}

\* What is fused is in one order.
LEMMA FusedOrder ==
  ASSUME NEW query, NEW x, NEW y, NEW z, Listed(x), Listed(y), Listed(z)
  PROVE  LET lists == <<x, y, z>>
             S == FusedOf(query, lists) IN
         /\ IsFiniteSet(S) /\ \A u \in S : u.id \in InSome(lists)
         /\ Orders(FusedRank(S), S)
<1> DEFINE lists == <<x, y, z>>
           some == InSome(lists)
           of == [a \in some |-> Fused(query, lists, a, HitIn(lists, a))]
           S == FusedOf(query, lists)
           R == FusedRank(S)
<1>1. S = {of[a] : a \in DOMAIN of} /\ DOMAIN of = some
  BY DEF FusedOf
<1>2. IsFiniteSet(some) /\ some \subseteq Nat
  BY RowsAssumption, FS_Subset DEF InSome
<1>3. IsFiniteSet(S)
  <2> HIDE DEF of, S, some
  <2> QED
    BY <1>1, <1>2, ImageFinite
<1>4. ToSet(lists) = {x, y, z}
  <2>1. ToSet(lists) = {lists[k] : k \in 1..3}
    BY DEF ToSet
  <2>2. lists[1] = x /\ lists[2] = y /\ lists[3] = z
    OBVIOUS
  <2> HIDE DEF lists
  <2>3. ASSUME NEW l \in ToSet(lists) PROVE l \in {x, y, z}
    <3>1. PICK k \in 1..3 : l = lists[k]
      BY <2>1
    <3>2. k = 1 \/ k = 2 \/ k = 3
      OBVIOUS
    <3> QED
      BY <2>2, <3>1, <3>2
  <2>4. 1 \in 1..3 /\ 2 \in 1..3 /\ 3 \in 1..3
    OBVIOUS
  <2>5. x \in ToSet(lists) /\ y \in ToSet(lists) /\ z \in ToSet(lists)
    BY <2>1, <2>2, <2>4
  <2> QED
    BY <2>3, <2>5
<1>5. ASSUME NEW a \in some
      PROVE  /\ of[a].id = a /\ of[a].named \in BOOLEAN /\ of[a].at \in Nullable
             /\ of[a].words \in Int /\ of[a].score \in Int
  <2> DEFINE hit == HitIn(lists, a)
             shares == Shares(lists, a)
             words == WordsScore(lists[1], a)
             boost == IF hit.checked THEN Boost ELSE 0
  <2>1. hit.at \in Nullable
    <3>1. \E l \in {x, y, z} : In(l, a)
      BY <1>4 DEF InSome
    <3>2. PICK l \in {x, y, z} : \E i \in DOMAIN l : hit = l[i]
      BY <3>1, HitIsListed
    <3> HIDE DEF hit
    <3> QED
      BY <3>2 DEF Listed
  <2>2. shares \in Int /\ words \in Int /\ boost \in Int
    <3>1. lists[1] = x
      OBVIOUS
    <3> QED
      BY <3>1, GivenTogether, GivenByAList, ShareIsNumber
  <2>3. /\ of[a].id = a /\ of[a].at = hit.at
        /\ of[a].named = (Called(a) \cap FusedNames(query) # {})
        /\ of[a].words = words /\ of[a].score = boost + shares
    BY DEF Fused
  <2> HIDE DEF hit, shares, words, boost, of
  <2> QED
    BY <2>1, <2>2, <2>3
<1>6. \A u \in S : /\ u.id \in some /\ u.id \in Nat /\ u.named \in BOOLEAN /\ u.at \in Nullable
                   /\ u.words \in Int /\ u.score \in Int
  <2> HIDE DEF of, S, some
  <2> TAKE u \in S
  <2>1. PICK a \in some : u = of[a]
    BY <1>1
  <2>2. a \in Nat
    BY <1>2
  <2> QED
    BY <1>5, <2>1, <2>2
<1>7. \A u, v \in S : u.id = v.id => u = v
  <2> HIDE DEF of, S, some
  <2> QED
    BY <1>1, <1>5
<1> HIDE DEF S, of, some, lists
<1>8. None \notin Nat
  BY RowsAssumption
<1>9. \A u \in S : ~FusedBefore(u, u)
  BY <1>6, <1>8 DEF FusedBefore, NewerFirst, Nullable
<1>10. ASSUME NEW u \in S, NEW v \in S, NEW w \in S, FusedBefore(u, v), FusedBefore(v, w)
       PROVE  FusedBefore(u, w)
  BY <1>6, <1>8, <1>10 DEF FusedBefore, NewerFirst, Nullable
<1>11. ASSUME NEW u \in S, NEW v \in S, u # v PROVE FusedBefore(u, v) \/ FusedBefore(v, u)
  <2>1. u.id # v.id
    BY <1>7, <1>11
  <2> QED
    BY <1>6, <1>8, <2>1 DEF FusedBefore, NewerFirst, Nullable
<1>12. Orders(R, S)
  BY <1>9, <1>10, <1>11 DEF Orders, FusedRank
<1> QED
  BY <1>3, <1>6, <1>12 DEF R, S, some, lists

\* The fusion takes its hits from the lists.
LEMMA FuseFinds ==
  ASSUME NEW query, NEW limit, NEW x, NEW y, NEW z, Listed(x), Listed(y), Listed(z),
         NEW i \in DOMAIN Fuse(query, limit, <<x, y, z>>)
  PROVE  \E l \in {x, y, z} : \E k \in DOMAIN l : l[k].id = Fuse(query, limit, <<x, y, z>>)[i]
<1> DEFINE lists == <<x, y, z>>
           S == FusedOf(query, lists)
           R == FusedRank(S)
           s == Arranged(S, R)
           best == Capped(s, limit)
           ids == [k \in DOMAIN best |-> best[k].id]
<1>1. Fuse(query, limit, lists) = ids
  BY DEF Fuse, BestFused, FusedOf, InSome, FusedRank
<1>2. i \in DOMAIN best /\ ids[i] = best[i].id
  BY <1>1
<1>3. IsFiniteSet(S) /\ Orders(R, S) /\ \A u \in S : u.id \in InSome(lists)
  BY FusedOrder
<1>4. i \in DOMAIN s /\ best[i] = s[i]
  BY <1>2 DEF Capped
<1> HIDE DEF S, R
<1>5. s[i] \in S
  BY <1>3, <1>4, ArrangedHolds
<1>6. best[i].id \in InSome(lists)
  BY <1>3, <1>4, <1>5
<1> HIDE DEF best
<1>7. PICK l \in ToSet(lists) : In(l, best[i].id)
  BY <1>6 DEF InSome
<1>8. l \in {x, y, z}
  BY <1>7 DEF ToSet
<1>9. \E k \in DOMAIN l : l[k].id = best[i].id
  BY <1>7 DEF In, ToSet
<1> QED
  BY <1>1, <1>2, <1>8, <1>9

-----------------------------------------------------------------------------
(* What a search holds.                                                     *)
AskFields == {"state", "query", "filter", "limit", "pending", "lexical", "vector", "files",
              "embedded", "worded", "hits", "degraded", "missed"}

\* A list of hits, all of them readable since the search began.
AllOpen(list) == Listed(list) /\ \A i \in DOMAIN list : list[i].id \in open

\* What a search has read so far, and what it will still read by.
AskOpen ==
  /\ DOMAIN ask = AskFields
  /\ ask.state = "asking" =>
       /\ ask.query \in Texted /\ ask.query # << >> /\ ask.limit \in Nat \ {0}
       /\ Confined(ask.filter, granted)
       /\ AllOpen(ask.lexical) /\ AllOpen(ask.vector) /\ AllOpen(ask.files)
  /\ \A i \in DOMAIN ask.hits : ask.hits[i] \in open

\* A request is under way.
Begun == IF reader = "walks" THEN walk.state # "none" ELSE ask.state # "none"

OpenInv ==
  /\ Typed /\ TextTyped
  /\ Begun => HereNow \subseteq open
  /\ \A a \in Objects : walk.given[a] > 0 => a \in open
  /\ AskOpen

\* The strengthened invariant says that only what is readable is given.
LEMMA OpenImplies == OpenInv => OnlyReadable
<1> SUFFICES ASSUME OpenInv PROVE OnlyReadable
  OBVIOUS
<1>1. ToSet(ask.hits) \subseteq open
  BY DEF OpenInv, AskOpen, ToSet
<1> QED
  BY <1>1 DEF OpenInv, OnlyReadable

\* A question not asked has found nothing.
LEMMA NoAskFields ==
  /\ DOMAIN NoAsk = AskFields /\ NoAsk.state = "none" /\ NoAsk.hits = << >>
  /\ NoAsk.lexical = << >> /\ NoAsk.vector = << >> /\ NoAsk.files = << >>
BY DEF NoAsk, AskFields


\* The vector search ranks concepts that match the filter.
LEMMA NearestFinds ==
  ASSUME RowsTyped, NEW f, NEW depth \in Nat, NEW list \in Nearest(f, depth)
  PROVE  Listed(list) /\ \A i \in DOMAIN list : Matches(list[i].id, f)
<1> DEFINE rows == {id \in Ids : Matches(id, f)}
           least == Min({Cardinality(rows), depth})
<1>1. PICK p \in Rankings(rows, depth) : list = [k \in DOMAIN p |-> Hit(p[k], 0)]
  BY DEF Nearest
<1>2. \E n \in 0..least : p \in [1..n -> rows]
  BY <1>1 DEF Rankings
<1>3. least \in Nat
  <2>1. Cardinality(rows) \in Nat
    BY RowsAssumption, FS_Subset, FS_CardinalityType
  <2> DEFINE c == Cardinality(rows)
  <2>2. \E m \in {c, depth} : \A y \in {c, depth} : m =< y
    BY <2>1
  <2> HIDE DEF c
  <2>3. Min({c, depth}) \in {c, depth}
    BY <2>2, Zenon DEF Min
  <2> QED
    BY <2>1, <2>3 DEF c
<1> HIDE DEF least
<1>4. PICK n \in 0..least : p \in [1..n -> rows]
  BY <1>2
<1>5. n \in Nat /\ DOMAIN list = 1..n
  BY <1>1, <1>3, <1>4
<1>6. ASSUME NEW i \in 1..n
      PROVE  /\ list[i].id \in Ids /\ Matches(list[i].id, f)
             /\ list[i].score \in Int /\ list[i].at \in Nullable
  <2>1. p[i] \in rows /\ list[i] = Hit(p[i], 0)
    BY <1>1, <1>4
  <2>2. list[i].id = p[i] /\ list[i].score = 0 /\ list[i].at = LastVerified(row[p[i]])
    BY <2>1 DEF Hit
  <2>3. LastVerified(row[p[i]]) \in Nullable
    BY <2>1, LastVerifiedType DEF RowsTyped
  <2> QED
    BY <2>1, <2>2, <2>3
<1> QED
  BY <1>5, <1>6 DEF Listed

\* A list that holds nothing.
LEMMA NothingListed == Listed(<< >>) /\ DOMAIN << >> = {}
<1>1. DOMAIN << >> = 1..0
  OBVIOUS
<1> QED
  BY <1>1 DEF Listed

\* The lists and the answer of a search that has begun, or failed, are empty.
LEMMA AskBegins ==
  ASSUME RowsTyped, TextTyped, Ask \/ Fails
  PROVE  /\ DOMAIN ask' = AskFields /\ ask'.hits = << >> /\ ask'.missed = FALSE
         /\ ask'.state = "asking" =>
              /\ ask'.query \in Texted /\ ask'.query # << >> /\ ask'.limit \in Nat \ {0}
              /\ ask'.lexical = << >> /\ ask'.vector = << >> /\ ask'.files = << >>
              /\ Confined(ask'.filter, scope) /\ ask'.filter # None
              /\ ask'.pending # {} /\ "lexical" \in ask'.pending
<1>1. CASE Fails
  <2>1. ask' = [NoAsk EXCEPT !.state = "failed"]
    BY <1>1 DEF Fails
  <2> QED
    BY <2>1 DEF NoAsk, AskFields
<1>2. CASE Ask
  <2>1. PICK q \in Questions \cup {text[id].title : id \in Ids}, f \in AskFilters,
            n \in AskLimits, embeds \in Embeds :
          q # << >> /\
          ask' = IF Narrow(f) = None
                 THEN [NoAsk EXCEPT !.state = "answered", !.query = q, !.limit = n]
                 ELSE [NoAsk EXCEPT !.state = "asking", !.query = q, !.filter = Narrow(f),
                                    !.limit = n, !.embedded = embeds,
                                    !.pending = {"lexical"} \cup IF embeds THEN {"embed"} ELSE {}]
    BY <1>2, Zenon DEF Ask
  <2>2. f \in FilterType /\ n \in Nat \ {0} /\ q \in Texted
    BY SearchAssumption DEF TextTyped, ConceptText, Text, Texted
  <2>3. CASE Narrow(f) = None
    <3>1. ask' = [NoAsk EXCEPT !.state = "answered", !.query = q, !.limit = n]
      BY <2>1, <2>3
    <3> QED
      BY <3>1 DEF NoAsk, AskFields
  <2>4. CASE Narrow(f) # None
    <3> DEFINE steps == {"lexical"} \cup IF embeds THEN {"embed"} ELSE {}
               left == Narrow(f)
    <3>1. ask' = [NoAsk EXCEPT !.state = "asking", !.query = q, !.filter = left, !.limit = n,
                               !.embedded = embeds, !.pending = steps]
      BY <2>1, <2>4
    <3>2. Confined(left, scope)
      BY <2>2, <2>4, NarrowConfines DEF RowsTyped
    <3>4. steps # {} /\ "lexical" \in steps
      OBVIOUS
    <3> HIDE DEF steps, left
    <3>3. /\ DOMAIN ask' = AskFields /\ ask'.hits = << >> /\ ask'.filter = left
          /\ ask'.query = q /\ ask'.limit = n /\ ask'.pending = steps /\ ask'.missed = FALSE
          /\ ask'.lexical = << >> /\ ask'.vector = << >> /\ ask'.files = << >>
      BY <3>1 DEF NoAsk, AskFields
    <3> QED
      BY <2>1, <2>2, <2>4, <3>2, <3>3, <3>4 DEF left
  <2> QED
    BY <2>3, <2>4
<1> QED
  BY <1>1, <1>2

\* What a step of a search adds to what it holds is readable since it began.
LEMMA AskGoesOn ==
  ASSUME OpenInv, reader = "asks", ask.state = "asking", UNCHANGED <<granted, open>>,
         RankWords \/ Embed \/ EmbedFails \/ RankVectors \/ Answer
  PROVE  AskOpen'
<1>1. /\ DOMAIN ask = AskFields /\ Confined(ask.filter, granted)
      /\ AllOpen(ask.lexical) /\ AllOpen(ask.vector) /\ AllOpen(ask.files)
      /\ \A i \in DOMAIN ask.hits : ask.hits[i] \in open
      /\ ask.query \in Texted /\ ask.query # << >> /\ ask.limit \in Nat \ {0}
      /\ RowsTyped
  BY DEF OpenInv, AskOpen, Typed
<1>0. 2 * ask.limit \in Nat \ {0}
  BY <1>1
<1>2. HereNow \subseteq open
  BY DEF OpenInv, Begun
<1>3. \A a \in Ids : Matches(a, ask.filter) => a \in open
  BY <1>1, <1>2, MatchesIsHere
<1>4. CASE RankWords
  <2> DEFINE list == Lexical(ask.query, ask.filter, 2 * ask.limit)
             steps == ask.pending \ {"lexical"}
             found == list # << >>
  <2>1. ask' = [ask EXCEPT !.pending = steps, !.lexical = list, !.worded = found]
    BY <1>4 DEF RankWords
  <2>2. AllOpen(list)
    <3>1. Listed(list) /\ \A i \in DOMAIN list : Matches(list[i].id, ask.filter)
      BY <1>0, <1>1, LexicalFinds
    <3> HIDE DEF list
    <3> QED
      BY <1>3, <3>1 DEF AllOpen, Listed
  <2> HIDE DEF list, steps, found
  <2>3. /\ DOMAIN ask' = AskFields /\ ask'.state = ask.state /\ ask'.filter = ask.filter
        /\ ask'.query = ask.query /\ ask'.limit = ask.limit
        /\ ask'.lexical = list /\ ask'.vector = ask.vector /\ ask'.files = ask.files
        /\ ask'.hits = ask.hits
    BY <1>1, <2>1 DEF AskFields
  <2> QED
    BY <1>1, <2>2, <2>3 DEF AskOpen, AllOpen, Listed
<1>5. CASE Embed \/ EmbedFails
  <2>1. /\ DOMAIN ask' = AskFields /\ ask'.state = ask.state /\ ask'.filter = ask.filter
        /\ ask'.query = ask.query /\ ask'.limit = ask.limit
        /\ ask'.lexical = ask.lexical /\ ask'.vector = ask.vector /\ ask'.files = ask.files
        /\ ask'.hits = ask.hits
    <3> DEFINE both == (ask.pending \ {"embed"}) \cup {"vector", "files"}
               none == ask.pending \ {"embed"}
    <3>1. CASE Embed
      <4>1. ask' = [ask EXCEPT !.pending = both]
        BY <3>1 DEF Embed
      <4> HIDE DEF both
      <4> QED
        BY <1>1, <4>1 DEF AskFields
    <3>2. CASE EmbedFails
      <4>1. ask' = [ask EXCEPT !.pending = none, !.embedded = FALSE, !.degraded = TRUE]
        BY <3>2 DEF EmbedFails
      <4> HIDE DEF none
      <4> QED
        BY <1>1, <4>1 DEF AskFields
    <3> QED
      BY <1>5, <3>1, <3>2
  <2> QED
    BY <1>1, <2>1 DEF AskOpen, AllOpen, Listed
<1>6. CASE RankVectors
  <2>1. PICK kind \in {"vector", "files"}, list \in Nearest(ask.filter, 2 * ask.limit) :
          ask' = [ask EXCEPT !.pending = ask.pending \ {kind}, ![kind] = list]
    BY <1>6, Zenon DEF RankVectors
  <2>2. AllOpen(list)
    <3>1. Listed(list) /\ \A i \in DOMAIN list : Matches(list[i].id, ask.filter)
      BY <1>0, <1>1, NearestFinds
    <3> QED
      BY <1>3, <3>1 DEF AllOpen, Listed
  <2>3. /\ DOMAIN ask' = AskFields /\ ask'.state = ask.state /\ ask'.filter = ask.filter
        /\ ask'.query = ask.query /\ ask'.limit = ask.limit
        /\ ask'.lexical = ask.lexical /\ ask'.hits = ask.hits
        /\ ask'.vector \in {ask.vector, list} /\ ask'.files \in {ask.files, list}
    <3> DEFINE steps == ask.pending \ {kind}
    <3>1. CASE kind = "vector"
      <4>1. ask' = [ask EXCEPT !.pending = steps, !.vector = list]
        BY <2>1, <3>1
      <4> HIDE DEF steps
      <4> QED
        BY <1>1, <4>1 DEF AskFields
    <3>2. CASE kind = "files"
      <4>1. ask' = [ask EXCEPT !.pending = steps, !.files = list]
        BY <2>1, <3>2
      <4> HIDE DEF steps
      <4> QED
        BY <1>1, <4>1 DEF AskFields
    <3> QED
      BY <3>1, <3>2
  <2> QED
    BY <1>1, <2>2, <2>3 DEF AskOpen, AllOpen, Listed
<1>7. CASE Answer
  <2> DEFINE ids == IF ask.embedded
                    THEN Fuse(ask.query, ask.limit, <<ask.lexical, ask.vector, ask.files>>)
                    ELSE [i \in DOMAIN Capped(ask.lexical, ask.limit) |-> ask.lexical[i].id]
             miss == ~ask.worded
  <2>1. ask' = [NoAsk EXCEPT !.state = "answered", !.query = ask.query, !.limit = ask.limit,
                             !.hits = ids, !.degraded = ask.degraded, !.missed = miss]
    BY <1>7 DEF Answer
  <2>2. \A i \in DOMAIN ids : ids[i] \in open
    <3>1. CASE ask.embedded
      <4>1. ASSUME NEW i \in DOMAIN ids PROVE ids[i] \in open
        <5>1. PICK l \in {ask.lexical, ask.vector, ask.files} :
                \E k \in DOMAIN l : l[k].id = ids[i]
          BY <1>1, <3>1, FuseFinds DEF AllOpen
        <5> HIDE DEF ids
        <5> QED
          BY <1>1, <5>1 DEF AllOpen
      <4> QED
        BY <4>1
    <3>2. CASE ~ask.embedded
      <4>1. ids = [i \in DOMAIN Capped(ask.lexical, ask.limit) |-> ask.lexical[i].id]
        BY <3>2
      <4>2. DOMAIN Capped(ask.lexical, ask.limit) \subseteq DOMAIN ask.lexical
        BY DEF Capped
      <4> HIDE DEF ids
      <4> QED
        BY <1>1, <4>1, <4>2 DEF AllOpen
    <3> QED
      BY <3>1, <3>2
  <2> HIDE DEF ids, miss
  <2>3. DOMAIN ask' = AskFields /\ ask'.state = "answered" /\ ask'.hits = ids
    BY <2>1 DEF NoAsk, AskFields
  <2> QED
    BY <2>2, <2>3 DEF AskOpen
<1> QED
  BY <1>4, <1>5, <1>6, <1>7

\* No step rewrites what the concepts say.
LEMMA TextStays == [Next]_vars => UNCHANGED text
BY DEF Next, Walks, Asks, Others, vars, walkVars, searchVars, Ask, RankWords, Embed, EmbedFails,
       RankVectors, Fails, Answer

\* Nothing was given at the start.
LEMMA OpenInit == Init => OpenInv
<1> SUFFICES ASSUME Init PROVE OpenInv
  OBVIOUS
<1>1. Typed
  BY TypedInit
<1>2. walk = NoWalk /\ ask = NoAsk
  BY DEF Init
<1>3. ~Begun /\ \A a \in Objects : walk.given[a] = 0
  BY <1>2, NoWalkFields, NoAskFields DEF Begun
<1>4. AskOpen
  BY <1>2, NoAskFields DEF AskOpen
<1>5. TextTyped
  BY BasesAssumption DEF Init, TextTyped
<1> QED
  BY <1>1, <1>3, <1>4, <1>5 DEF OpenInv

\* Every step keeps what was given within what was readable.
LEMMA OpenStep == OpenInv /\ [Next]_vars => OpenInv'
<1> SUFFICES ASSUME OpenInv, [Next]_vars PROVE OpenInv'
  OBVIOUS
<1>1. Typed /\ Typed'
  BY TypedStep DEF OpenInv
<1>8. TextTyped /\ TextTyped'
  BY TextStays DEF OpenInv, TextTyped
<1> DEFINE Given0 == \A a \in Objects : walk.given[a] > 0 => a \in open
           Seen == Begun => HereNow \subseteq open
<1> SUFFICES Seen' /\ Given0' /\ AskOpen'
  BY <1>1, <1>8 DEF OpenInv
<1>2. CASE (StartFeed \/ StartLevel) /\ Walks /\ Started
  <2>1. ask' = NoAsk /\ open' = HereNow'
    BY <1>1, <1>2 DEF Walks, Started, searchVars, Typed
  <2>2. walk'.given = [a \in Objects |-> 0]
    BY <1>2, FeedBegins, LevelBegins
  <2>3. AskOpen'
    BY <2>1, NoAskFields DEF AskOpen
  <2> QED
    BY <2>1, <2>2, <2>3
<1>3. CASE (NextPage \/ WrongPage) /\ Walks /\ Goes
  <2>1. UNCHANGED <<rowVars, ask, reader, granted, open>> /\ reader = "walks"
    BY <1>3 DEF Walks, Goes, searchVars
  <2>2. PICK page : Took(page) /\ page.given \subseteq HereNow
    BY <1>1, <1>3, <2>1, PageIsHere
  <2>3. walk.state = "walking" /\ HereNow \subseteq open
    BY <1>1, <1>3, <2>1, PageIsTaken DEF OpenInv, Begun
  <2>4. HereNow' = HereNow
    BY <2>1 DEF HereNow, Here, rowVars
  <2>5. ASSUME NEW a \in Objects, walk'.given[a] > 0 PROVE a \in open'
    <3>1. walk'.given[a] = IF a \in page.given /\ walk.given[a] < 2
                           THEN walk.given[a] + 1 ELSE walk.given[a]
      BY <1>1, <2>2, PageTaken DEF Typed
    <3>2. CASE a \in page.given
      BY <2>1, <2>2, <2>3, <3>2
    <3>3. CASE a \notin page.given
      BY <2>1, <2>5, <3>1, <3>3 DEF OpenInv
    <3> QED
      BY <3>2, <3>3
  <2>6. AskOpen'
    BY <2>1 DEF OpenInv, AskOpen, AllOpen, Listed, Confined
  <2> QED
    BY <2>1, <2>3, <2>4, <2>5, <2>6
<1>4. CASE Ask /\ Asks /\ Started
  <2>1. UNCHANGED <<rowVars, walk, reader>> /\ reader = "asks"
        /\ granted' = scope /\ open' = HereNow'
    BY <1>4 DEF Asks, Started, walkVars
  <2>2. walk' = NoWalk
    BY <1>1, <2>1 DEF Typed
  <2>3. AskOpen'
    BY <1>1, <1>4, <1>8, <2>1, AskBegins, NothingListed DEF AskOpen, AllOpen, Listed, Typed, Confined
  <2> QED
    BY <2>1, <2>2, <2>3, NoWalkFields
<1>5. CASE Asks /\ Goes /\ (Fails \/ RankWords \/ Embed \/ EmbedFails \/ RankVectors \/ Answer)
  <2>1. UNCHANGED <<rowVars, walk, reader, granted, open>> /\ reader = "asks"
    BY <1>5 DEF Asks, Goes, walkVars
  <2>2. ask.state = "asking"
    BY <1>5, Zenon DEF Fails, RankWords, Embed, EmbedFails, RankVectors, Answer, Pending
  <2>3. AskOpen'
    <3>1. CASE Fails
      <4>1. ask'.state = "failed"
        BY <3>1 DEF Fails, NoAsk
      <4> QED
        BY <1>1, <1>8, <3>1, <4>1, AskBegins, NothingListed DEF AskOpen, Typed
    <3> QED
      BY <1>5, <2>1, <2>2, <3>1, AskGoesOn
  <2>4. HereNow' = HereNow /\ HereNow \subseteq open
    BY <2>1, <2>2 DEF HereNow, Here, rowVars, OpenInv, Begun
  <2> QED
    BY <2>1, <2>3, <2>4 DEF OpenInv
<1>6. CASE Others /\ Meanwhile
  <2>1. UNCHANGED <<walk, ask, reader>> /\ open' = open \cup HereNow'
        /\ (reader = "asks" => granted' = granted)
    BY <1>1, <1>6 DEF Others, Meanwhile, walkVars, searchVars, Typed
  <2>2. AskOpen'
    <3>1. CASE reader = "walks"
      <4>1. ask' = NoAsk
        BY <1>1, <2>1, <3>1 DEF Typed
      <4> QED
        BY <4>1, NoAskFields DEF AskOpen
    <3>2. CASE reader = "asks"
      BY <2>1, <3>2 DEF OpenInv, AskOpen, AllOpen, Listed, Confined
    <3> QED
      BY <1>1, <3>1, <3>2 DEF Typed
  <2> QED
    BY <2>1, <2>2 DEF OpenInv
<1>7. CASE UNCHANGED vars
  <2>1. UNCHANGED <<row, stored, walk, ask, reader, granted, open>>
    BY <1>7 DEF vars, rowVars, walkVars, searchVars
  <2> QED
    BY <2>1 DEF OpenInv, HereNow, Here, Begun, AskOpen, AllOpen, Listed, Confined
<1> QED
  BY <1>2, <1>3, <1>4, <1>5, <1>6, <1>7 DEF Next

(* No page and no answer holds what its reader could not have read at some   *)
(* instant since it was asked for, whatever the filter, the scope, the lists *)
(* the answer is fused of, and what is written or regranted meanwhile        *)
(* (SearchOrList narrows the filter inside the scope; list.go, search.go).   *)
THEOREM NothingElseIsRead == Spec => []OnlyReadable
<1>1. Init => OpenInv
  BY OpenInit
<1>2. OpenInv /\ [Next]_vars => OpenInv'
  BY OpenStep
<1> QED
  BY <1>1, <1>2, OpenImplies, PTL DEF Spec

-----------------------------------------------------------------------------
(* What a miss means.                                                       *)

\* A body is kept folded: what the index holds of it is what it says.
LEMMA HaystackIsFolded ==
  ASSUME TextTyped, NEW a \in Ids
  PROVE  Haystack(a) \in Texted /\ Lexemes(Haystack(a)) = LexemesOf(Haystack(a))
<1> DEFINE kept == Seq(STRING \ DOMAIN Folded)
           n == Fold(text[a].name)
           t == Fold(text[a].title)
           h == Fold(text[a].heads)
           p == Fold(text[a].prose)
<1>1. /\ text[a].title \in Texted /\ text[a].name \in Texted
      /\ text[a].heads \in Texted /\ text[a].prose \in Texted
  BY DEF TextTyped, ConceptText, Text, Texted
<1>2. n \in kept /\ t \in kept /\ h \in kept /\ p \in kept
  BY <1>1, FoldKeeps
<1>3. <<Space>> \in kept
  <2> DEFINE glyphs == STRING \ DOMAIN Folded
  <2>1. Space \in glyphs
    BY TextAssumption
  <2> HIDE DEF glyphs
  <2>2. <<Space>> \in Seq(glyphs)
    BY <2>1
  <2> QED
    BY <2>2 DEF glyphs
<1>4. \A u, v \in kept : u \o v \in kept
  BY ConcatProperties, Zenon
<1>5. Haystack(a) = t \o <<Space>> \o n \o <<Space>> \o h \o <<Space>> \o p
  BY DEF Haystack, NameText
<1> HIDE DEF n, t, h, p
<1>6. Haystack(a) \in kept
  <2> DEFINE s == <<Space>>
  <2>1. s \in kept
    BY <1>3
  <2> HIDE DEF kept, s
  <2>2. (t \o s) \o n \in kept
    BY <1>2, <1>4, <2>1, Zenon
  <2>3. (((t \o s) \o n) \o s) \o h \in kept
    BY <1>2, <1>4, <2>1, <2>2, Zenon
  <2>4. (((((t \o s) \o n) \o s) \o h) \o s) \o p \in kept
    BY <1>2, <1>4, <2>1, <2>3, Zenon
  <2> QED
    BY <1>5, <2>4 DEF s
<1>7. Haystack(a) \in Texted
  <2>1. STRING \ DOMAIN Folded \subseteq STRING
    OBVIOUS
  <2> QED
    BY <1>6, <2>1, SeqMonotonic DEF Texted
<1>8. \A i \in 1..Len(Haystack(a)) : Haystack(a)[i] \notin DOMAIN Folded
  BY <1>6
<1>9. Fold(Haystack(a)) = Haystack(a)
  BY <1>7, <1>8, FoldedStays
<1> QED
  BY <1>7, <1>9 DEF Lexemes

\* A concept that says nothing of what is asked for.
Unsaid(a, query) == \A g \in ToSet(QueryFragments(query)) : ~Says(Haystack(a), g)

\* Where the words find nothing, no concept the filter admits says any of it.
LEMMA NothingFound ==
  ASSUME NEW query \in Texted, query # << >>, NEW f, NEW depth \in Nat \ {0},
         RowsTyped, TextTyped, Lexical(query, f, depth) = << >>,
         NEW a \in Ids, Matches(a, f)
  PROVE  Unsaid(a, query)
<1> DEFINE frags == QueryFragments(query)
           says == Haystack(a)
<1>1. Found(frags, f) = {}
  BY LexicalFinds
<1>2. ASSUME NEW g \in ToSet(frags), Says(says, g) PROVE FALSE
  <2>1. g \in Texted /\ Len(g) >= 1 /\ (g[1] \in Script => AllScript(g))
    BY FragmentsFit DEF Fit
  <2>2. g # << >>
    BY <2>1
  <2>3. Finds(g, Lexemes(says))
    BY <1>2, <2>1, <2>2, HaystackIsFolded, SaidIsFound
  <2> DEFINE x == Holding(a, frags, says)
  <2>4. g \in x.held
    BY <2>3 DEF Holding
  <2> HIDE DEF frags, says, x
  <2>5. x \in Found(frags, f)
    BY <2>4 DEF Found, x, says
  <2> QED
    BY <1>1, <2>5
<1> QED
  BY <1>2 DEF Unsaid

\* What a search under way knows of the concepts that stand still.
Missing ==
  /\ ask.state = "asking" =>
       /\ ~ask.missed
       /\ \A a \in steady : a \in Ids /\ Matches(a, ask.filter)
       /\ "lexical" \notin ask.pending /\ ~ask.worded => \A a \in steady : Unsaid(a, ask.query)
  /\ ask.missed => \A a \in steady : Unsaid(a, ask.query)
MissInv == OpenInv /\ (reader = "asks" => Missing)

\* What a question has not been answered has not missed.
LEMMA NoAskMisses == NoAsk.missed = FALSE
BY DEF NoAsk

\* The strengthened invariant says what a miss means.
LEMMA MissImplies == MissInv => MissMeansAbsent
BY NoAskMisses DEF MissInv, OpenInv, Typed, Missing, Unsaid, MissMeansAbsent

\* A step of a search keeps what it knows.
LEMMA MissGoesOn ==
  ASSUME MissInv, reader = "asks", ask.state = "asking", UNCHANGED <<row, text, steady>>,
         RankWords \/ Embed \/ EmbedFails \/ RankVectors \/ Answer
  PROVE  Missing'
<1>1. /\ DOMAIN ask = AskFields /\ Missing /\ RowsTyped /\ TextTyped
      /\ ask.query \in Texted /\ ask.query # << >> /\ 2 * ask.limit \in Nat \ {0}
  BY DEF MissInv, OpenInv, AskOpen, Typed
<1>2. \A a : Haystack(a)' = Haystack(a)
  BY DEF Haystack, NameText
<1>3. \A a, f : Matches(a, f)' = Matches(a, f)
  BY DEF Matches, TrustOf, Standing
<1>4. CASE RankWords
  <2> DEFINE list == Lexical(ask.query, ask.filter, 2 * ask.limit)
             steps == ask.pending \ {"lexical"}
             found == list # << >>
  <2>1. ask' = [ask EXCEPT !.pending = steps, !.lexical = list, !.worded = found]
    BY <1>4 DEF RankWords
  <2>2. ~found => \A a \in steady : Unsaid(a, ask.query)
    BY <1>1, NothingFound DEF Missing
  <2> HIDE DEF list, steps, found
  <2>3. /\ ask'.state = ask.state /\ ask'.filter = ask.filter /\ ask'.query = ask.query
        /\ ask'.missed = ask.missed /\ ask'.worded = found
    BY <1>1, <2>1 DEF AskFields
  <2> QED
    BY <1>1, <1>2, <1>3, <2>2, <2>3 DEF Missing, Unsaid
<1>5. CASE Embed \/ EmbedFails \/ RankVectors
  <2>1. /\ ask'.state = ask.state /\ ask'.filter = ask.filter /\ ask'.query = ask.query
        /\ ask'.missed = ask.missed /\ ask'.worded = ask.worded
        /\ "lexical" \in ask.pending => "lexical" \in ask'.pending
    <3> DEFINE both == (ask.pending \ {"embed"}) \cup {"vector", "files"}
               none == ask.pending \ {"embed"}
    <3>1. CASE Embed
      <4>1. ask' = [ask EXCEPT !.pending = both]
        BY <3>1 DEF Embed
      <4>2. "lexical" \in ask.pending => "lexical" \in both
        OBVIOUS
      <4> HIDE DEF both
      <4> QED
        BY <1>1, <4>1, <4>2 DEF AskFields
    <3>2. CASE EmbedFails
      <4>1. ask' = [ask EXCEPT !.pending = none, !.embedded = FALSE, !.degraded = TRUE]
        BY <3>2 DEF EmbedFails
      <4>2. "lexical" \in ask.pending => "lexical" \in none
        OBVIOUS
      <4> HIDE DEF none
      <4> QED
        BY <1>1, <4>1, <4>2 DEF AskFields
    <3>3. CASE RankVectors
      <4>1. PICK kind \in {"vector", "files"}, list \in Nearest(ask.filter, 2 * ask.limit) :
              ask' = [ask EXCEPT !.pending = ask.pending \ {kind}, ![kind] = list]
        BY <3>3, Zenon DEF RankVectors
      <4> DEFINE rest == ask.pending \ {kind}
      <4>2. "lexical" \in ask.pending => "lexical" \in rest
        OBVIOUS
      <4>3. CASE kind = "vector"
        <5>1. ask' = [ask EXCEPT !.pending = rest, !.vector = list]
          BY <4>1, <4>3
        <5> HIDE DEF rest
        <5> QED
          BY <1>1, <4>2, <5>1 DEF AskFields
      <4>4. CASE kind = "files"
        <5>1. ask' = [ask EXCEPT !.pending = rest, !.files = list]
          BY <4>1, <4>4
        <5> HIDE DEF rest
        <5> QED
          BY <1>1, <4>2, <5>1 DEF AskFields
      <4> QED
        BY <4>3, <4>4
    <3> QED
      BY <1>5, <3>1, <3>2, <3>3
  <2> QED
    BY <1>1, <1>2, <1>3, <2>1 DEF Missing, Unsaid
<1>6. CASE Answer
  <2> DEFINE ids == IF ask.embedded
                    THEN Fuse(ask.query, ask.limit, <<ask.lexical, ask.vector, ask.files>>)
                    ELSE [i \in DOMAIN Capped(ask.lexical, ask.limit) |-> ask.lexical[i].id]
             miss == ~ask.worded
  <2>1. ask' = [NoAsk EXCEPT !.state = "answered", !.query = ask.query, !.limit = ask.limit,
                             !.hits = ids, !.degraded = ask.degraded, !.missed = miss]
        /\ ask.pending = {}
    BY <1>6 DEF Answer
  <2>2. miss => \A a \in steady : Unsaid(a, ask.query)
    BY <1>1, <2>1 DEF Missing
  <2> HIDE DEF ids, miss
  <2>3. ask'.state = "answered" /\ ask'.query = ask.query /\ ask'.missed = miss
    BY <2>1 DEF NoAsk
  <2> QED
    BY <1>2, <2>2, <2>3 DEF Missing, Unsaid
<1> QED
  BY <1>4, <1>5, <1>6

\* Nothing is missed at the start.
LEMMA MissInit == Init => MissInv
<1> SUFFICES ASSUME Init PROVE MissInv
  OBVIOUS
<1>1. ask = NoAsk /\ OpenInv
  BY OpenInit DEF Init
<1> QED
  BY <1>1, NoAskFields, NoAskMisses DEF MissInv, Missing

\* Every step keeps what is known of a question's misses.
LEMMA MissStep == MissInv /\ [Next]_vars => MissInv'
<1> SUFFICES ASSUME MissInv, [Next]_vars PROVE MissInv'
  OBVIOUS
<1>1. OpenInv /\ OpenInv'
  BY OpenStep DEF MissInv
<1> SUFFICES ASSUME reader' = "asks" PROVE Missing'
  BY <1>1 DEF MissInv
<1>2. reader = "asks" /\ Missing
  BY DEF MissInv, Next, Walks, Asks, Others, vars
<1>3. RowsTyped /\ TextTyped /\ UNCHANGED text
  BY <1>1, TextStays DEF OpenInv, Typed
<1>4. \A a : Haystack(a)' = Haystack(a)
  BY <1>3 DEF Haystack, NameText
<1>5. CASE Ask /\ Asks /\ Started
  <2>1. /\ ask'.missed = FALSE
        /\ ask'.state = "asking" => ask'.filter # None /\ "lexical" \in ask'.pending
    BY <1>3, <1>5, AskBegins
  <2>2. ask'.state = "asking" => \A a \in steady' : a \in Ids /\ Matches(a, ask.filter)'
    BY <1>5, <2>1 DEF Started, Asks, About
  <2> QED
    BY <2>1, <2>2 DEF Missing
<1>6. CASE Fails /\ Asks /\ Goes
  <2>1. ask'.state = "failed" /\ ask'.missed = FALSE
    BY <1>6 DEF Fails, NoAsk
  <2> QED
    BY <2>1 DEF Missing
<1>7. CASE Asks /\ Goes /\ (RankWords \/ Embed \/ EmbedFails \/ RankVectors \/ Answer)
  <2>1. UNCHANGED <<row, text, steady>>
    BY <1>3, <1>7 DEF Asks, Goes, rowVars
  <2>2. ask.state = "asking"
    BY <1>7, Zenon DEF RankWords, Embed, EmbedFails, RankVectors, Answer, Pending
  <2> QED
    BY <1>2, <1>7, <2>1, <2>2, MissGoesOn
<1>8. CASE Others /\ Meanwhile
  <2>1. UNCHANGED ask /\ steady' = {a \in steady : Part(a)' = Part(a)}
    BY <1>8 DEF Others, Meanwhile, searchVars
  <2>2. ASSUME NEW a \in Ids, Part(a)' = Part(a) PROVE row'[a] = row[a]
    <3>1. Part(a) = <<row[a], Here(a)>> /\ Part(a)' = <<row'[a], Here(a)'>>
      BY <1>2 DEF Part
    <3> DEFINE r == row[a]
               s == row'[a]
               u == Here(a)
               v == Here(a)'
    <3>2. <<s, v>> = <<r, u>>
      BY <2>2, <3>1
    <3> HIDE DEF r, s, u, v
    <3>3. s = r
      BY <3>2
    <3> QED
      BY <3>3 DEF r, s
  <2>3. ASSUME ask.state = "asking", NEW a \in steady' PROVE a \in Ids /\ Matches(a, ask.filter)'
    <3>1. a \in steady /\ a \in Ids /\ Matches(a, ask.filter) /\ Part(a)' = Part(a)
      BY <1>2, <2>1, <2>3 DEF Missing
    <3>2. row'[a] = row[a]
      BY <2>2, <3>1
    <3> QED
      BY <2>1, <3>1, <3>2 DEF Matches, TrustOf, Standing
  <2>4. steady' \subseteq steady
    BY <2>1
  <2> QED
    BY <1>2, <1>4, <2>1, <2>3, <2>4 DEF Missing, Unsaid
<1>9. CASE UNCHANGED vars
  <2>1. UNCHANGED <<row, ask, steady>>
    BY <1>9 DEF vars, rowVars, searchVars
  <2>2. \A a, f : Matches(a, f)' = Matches(a, f)
    BY <2>1 DEF Matches, TrustOf, Standing
  <2> QED
    BY <1>2, <1>4, <2>1, <2>2 DEF Missing, Unsaid
<1>10. ~Walks
  BY <1>2 DEF Walks
<1> QED
  BY <1>5, <1>6, <1>7, <1>8, <1>9, <1>10 DEF Next

(* A question is counted as a miss only where no concept it could have been  *)
(* answered with says any of it, whatever the texts, the question, the       *)
(* dictionary and the bounds on fragments: every pair of characters, word,   *)
(* whole name and one-character run that is asked for is looked up as the    *)
(* lexeme the index keeps of it (QueryFragments and fragmentQuery beside     *)
(* ochakai_search_tsv), and the score cuts no list to nothing.               *)
THEOREM MissesAreAbsent == Spec => []MissMeansAbsent
<1>1. Init => MissInv
  BY MissInit
<1>2. MissInv /\ [Next]_vars => MissInv'
  BY MissStep
<1> QED
  BY <1>1, <1>2, MissImplies, PTL DEF Spec

-----------------------------------------------------------------------------
(* A name comes first.                                                      *)

\* No two words side by side.
Apart(t) == \A i \in 1..Len(t) - 1 : ~(t[i] \in Words /\ t[i + 1] \in Words)

\* What stands between the dots of a name is joined, as the name is.
LEMMA IdentifyingJoined ==
  ASSUME NEW t \in Texted, NEW p \in Identifying(t)
  PROVE  Joined(t, p[1], p[2]) /\ p \in Stretches(t)
<1>1. PICK m \in NamesIn(t) : p \in {m} \cup Qualifiers(t, m)
  BY DEF Identifying
<1>2. p \in Stretches(t)
  BY NamesFit
<1> DEFINE a == m[1]
           b == m[2]
           c == p[1]
           d == p[2]
<1>3. /\ a \in Nat /\ b \in Nat /\ b > a /\ (b - a) % 2 = 0
      /\ \A k \in a..b : IF (k - a) % 2 = 0 THEN t[k] \in Words ELSE t[k] \in Joins
      /\ Joined(t, a, b)
  BY DEF NamesIn, Whole, Joined, Texted
<1>4. CASE p = m
  BY <1>2, <1>3, <1>4
<1>5. CASE p \in Qualifiers(t, m)
  <2>1. /\ c \in a..b /\ d \in a..b
        /\ c = a \/ t[c - 1] = Dot
        /\ d = b \/ t[d + 1] = Dot
        /\ \E k \in c..d : t[k] \in {Underscore, Hyphen}
    BY <1>5 DEF Qualifiers
  <2>2. Dot \in Joins /\ Underscore \in Joins /\ Hyphen \in Joins
    BY DEF Joins
  <2>3. \A g \in Words : g \notin Joins
    BY Classes
  <2> HIDE DEF a, b, c, d
  <2>4. (c - a) % 2 = 0
    <3>1. CASE c = a
      BY <1>3, <3>1
    <3>2. CASE c # a
      <4>1. c - 1 \in a..b /\ t[c - 1] \in Joins
        BY <1>3, <2>1, <2>2, <3>2
      <4>2. ((c - 1) - a) % 2 # 0
        BY <1>3, <2>3, <4>1
      <4> QED
        BY <1>3, <2>1, <4>2
    <3> QED
      BY <3>1, <3>2
  <2>5. (d - a) % 2 = 0
    <3>1. CASE d = b
      BY <1>3, <3>1
    <3>2. CASE d # b
      <4>1. d + 1 \in a..b /\ t[d + 1] \in Joins
        BY <1>3, <2>1, <2>2, <3>2
      <4>2. ((d + 1) - a) % 2 # 0
        BY <1>3, <2>3, <4>1
      <4> QED
        BY <1>3, <2>1, <4>2
    <3> QED
      BY <3>1, <3>2
  <2>6. c \in Nat /\ d \in Nat /\ c <= d
    BY <1>3, <2>1
  <2>7. c # d
    <3>1. c \in a..b /\ t[c] \in Words
      BY <1>3, <2>1, <2>4
    <3> QED
      BY <2>1, <2>2, <2>3, <2>6, <3>1
  <2>8. d > c /\ (d - c) % 2 = 0
    BY <1>3, <2>4, <2>5, <2>6, <2>7
  <2>9. ASSUME NEW k \in c..d
        PROVE  IF (k - c) % 2 = 0 THEN t[k] \in Words ELSE t[k] \in Joins
    <3>1. k \in a..b /\ k \in Nat
      BY <1>3, <2>1, <2>6
    <3>2. (k - c) % 2 = 0 <=> (k - a) % 2 = 0
      BY <1>3, <2>4, <2>6, <3>1
    <3> QED
      BY <1>3, <3>1, <3>2
  <2>10. Joined(t, c, d)
    BY <2>8, <2>9 DEF Joined
  <2> QED
    BY <1>2, <2>10 DEF c, d
<1> QED
  BY <1>1, <1>4, <1>5

\* A name, or a part of one, is an identifier wherever it is written.
LEMMA IdentifyingSaid ==
  ASSUME NEW t \in Texted, NEW p \in Identifying(t)
  PROVE  IsIdentifier(Said(t, p))
<1> DEFINE a == p[1]
           b == p[2]
           g == Said(t, p)
           n == b - a + 1
<1>1. Joined(t, a, b) /\ p \in Stretches(t)
  BY IdentifyingJoined
<1>2. /\ g \in Texted /\ Len(g) = n /\ a \in Nat /\ b \in Nat
      /\ \A k \in 1..n : g[k] = t[a + k - 1]
  BY <1>1, SaidGlyphs
<1> HIDE DEF a, b, g
<1>3. /\ b > a /\ (b - a) % 2 = 0
      /\ \A k \in a..b : IF (k - a) % 2 = 0 THEN t[k] \in Words ELSE t[k] \in Joins
  BY <1>1 DEF Joined
<1>4. Len(g) > 1 /\ (Len(g) - 1) % 2 = 0 /\ Len(g) \in Nat
  BY <1>2, <1>3
<1>5. ASSUME NEW k \in 1..Len(g)
      PROVE  IF (k - 1) % 2 = 0 THEN g[k] \in Words ELSE g[k] \in Joins
  <2>1. a + k - 1 \in a..b /\ (a + k - 1) - a = k - 1 /\ g[k] = t[a + k - 1]
    BY <1>2
  <2>2. IF ((a + k - 1) - a) % 2 = 0 THEN t[a + k - 1] \in Words ELSE t[a + k - 1] \in Joins
    BY <1>3, <2>1
  <2> QED
    BY <2>1, <2>2
<1>6. Joined(g, 1, Len(g))
  BY <1>4, <1>5 DEF Joined
<1> QED
  BY <1>4, <1>6 DEF IsIdentifier, g

\* What a text is asked for and is not found in it is a word the dictionary
\* drops, a break, or one character left over.
LEMMA FragmentFound ==
  ASSUME NEW t \in Texted, Apart(t), NEW g, FragmentOf(t, g),
         ClassOf(g[1]) # "break", ~(Len(g) = 1 /\ g[1] \in Stops),
         ClassOf(g[1]) = "script" /\ Len(g) = 1 => Finds(g, LexemesOf(t))
  PROVE  Finds(g, LexemesOf(t))
<1>1. /\ g \in Texted /\ Len(g) >= 1 /\ Len(g) \in Nat /\ DOMAIN g = 1..Len(g)
      /\ g[1] \in Script => AllScript(g)
      /\ Occurs(g, t) /\ g # << >>
  BY DEF FragmentOf, Fit, Texted
<1>2. CASE \E p \in Identifying(t) : g = Said(t, p)
  <2>1. PICK p \in Identifying(t) : g = Said(t, p)
    BY <1>2
  <2>2. IsIdentifier(g)
    BY <2>1, IdentifyingSaid
  <2>3. Lexeme(Said(t, p)) \in {Lexeme(Said(t, q)) : q \in Identifying(t)}
    BY <2>1, Zenon
  <2>4. Lexeme(g) \in LexemesOf(t)
    BY <2>1, <2>3, LexemesHold, Zenon
  <2>5. ClassOf(g[1]) # "script"
    BY <1>1, <2>2, IdentifierBegins, Classes
  <2> QED
    BY <2>2, <2>4, <2>5 DEF Finds
<1>3. CASE Uniform(g) /\ ClassOf(g[1]) = "script" /\ Len(g) > 1
  <2>1. Says(t, g)
    BY <1>1, <1>3 DEF Says
  <2> QED
    BY <1>1, <2>1, SaidIsFound
<1>4. CASE Uniform(g) /\ ClassOf(g[1]) = "word"
  <2>1. Len(g) = 1
    <3>1. ASSUME Len(g) > 1 PROVE FALSE
      <4>1. PICK i \in 0..Len(t) - Len(g) : \A j \in DOMAIN g : t[i + j] = g[j]
        BY <1>1 DEF Occurs
      <4>2. 1 \in 1..Len(g) /\ 2 \in 1..Len(g) /\ i + 1 \in 1..Len(t) - 1 /\ (i + 1) + 1 = i + 2
        BY <1>1, <3>1 DEF Texted
      <4>3. g[1] \in Words /\ g[2] \in Words
        BY <1>4, <4>2, Classes DEF Uniform
      <4>4. t[i + 1] \in Words /\ t[(i + 1) + 1] \in Words
        BY <1>1, <4>1, <4>2, <4>3
      <4> QED
        BY <4>2, <4>4 DEF Apart
    <3> QED
      BY <1>1, <3>1
  <2>2. Says(t, g)
    BY <1>1, <1>4, <2>1 DEF Says
  <2> QED
    BY <1>1, <2>2, SaidIsFound
<1>5. ClassOf(g[1]) \in {"script", "word", "break"}
  BY DEF ClassOf
<1>6. Uniform(g) \/ \E p \in Identifying(t) : g = Said(t, p)
  BY DEF FragmentOf
<1>7. Len(g) = 1 \/ Len(g) > 1
  BY <1>1
<1> QED
  BY <1>2, <1>3, <1>4, <1>5, <1>6, <1>7

\* The index holds of any text script characters, words the dictionary keeps
\* and identifiers, and nothing else.
LEMMA LexemesBegin ==
  ASSUME NEW t \in Texted, NEW l \in LexemesOf(t)
  PROVE  l[1] \in Script \/ (l[1] \in Words /\ (Len(l) = 1 => l[1] \notin Stops))
<1>1. CASE \E r \in ScriptRuns(t) : l \in Stored(r)
  <2>1. PICK r \in ScriptRuns(t) : l \in Stored(r)
    BY <1>1
  <2>2. PICK p \in Stretches(t) : r = Said(t, p) /\ \A k \in p[1]..p[2] : ClassOf(t[k]) = ClassOf(t[p[1]])
    BY <2>1, RunsAreStretches
  <2>3. /\ r \in Texted /\ Len(r) = p[2] - p[1] + 1 /\ p[1] \in Nat /\ p[2] \in Nat /\ p[1] <= p[2]
        /\ \A k \in 1..p[2] - p[1] + 1 : r[k] = t[p[1] + k - 1]
    BY <2>2, SaidGlyphs
  <2>4. ASSUME NEW k \in 1..Len(r) PROVE ClassOf(r[k]) = ClassOf(r[1])
    <3>1. k \in 1..p[2] - p[1] + 1 /\ 1 \in 1..p[2] - p[1] + 1 /\ p[1] + k - 1 \in p[1]..p[2]
          /\ p[1] + 1 - 1 = p[1]
      BY <2>3
    <3>2. r[k] = t[p[1] + k - 1] /\ r[1] = t[p[1]]
      BY <2>3, <3>1
    <3> QED
      BY <2>2, <3>1, <3>2
  <2>5. ClassOf(r[1]) = "script"
    BY <2>1 DEF Stored
  <2>6. \A k \in 1..Len(r) : r[k] \in Script
    BY <2>4, <2>5, Classes
  <2>7. CASE Len(r) = 1
    <3>1. l = r
      BY <2>1, <2>5, <2>7 DEF Stored
    <3> QED
      BY <2>6, <2>7, <3>1
  <2>8. CASE Len(r) # 1
    <3>1. l \in Windows(r)
      BY <2>1, <2>5, <2>8 DEF Stored
    <3>2. PICK i \in 1..Len(r) - 1 : l = SubSeq(r, i, i + 1)
      BY <3>1 DEF Windows
    <3>3. l = <<r[i], r[i + 1]>> /\ i \in 1..Len(r)
      BY <2>3, <3>2, PairSaid
    <3> QED
      BY <2>6, <3>3
  <2> QED
    BY <2>7, <2>8
<1>2. CASE l \in {<<w>> : w \in (ToSet(t) \cap Words) \ Stops}
  <2>1. PICK w \in (ToSet(t) \cap Words) \ Stops : l = <<w>>
    BY <1>2, Zenon
  <2>2. l[1] = w
    BY <2>1
  <2> QED
    BY <2>1, <2>2
<1>3. CASE l \in {Lexeme(Said(t, p)) : p \in Identifying(t)}
  <2>1. PICK p \in Identifying(t) : l = Lexeme(Said(t, p))
    BY <1>3, Zenon
  <2> DEFINE g == Said(t, p)
  <2>2. g \in Texted
    BY IdentifyingJoined, SaidGlyphs
  <2>3. IsIdentifier(g)
    BY IdentifyingSaid
  <2>4. g[1] \in Words
    BY <2>2, <2>3, IdentifierBegins
  <2>5. DOMAIN g = 1..Len(g) /\ Len(g) > 1 /\ Len(g) \in Nat
    BY <2>2, <2>3 DEF IsIdentifier, Texted
  <2> HIDE DEF g
  <2>6. DOMAIN l = 1..Len(g) /\ l[1] = IF g[1] = Hyphen THEN Underscore ELSE g[1]
    BY <2>1, <2>5 DEF Lexeme, g
  <2>7. g[1] # Hyphen
    BY <2>4, Classes DEF Joins
  <2>8. Len(l) = Len(g)
    BY <2>1, <2>5, <2>6 DEF Lexeme, g
  <2> QED
    BY <2>4, <2>5, <2>6, <2>7, <2>8
<1> QED
  BY <1>1, <1>2, <1>3 DEF LexemesOf

\* Neither a break nor a dropped word is found in any text.
LEMMA NeverFound ==
  ASSUME NEW t \in Texted, NEW g \in Texted, Len(g) >= 1,
         ClassOf(g[1]) = "break" \/ (Len(g) = 1 /\ g[1] \in Stops)
  PROVE  ~Finds(g, LexemesOf(t))
<1>1. g[1] \notin Script
  BY Classes, TextAssumption
<1>2. ~IsIdentifier(g)
  <2>1. CASE ClassOf(g[1]) = "break"
    <3>1. g[1] \notin Words
      BY <2>1, Classes
    <3> QED
      BY <3>1, IdentifierBegins
  <2>2. CASE Len(g) = 1
    BY <2>2 DEF IsIdentifier
  <2> QED
    BY <2>1, <2>2
<1>3. g \notin LexemesOf(t)
  BY <1>1, LexemesBegin, Classes
<1> QED
  BY <1>1, <1>2, <1>3, Classes DEF Finds

\* A text set in another between spaces, or at its ends.
SetIn(q, t, d) ==
  /\ d \in Nat /\ d + Len(q) <= Len(t)
  /\ \A i \in 1..Len(q) : t[d + i] = q[i]
  /\ d = 0 \/ t[d] = Space
  /\ d + Len(q) = Len(t) \/ t[d + Len(q) + 1] = Space
Along(p, d) == <<p[1] + d, p[2] + d>>

\* A space is of no class and joins nothing.
LEMMA SpaceParts == ClassOf(Space) = "break" /\ Space \notin Words /\ Space \notin Joins
  BY TextAssumption, Classes DEF ClassOf

\* What is said of a text is said where it is set.
LEMMA SaidAlong ==
  ASSUME NEW q \in Texted, NEW t \in Texted, NEW d, SetIn(q, t, d), NEW p \in Stretches(q)
  PROVE  /\ Along(p, d) \in Stretches(t) /\ Said(t, Along(p, d)) = Said(q, p)
         /\ Along(p, d)[1] = p[1] + d /\ Along(p, d)[2] = p[2] + d
<1> DEFINE a == p[1]
           b == p[2]
           o == Along(p, d)
<1>1. /\ a \in 1..Len(q) /\ b \in 1..Len(q) /\ a <= b /\ Len(q) \in Nat /\ Len(t) \in Nat
      /\ d \in Nat /\ d + Len(q) <= Len(t) /\ \A i \in 1..Len(q) : t[d + i] = q[i]
  BY DEF Stretches, SetIn, Texted
<1>2. o = <<a + d, b + d>> /\ o[1] = a + d /\ o[2] = b + d
  BY DEF Along
<1> HIDE DEF a, b, o
<1>3. o \in Stretches(t)
  BY <1>1, <1>2 DEF Stretches
<1>4. /\ Said(t, o) \in Texted /\ Len(Said(t, o)) = b - a + 1
      /\ \A k \in 1..b - a + 1 : Said(t, o)[k] = t[a + d + k - 1]
  <2>1. (b + d) - (a + d) + 1 = b - a + 1
    BY <1>1
  <2>2. /\ Said(t, o) \in Texted /\ Len(Said(t, o)) = o[2] - o[1] + 1
        /\ \A k \in 1..o[2] - o[1] + 1 : Said(t, o)[k] = t[o[1] + k - 1]
    BY <1>3, SaidGlyphs
  <2> QED
    BY <1>2, <2>1, <2>2
<1>5. /\ Said(q, p) \in Texted /\ Len(Said(q, p)) = b - a + 1
      /\ \A k \in 1..b - a + 1 : Said(q, p)[k] = q[a + k - 1]
  BY SaidGlyphs DEF a, b
<1>6. ASSUME NEW k \in 1..b - a + 1 PROVE Said(t, o)[k] = Said(q, p)[k]
  <2>1. a + k - 1 \in 1..Len(q) /\ d + (a + k - 1) = a + d + k - 1
    BY <1>1
  <2> QED
    BY <1>1, <1>4, <1>5, <2>1
<1>7. Said(t, o) = Said(q, p)
  BY <1>4, <1>5, <1>6, SeqEqual DEF Texted
<1> QED
  BY <1>2, <1>3, <1>7 DEF a, b, o

\* Its runs are runs there.
LEMMA RunsAlong ==
  ASSUME NEW q \in Texted, NEW t \in Texted, NEW d, SetIn(q, t, d)
  PROVE  ScriptRuns(q) \subseteq ScriptRuns(t)
<1> SUFFICES ASSUME NEW run \in ScriptRuns(q) PROVE run \in ScriptRuns(t)
  OBVIOUS
<1> DEFINE inq == [i \in DOMAIN q |-> ClassOf(q[i])]
           int == [i \in DOMAIN t |-> ClassOf(t[i])]
<1>1. PICK p \in Pieces(inq) : run = Said(q, p) /\ ClassOf(q[p[1]]) # "break"
  BY DEF ScriptRuns
<1> DEFINE a == p[1]
           b == p[2]
           n == Len(q)
           w == Len(t)
           o == Along(p, d)
<1>2. /\ n \in Nat /\ w \in Nat /\ DOMAIN q = 1..n /\ DOMAIN t = 1..w
      /\ DOMAIN inq = 1..n /\ Len(inq) = n /\ DOMAIN int = 1..w /\ Len(int) = w
  BY DEF Texted
<1>3. /\ \A i \in 1..n : inq[i] = ClassOf(q[i])
      /\ \A i \in 1..w : int[i] = ClassOf(t[i])
  BY <1>2
<1> HIDE DEF inq, int
<1>4. /\ p \in (1..n) \X (1..n) /\ a \in 1..n /\ b \in 1..n /\ a <= b
      /\ \A k \in a..b : inq[k] = inq[a]
      /\ a = 1 \/ inq[a - 1] # inq[a]
      /\ b = n \/ inq[b + 1] # inq[a]
  BY <1>1, <1>2 DEF Pieces
<1>5. p \in Stretches(q)
  BY <1>4 DEF Stretches
<1>6. /\ o \in Stretches(t) /\ Said(t, o) = run /\ o[1] = a + d /\ o[2] = b + d
  BY <1>1, <1>5, SaidAlong
<1>7. /\ d \in Nat /\ d + n <= w /\ \A i \in 1..n : t[d + i] = q[i]
      /\ d = 0 \/ t[d] = Space
      /\ d + n = w \/ t[d + n + 1] = Space
  BY DEF SetIn
<1> HIDE DEF a, b, n, o, w
<1>16. n \in Nat /\ w \in Nat /\ d \in Nat /\ d + n <= w /\ a \in 1..n /\ b \in 1..n
  BY <1>2, <1>4, <1>7
<1>17. \A i \in 1..n : d + i \in 1..w
  BY <1>16
<1>8. \A i \in 1..n : d + i \in 1..w /\ int[d + i] = inq[i]
  BY <1>3, <1>7, <1>17
<1>9. a + d = d + a /\ b + d = d + b /\ int[d + a] = inq[a] /\ inq[a] # "break"
  BY <1>1, <1>3, <1>4, <1>7, <1>8 DEF a
<1>10. \A k \in (a + d)..(b + d) : int[k] = int[a + d]
  <2> SUFFICES ASSUME NEW k \in (a + d)..(b + d) PROVE int[k] = int[a + d]
    OBVIOUS
  <2>1. k - d \in a..b /\ k - d \in 1..n /\ d + (k - d) = k
    BY <1>16
  <2>2. int[d + (k - d)] = inq[k - d]
    BY <1>8, <2>1
  <2> QED
    BY <1>4, <1>9, <2>1, <2>2
<1>11. a + d = 1 \/ int[(a + d) - 1] # int[a + d]
  <2>1. CASE a = 1 /\ d = 0
    BY <2>1
  <2>2. CASE a = 1 /\ d # 0
    <3>1. (a + d) - 1 = d /\ d \in 1..w
      BY <1>16, <2>2
    <3>2. int[d] = "break"
      BY <1>3, <1>7, <2>2, <3>1, SpaceParts
    <3> QED
      BY <1>9, <3>1, <3>2
  <2>3. CASE a # 1
    <3>1. a - 1 \in 1..n /\ d + (a - 1) = (a + d) - 1
      BY <1>16, <2>3
    <3>2. int[d + (a - 1)] = inq[a - 1]
      BY <1>8, <3>1
    <3> QED
      BY <1>4, <1>9, <2>3, <3>1, <3>2
  <2> QED
    BY <2>1, <2>2, <2>3
<1>12. b + d = w \/ int[(b + d) + 1] # int[a + d]
  <2>1. CASE b = n /\ d + n = w
    BY <1>4, <1>7, <2>1
  <2>2. CASE b = n /\ d + n # w
    <3>1. (b + d) + 1 = d + n + 1 /\ d + n + 1 \in 1..w
      BY <1>16, <2>2
    <3>2. int[d + n + 1] = "break"
      BY <1>3, <1>7, <2>2, <3>1, SpaceParts
    <3> QED
      BY <1>9, <3>1, <3>2
  <2>3. CASE b # n
    <3>1. b + 1 \in 1..n /\ d + (b + 1) = (b + d) + 1
      BY <1>16, <2>3
    <3>2. int[d + (b + 1)] = inq[b + 1]
      BY <1>8, <3>1
    <3> QED
      BY <1>4, <1>9, <2>3, <3>1, <3>2
  <2> QED
    BY <2>1, <2>2, <2>3
<1>13. o \in (1..w) \X (1..w) /\ a + d <= b + d
  BY <1>4, <1>6, <1>7 DEF Stretches, w
<1>14. o \in Pieces(int)
  BY <1>2, <1>6, <1>10, <1>11, <1>12, <1>13 DEF Pieces
<1>15. ClassOf(t[o[1]]) # "break"
  <2>1. a + d \in 1..w
    BY <1>6, <1>13
  <2> QED
    BY <1>3, <1>6, <1>9, <2>1
<1> QED
  BY <1>6, <1>14, <1>15 DEF ScriptRuns, int, w

\* Joined there is joined here.
LEMMA JoinedAlong ==
  ASSUME NEW q \in Texted, NEW t \in Texted, NEW d, SetIn(q, t, d),
         NEW i \in 1..Len(q), NEW j \in 1..Len(q)
  PROVE  Joined(t, i + d, j + d) <=> Joined(q, i, j)
<1>1. /\ Len(q) \in Nat /\ d \in Nat /\ \A k \in 1..Len(q) : t[d + k] = q[k]
  BY DEF SetIn, Texted
<1>2. (j + d) - (i + d) = j - i /\ (j + d > i + d <=> j > i)
  BY <1>1
<1>3. ASSUME NEW k \in i..j PROVE k + d \in (i + d)..(j + d) /\ t[k + d] = q[k] /\ (k + d) - (i + d) = k - i
  <2>1. k \in 1..Len(q) /\ k + d = d + k
    BY <1>1
  <2> QED
    BY <1>1, <2>1
<1>4. ASSUME NEW k \in (i + d)..(j + d) PROVE k - d \in i..j /\ t[k] = q[k - d] /\ k - (i + d) = (k - d) - i
  <2>1. k - d \in 1..Len(q) /\ k = d + (k - d)
    BY <1>1
  <2> QED
    BY <1>1, <2>1
<1>5. ASSUME Joined(q, i, j) PROVE Joined(t, i + d, j + d)
  <2>1. \A k \in (i + d)..(j + d) : IF (k - (i + d)) % 2 = 0 THEN t[k] \in Words ELSE t[k] \in Joins
    BY <1>4, <1>5 DEF Joined
  <2> QED
    BY <1>2, <1>5, <2>1 DEF Joined
<1>6. ASSUME Joined(t, i + d, j + d) PROVE Joined(q, i, j)
  <2>1. \A k \in i..j : IF (k - i) % 2 = 0 THEN q[k] \in Words ELSE q[k] \in Joins
    BY <1>3, <1>6 DEF Joined
  <2> QED
    BY <1>2, <1>6, <2>1 DEF Joined
<1> QED
  BY <1>5, <1>6

\* What is joined has a word or a join at each place.
LEMMA JoinedPlaces ==
  ASSUME NEW t, NEW i \in Int, NEW j \in Int, Joined(t, i, j), NEW k \in i..j
  PROVE  t[k] \in Words \/ t[k] \in Joins
BY DEF Joined

\* Its names are names there.
LEMMA NamesAlong ==
  ASSUME NEW q \in Texted, NEW t \in Texted, NEW d, SetIn(q, t, d), NEW p \in NamesIn(q)
  PROVE  Along(p, d) \in NamesIn(t)
<1> DEFINE a == p[1]
           b == p[2]
           n == Len(q)
           w == Len(t)
           o == Along(p, d)
<1>1. /\ n \in Nat /\ w \in Nat /\ DOMAIN q = 1..n /\ DOMAIN t = 1..w
  BY DEF Texted
<1>2. /\ d \in Nat /\ d + n <= w
      /\ d = 0 \/ t[d] = Space
      /\ d + n = w \/ t[d + n + 1] = Space
  BY DEF SetIn
<1>3. /\ a \in 1..n /\ b \in 1..n /\ Joined(q, a, b)
      /\ ~(a > 2 /\ Joined(q, a - 2, b)) /\ ~(b + 2 <= n /\ Joined(q, a, b + 2))
  BY <1>1 DEF NamesIn, Whole
<1>4. o[1] = a + d /\ o[2] = b + d /\ o = <<a + d, b + d>>
  BY DEF Along
<1>5. \A i, j \in 1..n : Joined(t, i + d, j + d) <=> Joined(q, i, j)
  BY JoinedAlong DEF n
<1>6. b > a
  BY <1>3 DEF Joined
<1> HIDE DEF a, b, n, o, w
<1>11. n \in Nat /\ w \in Nat /\ d \in Nat /\ d + n <= w /\ a \in 1..n /\ b \in 1..n /\ b > a
  BY <1>1, <1>2, <1>3, <1>6
<1>7. Joined(t, a + d, b + d)
  BY <1>3, <1>5
<1>8. ~(a + d > 2 /\ Joined(t, (a + d) - 2, b + d))
  <2> SUFFICES ASSUME a + d > 2, Joined(t, (a + d) - 2, b + d) PROVE FALSE
    OBVIOUS
  <2>1. CASE a > 2
    <3>1. a - 2 \in 1..n /\ (a - 2) + d = (a + d) - 2
      BY <1>11, <2>1
    <3> QED
      BY <1>3, <1>5, <2>1, <3>1
  <2>2. CASE ~(a > 2)
    <3>1. d # 0 /\ d \in ((a + d) - 2)..(b + d)
      BY <1>11, <2>2
    <3>2. t[d] = Space
      BY <1>2, <3>1
    <3>3. (a + d) - 2 \in Int /\ b + d \in Int
      BY <1>2, <1>3
    <3> QED
      BY <3>1, <3>2, <3>3, JoinedPlaces, SpaceParts
  <2> QED
    BY <2>1, <2>2
<1>9. ~((b + d) + 2 <= w /\ Joined(t, a + d, (b + d) + 2))
  <2> SUFFICES ASSUME (b + d) + 2 <= w, Joined(t, a + d, (b + d) + 2) PROVE FALSE
    OBVIOUS
  <2>1. CASE b + 2 <= n
    <3>1. b + 2 \in 1..n /\ (b + 2) + d = (b + d) + 2
      BY <1>11, <2>1
    <3> QED
      BY <1>3, <1>5, <2>1, <3>1
  <2>2. CASE ~(b + 2 <= n)
    <3>1. d + n # w /\ d + n + 1 \in (a + d)..((b + d) + 2)
      BY <1>11, <2>2
    <3>2. t[d + n + 1] = Space
      BY <1>2, <3>1
    <3>3. a + d \in Int /\ (b + d) + 2 \in Int
      BY <1>2, <1>3
    <3> QED
      BY <3>1, <3>2, <3>3, JoinedPlaces, SpaceParts
  <2> QED
    BY <2>1, <2>2
<1>10. o \in (1..w) \X (1..w)
  BY <1>4, <1>11
<1> QED
  BY <1>1, <1>4, <1>7, <1>8, <1>9, <1>10 DEF NamesIn, Whole, o, w

\* And so are their qualifiers.
LEMMA IdentifyingAlong ==
  ASSUME NEW q \in Texted, NEW t \in Texted, NEW d, SetIn(q, t, d), NEW p \in Identifying(q)
  PROVE  Along(p, d) \in Identifying(t)
<1>1. PICK m \in NamesIn(q) : p \in {m} \cup Qualifiers(q, m)
  BY DEF Identifying
<1>2. Along(m, d) \in NamesIn(t)
  BY NamesAlong
<1> DEFINE a == m[1]
           b == m[2]
           i == p[1]
           j == p[2]
           n == Len(q)
           o == Along(p, d)
           e == Along(m, d)
<1>3. /\ o[1] = i + d /\ o[2] = j + d /\ e[1] = a + d /\ e[2] = b + d
      /\ o = <<i + d, j + d>> /\ e = <<a + d, b + d>>
  BY DEF Along
<1>4. d \in Nat /\ n \in Nat /\ \A k \in 1..n : t[d + k] = q[k]
  BY DEF SetIn, Texted
<1>5. p \in Stretches(q) /\ i \in Nat /\ j \in Nat /\ j - i < MaxIdentifier
  BY NamesFit DEF Stretches, Identifying
<1>6. a \in 1..n /\ b \in 1..n
  BY DEF NamesIn, Texted
<1>7. (j + d) - (i + d) = j - i
  BY <1>4, <1>5
<1>8. CASE p = m
  <2>1. o = e
    BY <1>8
  <2> QED
    BY <1>2, <1>3, <1>5, <1>7, <2>1 DEF Identifying
<1>9. CASE p \in Qualifiers(q, m)
  <2>1. /\ i \in a..b /\ j \in a..b
        /\ i = a \/ q[i - 1] = Dot
        /\ j = b \/ q[j + 1] = Dot
        /\ \A k \in i..j : q[k] # Dot
        /\ \E k \in i..j : q[k] \in {Underscore, Hyphen}
    BY <1>9 DEF Qualifiers
  <2> HIDE DEF a, b, i, j, n, o, e
  <2>2. o \in ((a + d)..(b + d)) \X ((a + d)..(b + d))
    BY <1>3, <1>4, <1>6, <2>1
  <2>3. i + d = a + d \/ t[(i + d) - 1] = Dot
    <3>1. CASE i = a
      BY <3>1
    <3>2. CASE i # a
      <4>1. i - 1 \in 1..n /\ d + (i - 1) = (i + d) - 1
        BY <1>4, <1>6, <2>1, <3>2
      <4> QED
        BY <1>4, <2>1, <3>2, <4>1
    <3> QED
      BY <3>1, <3>2
  <2>4. j + d = b + d \/ t[(j + d) + 1] = Dot
    <3>1. CASE j = b
      BY <3>1
    <3>2. CASE j # b
      <4>1. j + 1 \in 1..n /\ d + (j + 1) = (j + d) + 1
        BY <1>4, <1>6, <2>1, <3>2
      <4> QED
        BY <1>4, <2>1, <3>2, <4>1
    <3> QED
      BY <3>1, <3>2
  <2>5. \A k \in (i + d)..(j + d) : k - d \in i..j /\ t[k] = q[k - d]
    <3> SUFFICES ASSUME NEW k \in (i + d)..(j + d) PROVE k - d \in i..j /\ t[k] = q[k - d]
      OBVIOUS
    <3>1. k - d \in i..j /\ k - d \in 1..n /\ d + (k - d) = k
      BY <1>4, <1>6, <2>1
    <3> QED
      BY <1>4, <3>1
  <2>6. \A k \in (i + d)..(j + d) : t[k] # Dot
    BY <2>1, <2>5
  <2>7. \E k \in (i + d)..(j + d) : t[k] \in {Underscore, Hyphen}
    <3>1. PICK k \in i..j : q[k] \in {Underscore, Hyphen}
      BY <2>1
    <3>2. k + d \in (i + d)..(j + d) /\ (k + d) - d = k
      BY <1>4, <1>5
    <3> QED
      BY <2>5, <3>1, <3>2
  <2>8. o \in Qualifiers(t, e)
    BY <1>3, <2>2, <2>3, <2>4, <2>6, <2>7 DEF Qualifiers
  <2> QED
    BY <1>2, <1>3, <1>5, <1>7, <2>8 DEF Identifying, o, e
<1> QED
  BY <1>1, <1>8, <1>9

\* What the index holds of a text it holds where the text is set.
LEMMA LexemesAlong ==
  ASSUME NEW q \in Texted, NEW t \in Texted, NEW d, SetIn(q, t, d)
  PROVE  LexemesOf(q) \subseteq LexemesOf(t)
<1>1. UNION {Stored(r) : r \in ScriptRuns(q)} \subseteq LexemesOf(t)
  <2>1. ScriptRuns(q) \subseteq ScriptRuns(t)
    BY RunsAlong
  <2> QED
    BY <2>1 DEF LexemesOf
<1>2. {<<w>> : w \in (ToSet(q) \cap Words) \ Stops} \subseteq LexemesOf(t)
  <2>1. ToSet(q) \subseteq ToSet(t)
    <3> SUFFICES ASSUME NEW i \in 1..Len(q) PROVE \E k \in 1..Len(t) : t[k] = q[i]
      BY DEF ToSet, Texted
    <3>1. d + i \in 1..Len(t) /\ t[d + i] = q[i]
      BY DEF SetIn, Texted
    <3> QED
      BY <3>1
  <2>2. {<<w>> : w \in (ToSet(q) \cap Words) \ Stops} \subseteq {<<w>> : w \in (ToSet(t) \cap Words) \ Stops}
    BY <2>1, Zenon
  <2> QED
    BY <2>2, LexemesHold, Zenon
<1>3. {Lexeme(Said(q, p)) : p \in Identifying(q)} \subseteq LexemesOf(t)
  <2> SUFFICES ASSUME NEW p \in Identifying(q) PROVE Lexeme(Said(q, p)) \in LexemesOf(t)
    OBVIOUS
  <2>1. Along(p, d) \in Identifying(t)
    BY IdentifyingAlong
  <2>2. Said(t, Along(p, d)) = Said(q, p)
    BY NamesFit, SaidAlong
  <2>3. Lexeme(Said(t, Along(p, d))) \in {Lexeme(Said(t, o)) : o \in Identifying(t)}
    BY <2>1, Zenon
  <2> QED
    BY <2>2, <2>3, LexemesHold, Zenon
<1> QED
  BY <1>1, <1>2, <1>3 DEF LexemesOf

\* What is found is found among more.
LEMMA FindsMore ==
  ASSUME NEW g, NEW K, NEW L, K \subseteq L, Finds(g, K)
  PROVE  Finds(g, L)
BY DEF Finds

\* A character a name leaves over and does not find in itself: it follows a
\* long katakana word, and begins no pair.
Lost(name, g) == ClassOf(g[1]) = "script" /\ Len(g) = 1 /\ ~Finds(g, Lexemes(name))
LostAt(name) == {i \in DOMAIN QueryFragments(name) : Lost(name, QueryFragments(name)[i])}

\* A name that finds itself: some of it, and all but so few characters that the
\* rarest of them weigh less than nineteen times the commonest of fragments.
FindsItself(name) ==
  /\ \E g \in ToSet(QueryFragments(name)) : Finds(g, Lexemes(name))
  /\ \A total \in 1..Cardinality(Ids) :
       Cardinality(LostAt(name)) * Rarity[total][1] < 19 * Rarity[total][total]

\* One text after another.
LEMMA TextsJoined ==
  ASSUME NEW u \in Texted, NEW v \in Texted
  PROVE  /\ u \o v \in Texted /\ Len(u \o v) = Len(u) + Len(v) /\ Len(u) \in Nat /\ Len(v) \in Nat
         /\ \A i \in 1..Len(u) : (u \o v)[i] = u[i]
         /\ \A i \in 1..Len(v) : (u \o v)[Len(u) + i] = v[i]
<1>1. u \in Seq(STRING) /\ v \in Seq(STRING)
  BY DEF Texted
<1>2. /\ u \o v \in Seq(STRING) /\ Len(u \o v) = Len(u) + Len(v)
      /\ Len(u) \in Nat /\ Len(v) \in Nat
      /\ \A i \in 1..Len(u) + Len(v) : (u \o v)[i] = IF i <= Len(u) THEN u[i] ELSE v[i - Len(u)]
  BY <1>1, ConcatProperties
<1> DEFINE a == Len(u)
           b == Len(v)
           w == u \o v
<1> HIDE DEF a, b, w
<1>3. /\ a \in Nat /\ b \in Nat /\ \A i \in 1..a + b : w[i] = IF i <= a THEN u[i] ELSE v[i - a]
  BY <1>2 DEF a, b, w
<1>4. \A i \in 1..a : w[i] = u[i]
  BY <1>3
<1>5. ASSUME NEW i \in 1..b PROVE w[a + i] = v[i]
  <2>1. a + i \in 1..a + b /\ ~(a + i <= a) /\ (a + i) - a = i
    BY <1>3
  <2> QED
    BY <1>3, <2>1
<1> QED
  BY <1>2, <1>4, <1>5 DEF a, b, w, Texted

\* What is set in a text stays so where the text goes on after a space.
LEMMA SetInMore ==
  ASSUME NEW q \in Texted, NEW u \in Texted, NEW v \in Texted, NEW d, SetIn(q, u, d),
         d + Len(q) < Len(u) \/ (Len(v) >= 1 /\ v[1] = Space)
  PROVE  SetIn(q, u \o v, d) /\ (Len(v) >= 1 \/ d + Len(q) < Len(u) => d + Len(q) < Len(u \o v))
<1> DEFINE a == Len(u)
           b == Len(v)
           n == Len(q)
           w == u \o v
<1>1. /\ Len(w) = a + b /\ a \in Nat /\ b \in Nat /\ n \in Nat
      /\ \A i \in 1..a : w[i] = u[i]
      /\ \A i \in 1..b : w[a + i] = v[i]
  BY TextsJoined DEF Texted
<1>2. /\ d \in Nat /\ d + n <= a /\ \A i \in 1..n : u[d + i] = q[i]
      /\ d = 0 \/ u[d] = Space
      /\ d + n = a \/ u[d + n + 1] = Space
  BY DEF SetIn
<1>3. d + n < a \/ (b >= 1 /\ v[1] = Space)
  OBVIOUS
<1> HIDE DEF a, b, n, w
<1>4. \A i \in 1..n : d + i \in 1..a
  BY <1>1, <1>2
<1>5. \A i \in 1..n : w[d + i] = q[i]
  BY <1>1, <1>2, <1>4
<1>6. d = 0 \/ w[d] = Space
  BY <1>1, <1>2
<1>7. d + n = a + b \/ w[d + n + 1] = Space
  <2>1. CASE d + n = a /\ b >= 1
    <3>1. 1 \in 1..b /\ d + n + 1 = a + 1
      BY <1>1, <2>1
    <3> QED
      BY <1>1, <1>3, <2>1, <3>1
  <2>2. CASE d + n < a
    <3>1. d + n + 1 \in 1..a
      BY <1>1, <1>2, <2>2
    <3> QED
      BY <1>1, <1>2, <2>2, <3>1
  <2> QED
    BY <1>1, <1>2, <1>3, <2>1, <2>2
<1>8. d + n <= a + b /\ (b >= 1 \/ d + n < a => d + n < a + b)
  BY <1>1, <1>2
<1> QED
  BY <1>1, <1>2, <1>5, <1>6, <1>7, <1>8 DEF SetIn, a, b, n, w

\* What follows a space at the end of a text is set there.
LEMMA SetAtEnd ==
  ASSUME NEW u \in Texted, NEW v \in Texted, Len(u) >= 1, u[Len(u)] = Space
  PROVE  SetIn(v, u \o v, Len(u))
<1> DEFINE a == Len(u)
           w == u \o v
<1>1. /\ Len(w) = a + Len(v) /\ a \in Nat /\ Len(v) \in Nat /\ a >= 1
      /\ \A i \in 1..a : w[i] = u[i]
      /\ \A i \in 1..Len(v) : w[a + i] = v[i]
  BY TextsJoined
<1>2. u[a] = Space
  OBVIOUS
<1> HIDE DEF a, w
<1>3. w[a] = Space
  BY <1>1, <1>2
<1> QED
  BY <1>1, <1>3 DEF SetIn, a, w

\* Where a text is set it occurs.
LEMMA SetOccurs ==
  ASSUME NEW q \in Texted, NEW t \in Texted, NEW d, SetIn(q, t, d)
  PROVE  Occurs(q, t)
<1>1. Len(q) \in Nat /\ Len(t) \in Nat /\ DOMAIN q = 1..Len(q)
  BY DEF Texted
<1>2. d \in 0..Len(t) - Len(q) /\ \A i \in 1..Len(q) : t[d + i] = q[i]
  BY <1>1 DEF SetIn
<1> QED
  BY <1>1, <1>2 DEF Occurs

\* A concept says its own names: each is set in its text.
LEMMA NameIsSet ==
  ASSUME TextTyped, NEW a \in Ids, NEW q \in Called(a)
  PROVE  /\ q \in Texted /\ Apart(q) /\ Fold(q) = q
         /\ NameText(a) \in Texted /\ Haystack(a) \in Texted
         /\ Occurs(q, NameText(a)) /\ Occurs(q, Haystack(a))
         /\ \E d : SetIn(q, Haystack(a), d)
<1> DEFINE n == Fold(text[a].name)
           t == Fold(text[a].title)
           h == Fold(text[a].heads)
           p == Fold(text[a].prose)
           s == <<Space>>
<1>1. /\ text[a].title \in Text /\ text[a].name \in Text
      /\ text[a].heads \in Text /\ text[a].prose \in Text
  BY DEF TextTyped, ConceptText
<1>2. ASSUME NEW x \in Text
      PROVE  Fold(x) \in Texted /\ Apart(Fold(x)) /\ Fold(Fold(x)) = Fold(x)
  <2>1. x \in Texted /\ \A i \in 1..Len(x) - 1 : ~(Fold(x)[i] \in Words /\ Fold(x)[i + 1] \in Words)
    BY DEF Text, Texted
  <2>2. /\ Fold(x) \in Texted /\ Len(Fold(x)) = Len(x)
        /\ \A i \in 1..Len(x) : Fold(x)[i] \notin DOMAIN Folded
    BY <2>1, FoldKeeps
  <2>3. Fold(Fold(x)) = Fold(x)
    BY <2>2, FoldedStays
  <2> QED
    BY <2>1, <2>2, <2>3 DEF Apart
<1>3. n \in Texted /\ t \in Texted /\ h \in Texted /\ p \in Texted
  BY <1>1, <1>2
<1>4. q \in {t, n} /\ q \in Texted /\ Apart(q) /\ Fold(q) = q
  BY <1>1, <1>2 DEF Called
<1>5. s \in Texted /\ Len(s) = 1 /\ s[1] = Space
  <2> DEFINE glyphs == STRING
  <2>1. Space \in glyphs
    BY TextAssumption
  <2> HIDE DEF glyphs
  <2>2. <<Space>> \in Seq(glyphs) /\ Len(<<Space>>) = 1 /\ <<Space>>[1] = Space
    BY <2>1
  <2> QED
    BY <2>2 DEF Texted, glyphs
<1>6. NameText(a) = (t \o s) \o n
  BY DEF NameText
<1>7. Haystack(a) = ((((NameText(a)) \o s) \o h) \o s) \o p
  BY DEF Haystack
<1> HIDE DEF n, t, h, p, s
<1> DEFINE t1 == t \o s
           t2 == t1 \o n
           t3 == t2 \o s
           t4 == t3 \o h
           t5 == t4 \o s
           t6 == t5 \o p
<1>8. t1 \in Texted /\ t2 \in Texted /\ t3 \in Texted /\ t4 \in Texted /\ t5 \in Texted /\ t6 \in Texted
  <2>1. t1 \in Texted
    BY <1>3, <1>5, TextsJoined
  <2>2. t2 \in Texted
    BY <1>3, <2>1, TextsJoined
  <2>3. t3 \in Texted
    BY <1>5, <2>2, TextsJoined
  <2>4. t4 \in Texted
    BY <1>3, <2>3, TextsJoined
  <2>5. t5 \in Texted
    BY <1>5, <2>4, TextsJoined
  <2>6. t6 \in Texted
    BY <1>3, <2>5, TextsJoined
  <2> QED
    BY <2>1, <2>2, <2>3, <2>4, <2>5, <2>6
<1>9. Len(t1) = Len(t) + 1 /\ Len(t) \in Nat /\ t1[Len(t) + 1] = Space
  <2>1. /\ Len(t1) = Len(t) + Len(s) /\ Len(t) \in Nat
        /\ \A i \in 1..Len(s) : t1[Len(t) + i] = s[i]
    BY <1>3, <1>5, TextsJoined
  <2>2. 1 \in 1..Len(s)
    BY <1>5
  <2> QED
    BY <1>5, <2>1, <2>2
<1>10. \E d : SetIn(q, t2, d)
  <2>1. CASE q = t
    <3>1. SetIn(t, t, 0)
      BY <1>9 DEF SetIn
    <3>2. SetIn(t, t1, 0) /\ 0 + Len(t) < Len(t1)
      BY <1>3, <1>5, <3>1, SetInMore
    <3> HIDE DEF t1
    <3>3. SetIn(t, t2, 0)
      BY <1>3, <1>8, <3>2, SetInMore
    <3> QED
      BY <2>1, <3>3
  <2>2. CASE q = n
    <3>1. Len(t1) >= 1 /\ t1[Len(t1)] = Space
      BY <1>9
    <3> HIDE DEF t1
    <3>2. SetIn(n, t2, Len(t1))
      BY <1>3, <1>8, <3>1, SetAtEnd
    <3> QED
      BY <2>2, <3>2
  <2> QED
    BY <1>4, <2>1, <2>2
<1>11. PICK d : SetIn(q, t2, d)
  BY <1>10
<1> HIDE DEF t1
<1>12. SetIn(q, t6, d)
  <2>1. d + Len(q) < Len(t3) /\ SetIn(q, t3, d)
    <3> HIDE DEF t2
    <3> QED
      BY <1>4, <1>5, <1>8, <1>11, SetInMore
  <2> HIDE DEF t3
  <2>2. d + Len(q) < Len(t4) /\ SetIn(q, t4, d)
    BY <1>3, <1>4, <1>8, <2>1, SetInMore
  <2> HIDE DEF t4
  <2>3. d + Len(q) < Len(t5) /\ SetIn(q, t5, d)
    BY <1>4, <1>5, <1>8, <2>2, SetInMore
  <2> HIDE DEF t5
  <2> QED
    BY <1>3, <1>4, <1>8, <2>3, SetInMore
<1>13. NameText(a) = t2 /\ Haystack(a) = t6
  BY <1>6, <1>7 DEF t1
<1> HIDE DEF t2, t6
<1> QED
  BY <1>4, <1>8, <1>11, <1>12, <1>13, SetOccurs

\* A concept asked for by its name says all that is asked for and can be found.
LEMMA OwnWords ==
  ASSUME TextTyped, NEW a \in Ids, NEW q \in Called(a), q # << >>,
         NEW g \in ToSet(QueryFragments(q))
  PROVE  /\ Occurs(g, NameText(a))
         /\ Finds(g, Lexemes(q)) => Finds(g, Lexemes(Haystack(a)))
         /\ \/ Finds(g, Lexemes(Haystack(a))) \/ Lost(q, g)
            \/ ClassOf(g[1]) = "break" \/ (Len(g) = 1 /\ g[1] \in Stops)
<1>1. /\ q \in Texted /\ Apart(q) /\ Fold(q) = q
      /\ NameText(a) \in Texted /\ Haystack(a) \in Texted
      /\ Occurs(q, NameText(a))
  BY NameIsSet
<1>2. PICK d : SetIn(q, Haystack(a), d)
  BY NameIsSet
<1>3. FragmentOf(q, g)
  BY <1>1, FragmentsOccur
<1>4. Occurs(g, NameText(a))
  BY <1>1, <1>3, OccursThrough DEF FragmentOf, Fit
<1>5. Lexemes(q) = LexemesOf(q) /\ Lexemes(Haystack(a)) = LexemesOf(Haystack(a))
  BY <1>1, HaystackIsFolded DEF Lexemes
<1>6. Finds(g, Lexemes(q)) => Finds(g, Lexemes(Haystack(a)))
  <2>1. LexemesOf(q) \subseteq LexemesOf(Haystack(a))
    BY <1>1, <1>2, LexemesAlong
  <2> QED
    BY <1>5, <2>1, FindsMore
<1>7. ASSUME ClassOf(g[1]) # "break", ~(Len(g) = 1 /\ g[1] \in Stops), ~Lost(q, g)
      PROVE  Finds(g, Lexemes(q))
  BY <1>1, <1>3, <1>5, <1>7, FragmentFound DEF Lost
<1> QED
  BY <1>4, <1>6, <1>7

\* Of two sums, the one of smaller numbers is the smaller.
LEMMA TotalAtMost ==
  ASSUME NEW u, NEW v, Numbers(u, Int), Numbers(v, Int), Len(u) = Len(v),
         \A i \in 1..Len(u) : u[i] <= v[i]
  PROVE  Total(u) <= Total(v) /\ Total(u) \in Int /\ Total(v) \in Int
<1> DEFINE n == Len(u)
<1>1. PICK f : /\ f[0] = 0 /\ Total(u) = f[n] /\ \A i \in 1..n : f[i] = f[i - 1] + u[i]
               /\ \A i \in 0..n : f[i] \in Int
  BY TotalSteps
<1>2. PICK h : /\ h[0] = 0 /\ Total(v) = h[n] /\ \A i \in 1..n : h[i] = h[i - 1] + v[i]
               /\ \A i \in 0..n : h[i] \in Int
  BY TotalSteps
<1>3. n \in Nat /\ \A i \in 1..n : u[i] \in Int /\ v[i] \in Int /\ u[i] <= v[i]
  BY DEF Numbers
<1> HIDE DEF n
<1> DEFINE bad == {i \in 0..n : ~(f[i] <= h[i])}
<1>4. ASSUME bad # {} PROVE FALSE
  <2>1. PICK m \in bad : \A y \in bad : m <= y
    <3>1. bad \in SUBSET Nat
      OBVIOUS
    <3> QED
      BY <1>4, <3>1, LeastNumber, Zenon
  <2>2. m \in 1..n /\ m - 1 \in 0..n
    <3>1. f[0] <= h[0]
      BY <1>1, <1>2
    <3>2. m # 0 /\ m \in 0..n
      BY <2>1, <3>1
    <3> QED
      BY <1>3, <3>2
  <2>3. f[m - 1] <= h[m - 1]
    BY <2>1, <2>2
  <2>4. f[m - 1] \in Int /\ h[m - 1] \in Int /\ f[m] = f[m - 1] + u[m] /\ h[m] = h[m - 1] + v[m]
    BY <1>1, <1>2, <2>2
  <2>5. f[m] <= h[m]
    BY <1>3, <2>2, <2>3, <2>4
  <2> QED
    BY <2>1, <2>5
<1>5. n \in 0..n
  BY <1>3
<1> QED
  BY <1>1, <1>2, <1>4, <1>5

\* A sum of numbers is no less than any of them.
LEMMA TotalSome ==
  ASSUME NEW u, Numbers(u, Nat), NEW k \in 1..Len(u)
  PROVE  Total(u) >= u[k] /\ Total(u) \in Nat
<1> DEFINE n == Len(u)
<1>0. Numbers(u, Int)
  BY DEF Numbers
<1>1. PICK f : /\ f[0] = 0 /\ Total(u) = f[n] /\ \A i \in 1..n : f[i] = f[i - 1] + u[i]
               /\ \A i \in 0..n : f[i] \in Int
  BY <1>0, TotalSteps
<1>2. n \in Nat /\ \A i \in 1..n : u[i] \in Nat
  BY DEF Numbers
<1>3. k \in 1..n
  OBVIOUS
<1> HIDE DEF n
<1>4. \A i \in 0..n : f[i] \in Nat
  <2>1. ASSUME NEW i \in 1..n, f[i - 1] \in Nat PROVE f[i] \in Nat
    <3>1. f[i] = f[i - 1] + u[i] /\ u[i] \in Nat
      BY <1>1, <1>2
    <3> QED
      BY <2>1, <3>1
  <2>2. f[0] \in Nat
    BY <1>1
  <2> QED
    BY <1>2, <2>1, <2>2, StepsStay, Zenon
<1> DEFINE bad == {i \in k..n : ~(f[i] >= u[k])}
<1>5. ASSUME bad # {} PROVE FALSE
  <2>1. PICK m \in bad : \A y \in bad : m <= y
    <3>1. bad \in SUBSET Nat
      BY <1>3
    <3> QED
      BY <1>5, <3>1, LeastNumber, Zenon
  <2>2. m \in 1..n /\ m - 1 \in 0..n /\ m \in k..n
    BY <1>2, <1>3, <2>1
  <2>3. f[m] = f[m - 1] + u[m] /\ f[m - 1] \in Nat /\ u[m] \in Nat
    BY <1>1, <1>2, <1>4, <2>2
  <2>4. CASE m = k
    BY <2>1, <2>3, <2>4
  <2>5. CASE m # k
    <3>1. m - 1 \in k..n /\ ~(m <= m - 1)
      BY <1>3, <2>2, <2>5
    <3>2. f[m - 1] >= u[k] /\ u[k] \in Nat
      BY <1>2, <1>3, <2>1, <3>1
    <3>3. f[m] >= u[k]
      BY <2>3, <3>2
    <3> QED
      BY <2>1, <3>3
  <2> QED
    BY <2>4, <2>5
<1>6. n \in k..n /\ n \in 0..n
  BY <1>2, <1>3
<1>7. f[n] >= u[k] /\ f[n] \in Nat
  BY <1>4, <1>5, <1>6
<1> QED
  BY <1>1, <1>7

\* Weights: of so many fragments, a number each.
Weighs(w) ==
  \E m \in Nat : DOMAIN w = 1..m /\ \A i \in 1..m : w[i].weight \in Nat
Heavy(w, i) == i \in DOMAIN w /\ w[i].weight > 0

\* What weighs in one set weighs in another: so does the whole.
LEMMA WeightMore ==
  ASSUME NEW w, Weighs(w), NEW S, NEW T,
         \A i : Heavy(w, i) /\ w[i].frag \in S => w[i].frag \in T
  PROVE  Weight(w, S) <= Weight(w, T) /\ Weight(w, S) \in Int /\ Weight(w, T) \in Int
<1> DEFINE u == [i \in DOMAIN w |-> IF w[i].frag \in S THEN w[i].weight ELSE 0]
           v == [i \in DOMAIN w |-> IF w[i].frag \in T THEN w[i].weight ELSE 0]
<1>1. PICK m \in Nat : DOMAIN w = 1..m /\ \A i \in 1..m : w[i].weight \in Nat
  BY DEF Weighs
<1>2. Weight(w, S) = Total(u) /\ Weight(w, T) = Total(v)
  BY DEF Weight
<1>3. Len(u) = m /\ Len(v) = m
  BY <1>1
<1>4. ASSUME NEW i \in 1..m PROVE u[i] \in Int /\ v[i] \in Int /\ u[i] <= v[i]
  BY <1>1 DEF Heavy
<1> HIDE DEF u, v
<1>5. Numbers(u, Int) /\ Numbers(v, Int)
  BY <1>3, <1>4 DEF Numbers
<1> QED
  BY <1>2, <1>3, <1>4, <1>5, TotalAtMost

\* The whole weighs no less than any fragment.
LEMMA WeightSome ==
  ASSUME NEW w, Weighs(w), NEW S, NEW k \in DOMAIN w, w[k].frag \in S
  PROVE  Weight(w, S) >= w[k].weight
<1> DEFINE u == [i \in DOMAIN w |-> IF w[i].frag \in S THEN w[i].weight ELSE 0]
<1>1. PICK m \in Nat : DOMAIN w = 1..m /\ \A i \in 1..m : w[i].weight \in Nat
  BY DEF Weighs
<1>2. Weight(w, S) = Total(u)
  BY DEF Weight
<1>3. Len(u) = m /\ k \in 1..m /\ u[k] = w[k].weight
  BY <1>1
<1>4. \A i \in 1..m : u[i] \in Nat
  BY <1>1
<1> HIDE DEF u
<1>5. Numbers(u, Nat)
  BY <1>3, <1>4 DEF Numbers
<1> QED
  BY <1>2, <1>3, <1>5, TotalSome

\* All but so many that weigh is in a set: they make the difference at most.
LEMMA WeightRest ==
  ASSUME NEW w, Weighs(w), NEW S, NEW T, NEW L \in SUBSET (DOMAIN w), NEW c \in Nat,
         \A i : Heavy(w, i) => w[i].frag \in S \/ (i \in L /\ w[i].weight <= c)
  PROVE  /\ Weight(w, T) <= Weight(w, S) + Cardinality(L) * c
         /\ Weight(w, T) \in Int /\ Weight(w, S) \in Int /\ Cardinality(L) \in Nat
<1> DEFINE u == [i \in DOMAIN w |-> IF w[i].frag \in T THEN w[i].weight ELSE 0]
           v == [i \in DOMAIN w |-> IF w[i].frag \in S THEN w[i].weight ELSE 0]
           Upto(i) == L \cap (1..i)
           k(i) == Cardinality(Upto(i))
<1>1. PICK m \in Nat : DOMAIN w = 1..m /\ \A i \in 1..m : w[i].weight \in Nat
  BY DEF Weighs
<1>2. Weight(w, T) = Total(u) /\ Weight(w, S) = Total(v)
  BY DEF Weight
<1>3. Len(u) = m /\ Len(v) = m
  BY <1>1
<1>4. ASSUME NEW i \in 1..m
      PROVE  /\ u[i] \in Int /\ v[i] \in Int
             /\ u[i] <= v[i] \/ (i \in L /\ u[i] <= v[i] + c)
  BY <1>1 DEF Heavy
<1> HIDE DEF u, v
<1>5. Numbers(u, Int) /\ Numbers(v, Int)
  BY <1>3, <1>4 DEF Numbers
<1>6. PICK f : /\ f[0] = 0 /\ Total(u) = f[m] /\ \A i \in 1..m : f[i] = f[i - 1] + u[i]
               /\ \A i \in 0..m : f[i] \in Int
  BY <1>3, <1>5, TotalSteps
<1>7. PICK h : /\ h[0] = 0 /\ Total(v) = h[m] /\ \A i \in 1..m : h[i] = h[i - 1] + v[i]
               /\ \A i \in 0..m : h[i] \in Int
  BY <1>3, <1>5, TotalSteps
<1>8. ASSUME NEW i \in 0..m PROVE IsFiniteSet(Upto(i)) /\ k(i) \in Nat
  <2>1. IsFiniteSet(1..i) /\ Upto(i) \in SUBSET (1..i)
    BY FS_Interval
  <2> QED
    BY <2>1, FS_Subset, FS_CardinalityType
<1>9. ASSUME NEW i \in 1..m
      PROVE  (i \in L => k(i) = k(i - 1) + 1) /\ (i \notin L => k(i) = k(i - 1))
  <2>1. i - 1 \in 0..m /\ i \notin 1..i - 1 /\ 1..i = (1..i - 1) \cup {i}
    OBVIOUS
  <2>2. i \in L => Upto(i) = Upto(i - 1) \cup {i}
    BY <2>1
  <2>3. i \notin L => Upto(i) = Upto(i - 1)
    BY <2>1
  <2>4. IsFiniteSet(Upto(i - 1)) /\ i \notin Upto(i - 1)
    BY <1>8, <2>1
  <2> HIDE DEF Upto
  <2>5. Cardinality(Upto(i - 1) \cup {i}) = Cardinality(Upto(i - 1)) + 1
    BY <2>4, FS_AddElement
  <2> QED
    BY <2>2, <2>3, <2>5
<1>10. k(0) = 0 /\ k(m) = Cardinality(L)
  <2>1. Upto(0) = {} /\ Upto(m) = L
    BY <1>1
  <2> QED
    BY <2>1, FS_EmptySet
<1> HIDE DEF k
<1> DEFINE bad == {i \in 0..m : ~(f[i] <= h[i] + k(i) * c)}
<1>11. ASSUME bad # {} PROVE FALSE
  <2>1. PICK n \in bad : \A y \in bad : n <= y
    <3>1. bad \in SUBSET Nat
      OBVIOUS
    <3> QED
      BY <1>11, <3>1, LeastNumber, Zenon
  <2>2. n \in 1..m /\ n - 1 \in 0..m
    <3>1. f[0] <= h[0] + k(0) * c
      BY <1>6, <1>7, <1>10
    <3>2. n # 0 /\ n \in 0..m
      BY <2>1, <3>1
    <3> QED
      BY <3>2
  <2>3. f[n - 1] <= h[n - 1] + k(n - 1) * c
    BY <2>1, <2>2
  <2> DEFINE before == k(n - 1)
             after == k(n)
             fn == f[n - 1]
             hn == h[n - 1]
             un == u[n]
             vn == v[n]
  <2>4. /\ fn \in Int /\ hn \in Int /\ f[n] = fn + un /\ h[n] = hn + vn
        /\ before \in Nat /\ after \in Nat /\ un \in Int /\ vn \in Int
    BY <1>4, <1>6, <1>7, <1>8, <2>2 DEF k
  <2>5. (un <= vn /\ after = before) \/ (un <= vn + c /\ after = before + 1) \/ (un <= vn /\ after = before + 1)
    BY <1>4, <1>9, <2>2
  <2>6. fn <= hn + before * c
    BY <2>3
  <2> HIDE DEF before, after, fn, hn, un, vn
  <2>7. (before + 1) * c = before * c + c /\ before * c \in Nat
    BY <2>4
  <2>8. fn + un <= (hn + vn) + after * c
    <3> DEFINE bc == before * c
               ac == after * c
    <3>1. (un <= vn /\ ac = bc) \/ (un <= vn + c /\ ac = bc + c) \/ (un <= vn /\ ac = bc + c)
      BY <2>5, <2>7
    <3>2. bc \in Nat /\ fn <= hn + bc
      BY <2>6, <2>7
    <3> HIDE DEF bc, ac
    <3>3. ac \in Nat
      BY <3>1, <3>2
    <3>4. fn + un <= (hn + vn) + ac
      BY <2>4, <3>1, <3>2, <3>3
    <3> QED
      BY <3>4 DEF ac
  <2>9. f[n] <= h[n] + k(n) * c
    BY <2>4, <2>8 DEF after
  <2> QED
    BY <2>1, <2>9
<1>12. m \in 0..m
  BY <1>1
<1>13. f[m] <= h[m] + k(m) * c /\ f[m] \in Int /\ h[m] \in Int /\ k(m) \in Nat
  BY <1>6, <1>7, <1>8, <1>11, <1>12 DEF k
<1> QED
  BY <1>2, <1>6, <1>7, <1>10, <1>13

\* No fragment held by some of so many concepts weighs less than one held by
\* all of them, and no single character more than one held by a single concept.
WeighsBetween(total, g, weight) ==
  /\ total \in 1..Cardinality(Ids) /\ weight >= Rarity[total][total]
  /\ Len(g) = 1 => weight <= Rarity[total][1]

\* What a fragment weighs: nothing where no concept found holds it, something
\* where one does.
LEMMA HeldWeighs ==
  ASSUME NEW query \in Texted, query # << >>, NEW f
  PROVE  LET frags == QueryFragments(query)
             found == Found(frags, f)
             w == Weighted(frags, found) IN
         /\ Weighs(w) /\ DOMAIN w = DOMAIN frags /\ \A i \in DOMAIN w : w[i].frag = frags[i]
         /\ \A i \in DOMAIN w : Heavy(w, i) <=> \E x \in found : frags[i] \in x.held
         /\ \A i \in DOMAIN w : Heavy(w, i) => WeighsBetween(Cardinality(found), frags[i], w[i].weight)
<1> DEFINE frags == QueryFragments(query)
           found == Found(frags, f)
           w == Weighted(frags, found)
<1>1. PICK m \in Nat : DOMAIN frags = 1..m
  BY FragmentsAreMany
<1>2. \A i \in 1..m : Fit(frags[i])
  BY <1>1, FragmentsFit DEF ToSet
<1>3. IsFiniteSet(found) /\ Cardinality(found) <= Cardinality(Ids) /\ Cardinality(found) \in Nat
      /\ Cardinality(Ids) \in Nat
  BY FoundFew
<1> HIDE DEF frags, found
<1>4. DOMAIN w = 1..m
      /\ \A i \in 1..m :
           /\ w[i].frag = frags[i]
           /\ w[i].weight = WeightOf(frags[i], DocumentFrequency(found, frags[i]), Cardinality(found))
  BY <1>1 DEF Weighted
<1> HIDE DEF w
<1>5. ASSUME NEW i \in 1..m
      PROVE  /\ w[i].weight \in Nat /\ (w[i].weight > 0 <=> \E x \in found : frags[i] \in x.held)
             /\ w[i].weight > 0 => WeighsBetween(Cardinality(found), frags[i], w[i].weight)
  <2> DEFINE g == frags[i]
             df == DocumentFrequency(found, g)
             total == Cardinality(found)
             holds == {x \in found : g \in x.held}
  <2>1. /\ df \in Nat /\ df <= total /\ df = Cardinality(holds) /\ IsFiniteSet(holds)
    <3>1. holds \in SUBSET found
      OBVIOUS
    <3> QED
      BY <1>3, <3>1, FS_Subset, FS_CardinalityType DEF DocumentFrequency
  <2>2. df = 0 <=> holds = {}
    BY <2>1, FS_EmptySet
  <2>3. Stands(g) \in Nat \ {0} /\ (Len(g) = 1 => Stands(g) = 1)
    <3> DEFINE n == Len(g)
    <3>1. n \in Nat
      BY <1>2 DEF Fit, Texted
    <3>2. (Stands(g) = n - 1 /\ n > 2) \/ Stands(g) = 1
      BY DEF Stands
    <3> HIDE DEF n
    <3>3. Stands(g) \in Nat \ {0} /\ (n = 1 => Stands(g) = 1)
      BY <3>1, <3>2
    <3> QED
      BY <3>3 DEF n
  <2>4. w[i].weight = WeightOf(g, df, total)
    BY <1>4
  <2>5. holds # {} <=> \E x \in found : frags[i] \in x.held
    OBVIOUS
  <2> HIDE DEF df, g, total, holds
  <2>6. CASE df = 0
    <3>1. w[i].weight = 0
      BY <2>4, <2>6 DEF WeightOf
    <3> QED
      BY <2>2, <2>5, <2>6, <3>1
  <2>7. CASE df # 0
    <3> DEFINE st == Stands(g)
               ra == Rarity[total][df]
    <3>1. total \in 1..Cardinality(Ids) /\ df \in 1..total
      BY <1>3, <2>1, <2>7 DEF total
    <3>2. ra \in Nat \ {0}
      BY <3>1, SearchAssumption
    <3>3. WeightOf(g, df, total) = st * ra
      BY <2>7 DEF WeightOf
    <3>4. st \in Nat \ {0} /\ (Len(g) = 1 => st = 1)
      BY <2>3
    <3> DEFINE low == Rarity[total][total]
               high == Rarity[total][1]
    <3>5. low \in Nat \ {0} /\ high \in Nat \ {0} /\ low <= ra /\ ra <= high
      <4>1. total \in 1..total /\ 1 \in 1..total /\ df \in 1..total /\ 1 \in 1..df
        BY <3>1
      <4> QED
        BY <3>1, <4>1, SearchAssumption
    <3> HIDE DEF st, ra, low, high
    <3>6. st * ra \in Nat /\ st * ra > 0 /\ st * ra >= ra /\ (st = 1 => st * ra = ra)
      BY <3>2, <3>4
    <3>7. w[i].weight >= low /\ (Len(g) = 1 => w[i].weight <= high)
      BY <2>4, <3>2, <3>3, <3>4, <3>5, <3>6
    <3>8. WeighsBetween(total, g, w[i].weight)
      BY <3>1, <3>7 DEF WeighsBetween, low, high
    <3> QED
      BY <2>2, <2>4, <2>5, <2>7, <3>3, <3>6, <3>8 DEF g, total
  <2> QED
    BY <2>6, <2>7
<1> QED
  BY <1>1, <1>4, <1>5 DEF Weighs, Heavy, w, found, frags

\* A concept the question names.
Named(query, a) == Called(a) \cap AskedNames(query) # {}

\* A concept that is asked for by its name scores above all the question does
\* not name: whatever weighs, it holds.
LEMMA OwnScore ==
  ASSUME TextTyped, RowsTyped, NEW a \in Ids, NEW query \in Called(a), query # << >>,
         FindsItself(query), NEW f, Matches(a, f)
  PROVE  LET frags == QueryFragments(query)
             found == Found(frags, f)
             w == Weighted(frags, found) IN
         \E x \in found :
           x.id = a /\ \A y \in found :
             ~Named(query, y.id) => Score(query, y, w) < Score(query, x, w)
<1> DEFINE frags == QueryFragments(query)
           found == Found(frags, f)
           w == Weighted(frags, found)
           x == Holding(a, frags, Haystack(a))
           W == Weight(w, ToSet(frags))
<1>1. /\ query \in Texted /\ Fold(query) = query /\ Occurs(query, Haystack(a))
  BY NameIsSet
<1>2. /\ Weighs(w) /\ DOMAIN w = DOMAIN frags /\ \A i \in DOMAIN w : w[i].frag = frags[i]
      /\ \A i \in DOMAIN w : Heavy(w, i) <=> \E y \in found : frags[i] \in y.held
      /\ \A i \in DOMAIN w : Heavy(w, i) => WeighsBetween(Cardinality(found), frags[i], w[i].weight)
  BY <1>1, HeldWeighs
<1>3. \A y \in found : y.id \in Ids /\ y = Holding(y.id, frags, Haystack(y.id))
  BY FoundFew
<1>4. \A g \in ToSet(frags) :
        /\ Occurs(g, NameText(a))
        /\ Finds(g, Lexemes(query)) => Finds(g, Lexemes(Haystack(a)))
        /\ \/ Finds(g, Lexemes(Haystack(a))) \/ Lost(query, g)
           \/ ClassOf(g[1]) = "break" \/ (Len(g) = 1 /\ g[1] \in Stops)
  BY OwnWords
<1>5. \A g \in ToSet(frags) : g \in Texted /\ Len(g) >= 1
  BY <1>1, FragmentsFit DEF Fit
<1>6. \A b \in Ids : Haystack(b) \in Texted /\ Lexemes(Haystack(b)) = LexemesOf(Haystack(b))
  BY HaystackIsFolded
<1>7. \A b : /\ Holding(b, frags, Haystack(b)).id = b /\ Holding(b, frags, Haystack(b)).says = Haystack(b)
             /\ Holding(b, frags, Haystack(b)).asked = ToSet(frags)
             /\ Holding(b, frags, Haystack(b)).held = {g \in ToSet(frags) : Finds(g, Lexemes(Haystack(b)))}
  BY DEF Holding
<1>8. \A i \in DOMAIN frags : frags[i] \in ToSet(frags)
  BY DEF ToSet
<1>9. x \in {Holding(id, frags, Haystack(id)) : id \in {i \in Ids : Matches(i, f)}}
  OBVIOUS
<1>10. x.held # {} => x \in found
  BY <1>9 DEF Found
<1> HIDE DEF frags, found, w
<1>11. ASSUME NEW i, Heavy(w, i)
       PROVE  frags[i] \in ToSet(frags) /\ (frags[i] \in x.held \/ Lost(query, frags[i]))
  <2>1. i \in DOMAIN w
    BY <1>11 DEF Heavy
  <2>2. PICK y \in found : frags[i] \in y.held
    BY <1>2, <1>11, <2>1
  <2> DEFINE g == frags[i]
  <2>3. g \in ToSet(frags) /\ y.id \in Ids /\ Finds(g, Lexemes(Haystack(y.id)))
    BY <1>2, <1>3, <1>7, <1>8, <2>1, <2>2
  <2>4. ~(ClassOf(g[1]) = "break" \/ (Len(g) = 1 /\ g[1] \in Stops))
    BY <1>5, <1>6, <2>3, NeverFound
  <2>5. Finds(g, Lexemes(Haystack(a))) \/ Lost(query, g)
    BY <1>4, <2>3, <2>4
  <2> QED
    BY <1>7, <2>3, <2>5
<1>12. PICK g \in ToSet(frags) : Finds(g, Lexemes(query))
  BY DEF FindsItself, frags
<1>13. g \in x.held
  BY <1>4, <1>7, <1>12
<1>14. x \in found
  BY <1>10, <1>13
<1>15. PICK k \in DOMAIN frags : frags[k] = g
  BY DEF ToSet
<1>16. Heavy(w, k) /\ k \in DOMAIN w /\ w[k].frag = g
  BY <1>2, <1>13, <1>14, <1>15
<1>18. x.id = a /\ x.says = Haystack(a) /\ x.asked = ToSet(frags)
  BY <1>7
<1> DEFINE A == Weight(w, x.held)
           B == Weight(w, {h \in x.asked : Occurs(h, NameText(a))})
           total == Cardinality(found)
           low == Rarity[total][total]
           high == Rarity[total][1]
           lost == Cardinality(LostAt(query))
<1>17. /\ total \in 1..Cardinality(Ids) /\ A >= low
       /\ low \in Nat \ {0} /\ high \in Nat \ {0} /\ lost * high < 19 * low
  <2>1. WeighsBetween(total, g, w[k].weight)
    BY <1>2, <1>15, <1>16
  <2>2. total \in 1..Cardinality(Ids) /\ w[k].weight >= low
    BY <2>1 DEF WeighsBetween
  <2> HIDE DEF x
  <2>3. A >= w[k].weight
    BY <1>2, <1>13, <1>16, WeightSome
  <2>4. A \in Int /\ w[k].weight \in Nat
    BY <1>2, <1>16, WeightMore DEF Weighs
  <2> HIDE DEF total, A
  <2>5. total \in 1..total /\ 1 \in 1..total
    BY <2>2
  <2>6. low \in Nat \ {0} /\ high \in Nat \ {0}
    BY <2>2, <2>5, SearchAssumption
  <2>7. lost * high < 19 * low
    BY <2>2 DEF FindsItself
  <2> HIDE DEF low, high, lost
  <2> QED
    BY <2>2, <2>3, <2>4, <2>6, <2>7
<1>19. W < 20 * A /\ A \in Int /\ W \in Int
  <2> DEFINE L == LostAt(query)
  <2>1. L \in SUBSET (DOMAIN w)
    BY <1>2 DEF LostAt, frags
  <2>2. \A i : Heavy(w, i) => w[i].frag \in x.held \/ (i \in L /\ w[i].weight <= high)
    <3> SUFFICES ASSUME NEW i, Heavy(w, i), w[i].frag \notin x.held
                 PROVE  i \in L /\ w[i].weight <= high
      OBVIOUS
    <3>1. i \in DOMAIN w /\ w[i].frag = frags[i]
      BY <1>2 DEF Heavy
    <3>2. Lost(query, frags[i])
      BY <1>11, <3>1
    <3>3. i \in L
      BY <1>2, <3>1, <3>2 DEF LostAt, frags
    <3>4. Len(frags[i]) = 1 /\ WeighsBetween(total, frags[i], w[i].weight)
      BY <1>2, <3>1, <3>2 DEF Lost
    <3> QED
      BY <3>3, <3>4 DEF WeighsBetween
  <2> HIDE DEF L, x, high
  <2>3. high \in Nat
    BY <1>17
  <2>4. /\ W <= A + Cardinality(L) * high
        /\ W \in Int /\ A \in Int /\ Cardinality(L) \in Nat
    BY <1>2, <2>1, <2>2, <2>3, WeightRest
  <2>5. lost = Cardinality(L)
    BY DEF L
  <2> DEFINE lh == lost * high
  <2>6. W <= A + lh /\ lh < 19 * low /\ lh \in Int /\ low <= A /\ low \in Int /\ A \in Int /\ W \in Int
    BY <1>17, <2>3, <2>4, <2>5
  <2> HIDE DEF lh, low, A, W
  <2> QED
    BY <2>6
<1>20. W <= B /\ B \in Int
  <2> DEFINE T == {h \in x.asked : Occurs(h, NameText(a))}
  <2>1. \A i : Heavy(w, i) => frags[i] \in T
    BY <1>4, <1>11, <1>18
  <2>2. \A i : Heavy(w, i) => w[i].frag = frags[i]
    BY <1>2 DEF Heavy
  <2> HIDE DEF T
  <2> QED
    BY <1>2, <2>1, <2>2, WeightMore DEF T
<1> HIDE DEF low, high, lost, total
<1>24. W > 0
  <2>1. W >= w[k].weight /\ w[k].weight > 0 /\ w[k].weight \in Nat
    BY <1>2, <1>16, WeightSome DEF Heavy, Weighs
  <2> HIDE DEF W
  <2> QED
    BY <1>19, <2>1
<1>21. Score(query, x, w) > 37 * W /\ Score(query, x, w) \in Int
  <2> DEFINE c == IF Occurs(Fold(query), x.says) THEN 6 ELSE 0
             e == IF Called(x.id) \cap AskedNames(query) # {} THEN 20 ELSE 0
             v == IF Standing(row[x.id], Anyone) THEN 1 ELSE 0
  <2>1. c = 6
    BY <1>1, <1>18
  <2>2. e = 20
    <3>1. query \in AskedNames(query)
      BY <1>1 DEF AskedNames
    <3> QED
      BY <1>18, <3>1
  <2>3. v = 0 \/ v = 1
    OBVIOUS
  <2>4. Score(query, x, w) = 20 * A + 10 * B + W * (c + e + v)
    BY <1>18 DEF Score
  <2> HIDE DEF c, e, v, A, B, W, x
  <2>5. W * (c + e + v) = 26 * W \/ W * (c + e + v) = 27 * W
    BY <1>19, <1>24, <2>1, <2>2, <2>3
  <2> QED
    BY <1>19, <1>20, <1>24, <2>4, <2>5
<1>22. ASSUME NEW y \in found, ~Named(query, y.id)
       PROVE  Score(query, y, w) <= 37 * W /\ Score(query, y, w) \in Int
  <2> DEFINE C == Weight(w, y.held)
             D == Weight(w, {h \in y.asked : Occurs(h, NameText(y.id))})
             c == IF Occurs(Fold(query), y.says) THEN 6 ELSE 0
             e == IF Called(y.id) \cap AskedNames(query) # {} THEN 20 ELSE 0
             v == IF Standing(row[y.id], Anyone) THEN 1 ELSE 0
  <2>1. y.asked = ToSet(frags)
    BY <1>3, <1>7
  <2>2. \A i : Heavy(w, i) => w[i].frag \in ToSet(frags)
    BY <1>2, <1>8 DEF Heavy
  <2>3. C <= W /\ C \in Int
    BY <1>2, <2>2, WeightMore
  <2>4. D <= W /\ D \in Int
    BY <1>2, <2>2, WeightMore
  <2>5. e = 0
    BY <1>22 DEF Named
  <2>6. (c = 0 \/ c = 6) /\ (v = 0 \/ v = 1)
    OBVIOUS
  <2>7. Score(query, y, w) = 20 * C + 10 * D + W * (c + e + v)
    BY <2>1 DEF Score
  <2> HIDE DEF c, e, v, C, D, W
  <2>8. W * (c + e + v) <= 7 * W /\ W * (c + e + v) \in Int
    <3>1. c + e + v \in {0, 1, 6, 7}
      BY <2>5, <2>6
    <3> DEFINE z == c + e + v
    <3>2. z \in {0, 1, 6, 7}
      BY <3>1
    <3> HIDE DEF z
    <3>3. W * z <= 7 * W /\ W * z \in Int
      <4>1. CASE z = 0
        BY <1>24, <1>19, <4>1
      <4>2. CASE z = 1
        BY <1>24, <1>19, <4>2
      <4>3. CASE z = 6
        BY <1>24, <1>19, <4>3
      <4>4. CASE z = 7
        BY <1>24, <1>19, <4>4
      <4> QED
        BY <3>2, <4>1, <4>2, <4>3, <4>4
    <3> QED
      BY <3>3 DEF z
  <2> DEFINE E == W * (c + e + v)
  <2>9. E <= 7 * W /\ E \in Int /\ Score(query, y, w) = 20 * C + 10 * D + E
    BY <2>7, <2>8
  <2> HIDE DEF E
  <2> QED
    BY <1>24, <1>19, <2>3, <2>4, <2>9
<1> HIDE DEF W
<1>23. \A y \in found : ~Named(query, y.id) => Score(query, y, w) < Score(query, x, w)
  <2> SUFFICES ASSUME NEW y \in found, ~Named(query, y.id)
               PROVE  Score(query, y, w) < Score(query, x, w)
    OBVIOUS
  <2>1. Score(query, y, w) <= 37 * W /\ Score(query, y, w) \in Int
    BY <1>22
  <2> QED
    BY <1>24, <1>19, <1>21, <2>1
<1> QED
  BY <1>14, <1>18, <1>23 DEF w, found, frags

\* An arranged set has one of its elements behind some others only.
BehindOnly(R, S, P, a) ==
  \E k \in 1..Cardinality(S) :
    /\ Arranged(S, R)[k] = a /\ k = Cardinality(Ahead(R, S, a)) + 1
    /\ \A j \in 1..k - 1 : Arranged(S, R)[j] \in P

\* In an order that puts one of some before all others, only some of them come
\* before it.
LEMMA RankedFront ==
  ASSUME NEW R, NEW S, IsFiniteSet(S), Orders(R, S), NEW P \in SUBSET S, NEW a \in P,
         \A b \in S \ P : <<a, b>> \in R
  PROVE  BehindOnly(R, S, P, a)
<1> DEFINE s == Arranged(S, R)
           n == Cardinality(S)
<1>1. /\ n \in Nat
      /\ \A k \in 1..n : s[k] \in S /\ Cardinality(Ahead(R, S, s[k])) = k - 1
      /\ \A x \in S : \E k \in 1..n : s[k] = x /\ k = Cardinality(Ahead(R, S, x)) + 1
  BY ArrangedHolds
<1> HIDE DEF s, n
<1>2. PICK k \in 1..n : s[k] = a /\ k = Cardinality(Ahead(R, S, a)) + 1
  BY <1>1
<1>3. ASSUME NEW j \in 1..k - 1, s[j] \notin P PROVE FALSE
  <2>1. j \in 1..n /\ j < k
    BY <1>1, <1>2
  <2>2. s[j] \in S /\ Cardinality(Ahead(R, S, s[j])) = j - 1 /\ Cardinality(Ahead(R, S, a)) = k - 1
    BY <1>1, <1>2, <2>1
  <2>3. <<a, s[j]>> \in R
    BY <1>3, <2>2
  <2>4. Cardinality(Ahead(R, S, a)) < Cardinality(Ahead(R, S, s[j]))
    BY <2>2, <2>3, RankGrows
  <2> QED
    BY <1>1, <1>2, <2>1, <2>2, <2>4
<1> QED
  BY <1>2, <1>3 DEF s, n, BehindOnly

\* Where the words put a concept that is asked for by its name: behind named
\* ones only, or behind as many of them as are asked for.
InFront(list, depth, query, a) ==
  \/ \E i \in DOMAIN list : list[i].id = a /\ \A j \in 1..i - 1 : Named(query, list[j].id)
  \/ /\ DOMAIN list = 1..depth /\ \A i \in DOMAIN list : Named(query, list[i].id)
     /\ \A i, j \in DOMAIN list : list[i].id = list[j].id => i = j

\* The words put a concept in front that is asked for by its name.
LEMMA LexicalFront ==
  ASSUME TextTyped, RowsTyped, NEW a \in Ids, NEW query \in Called(a), query # << >>,
         FindsItself(query), NEW f, Matches(a, f), NEW depth \in Nat \ {0}
  PROVE  InFront(Lexical(query, f, depth), depth, query, a)
<1> DEFINE frags == QueryFragments(query)
           found == Found(frags, f)
           weighted == Weighted(frags, found)
           S == Scored(query, found, weighted)
           R == {xy \in S \X S : WordsBefore(xy[1], xy[2])}
           s == Arranged(S, R)
           n == Cardinality(S)
           best == Capped(s, depth)
           list == [k \in DOMAIN best |-> Hit(best[k].id, best[k].score)]
           P == {y \in S : y.id = a \/ Named(query, y.id)}
           of == [y \in found |-> [id |-> y.id, score |-> Score(query, y, weighted),
                                   placed |-> Placed(y, weighted), standing |-> StandingAt(row[y.id])]]
<1>1. Lexical(query, f, depth) = list
  BY DEF Lexical, LexicalOf, RankedOf, Ranked, BestByWords
<1>2. query \in Texted
  BY NameIsSet
<1>3. PICK x \in found :
        x.id = a /\ \A y \in found :
          ~Named(query, y.id) => Score(query, y, weighted) < Score(query, x, weighted)
  BY OwnScore
<1>4. /\ IsFiniteSet(S) /\ Orders(R, S) /\ \A y \in S : y.score \in Int
  BY <1>2, ScoredOrder
<1>5. \A y \in found : y = Holding(y.id, frags, Haystack(y.id))
  BY FoundFew
<1>6. /\ \A u \in S : \E y \in found : u.id = y.id /\ u.score = Score(query, y, weighted)
      /\ \A y \in found : \E u \in S : u.id = y.id /\ u.score = Score(query, y, weighted)
  <2>1. S = {of[y] : y \in found}
    BY DEF Scored
  <2>2. \A y \in found : of[y].id = y.id /\ of[y].score = Score(query, y, weighted)
    OBVIOUS
  <2> HIDE DEF of, S, found
  <2> QED
    BY <2>1, <2>2
<1>7. \A u, v \in S : u.id = v.id => u = v
  <2>1. S = {of[y] : y \in found}
    BY DEF Scored
  <2>2. \A y, z \in found : y.id = z.id => y = z
    BY <1>5
  <2>3. \A y \in found : of[y].id = y.id
    OBVIOUS
  <2> HIDE DEF of, S, found
  <2> QED
    BY <2>1, <2>2, <2>3
<1>8. PICK u \in S : u.id = a /\ u.score = Score(query, x, weighted)
  BY <1>3, <1>6
<1>9. \A b \in S \ P : <<u, b>> \in R
  <2> SUFFICES ASSUME NEW b \in S, ~Named(query, b.id) PROVE WordsBefore(u, b)
    OBVIOUS
  <2> HIDE DEF S, P
  <2>1. PICK y \in found : b.id = y.id /\ b.score = Score(query, y, weighted)
    BY <1>6
  <2>2. u.score \in Int /\ b.score \in Int /\ b.score < u.score
    BY <1>3, <1>4, <1>8, <2>1
  <2> QED
    BY <2>2 DEF WordsBefore
<1>10. P \in SUBSET S /\ u \in P /\ \A b \in P : Named(query, b.id)
  <2>1. Fold(query) = query
    BY NameIsSet
  <2>2. query \in AskedNames(query)
    BY <2>1 DEF AskedNames
  <2>3. Named(query, a)
    BY <2>2 DEF Named
  <2> QED
    BY <1>8, <2>3
<1> HIDE DEF S, R, P, weighted, found, frags
<1>11. PICK k \in 1..n : s[k] = u /\ \A j \in 1..k - 1 : s[j] \in P
  <2> HIDE DEF of, s, n, best, list
  <2>1. IsFiniteSet(S) /\ Orders(R, S)
    BY <1>4
  <2>2. P \in SUBSET S /\ u \in P
    BY <1>10
  <2>3. BehindOnly(R, S, P, u)
    BY <1>9, <2>1, <2>2, RankedFront
  <2> QED
    BY <2>3 DEF s, n, BehindOnly
<1>12. /\ n \in Nat /\ DOMAIN s = 1..n
       /\ \A i \in 1..n : s[i] \in S /\ Cardinality(Ahead(R, S, s[i])) = i - 1
  BY <1>4, ArrangedHolds
<1> HIDE DEF s, n
<1>13. /\ DOMAIN list = {i \in 1..n : i <= depth}
       /\ \A i \in DOMAIN list : list[i].id = s[i].id
  BY <1>12 DEF Capped, Hit
<1> HIDE DEF list
<1>14. CASE k <= depth
  <2>1. k \in DOMAIN list /\ list[k].id = a
    BY <1>8, <1>11, <1>13, <1>14
  <2>2. ASSUME NEW j \in 1..k - 1 PROVE Named(query, list[j].id)
    <3>1. j \in DOMAIN list /\ s[j] \in P
      BY <1>11, <1>12, <1>13, <1>14
    <3> QED
      BY <1>10, <1>13, <3>1
  <2> QED
    BY <1>1, <2>1, <2>2 DEF InFront
<1>15. CASE ~(k <= depth)
  <2>1. DOMAIN list = 1..depth /\ \A i \in 1..depth : i \in 1..k - 1 /\ i \in 1..n
    BY <1>11, <1>12, <1>13, <1>15
  <2>2. \A i \in DOMAIN list : Named(query, list[i].id)
    BY <1>10, <1>11, <1>13, <2>1
  <2>3. ASSUME NEW i \in DOMAIN list, NEW j \in DOMAIN list, list[i].id = list[j].id PROVE i = j
    <3>1. i \in 1..n /\ j \in 1..n /\ s[i].id = s[j].id
      BY <1>13, <2>1, <2>3
    <3>2. s[i] = s[j]
      BY <1>7, <1>12, <3>1
    <3>3. i - 1 = j - 1
      BY <1>12, <3>1, <3>2
    <3> QED
      BY <3>1, <3>3
  <2> QED
    BY <1>1, <2>1, <2>2, <2>3 DEF InFront
<1> QED
  BY <1>12, <1>14, <1>15

\* What an answer to a concept's own name holds: the concept, behind named ones
\* only, or as many named ones as were asked for.
Led(ids, limit, query, a) ==
  \/ \E i \in DOMAIN ids : ids[i] = a /\ \A j \in 1..i - 1 : Named(query, ids[j])
  \/ Len(ids) = limit /\ \A i \in DOMAIN ids : Named(query, ids[i])

\* A function of the first so many numbers is a sequence of that length.
LEMMA NumberedIsSeq ==
  ASSUME NEW S, NEW n \in Nat, NEW f \in [1..n -> S]
  PROVE  f \in Seq(S) /\ Len(f) = n
<1>1. f \in Seq(S)
  OBVIOUS
<1> QED
  BY <1>1, LenProperties

\* A ranking cut short still leads with what it led with.
LEMMA CutLed ==
  ASSUME NEW n \in Nat, NEW limit \in Nat \ {0}, NEW query, NEW a, NEW who, NEW ids,
         ids = [i \in {i \in 1..n : i <= limit} |-> who[i]],
         \A i \in 1..n : who[i] \in Ids,
         \/ \E k \in 1..n : who[k] = a /\ \A j \in 1..k - 1 : Named(query, who[j])
         \/ limit <= n /\ \A j \in 1..limit : Named(query, who[j])
  PROVE  Led(ids, limit, query, a)
<1>1. DOMAIN ids = {i \in 1..n : i <= limit} /\ \A i \in DOMAIN ids : ids[i] = who[i]
  OBVIOUS
<1>2. ASSUME limit <= n, \A j \in 1..limit : Named(query, who[j]) PROVE Led(ids, limit, query, a)
  <2>1. {i \in 1..n : i <= limit} = 1..limit
    BY <1>2
  <2>2. DOMAIN ids = 1..limit
    BY <1>1, <2>1
  <2>3. ids = [i \in 1..limit |-> who[i]] /\ \A i \in 1..limit : who[i] \in Ids
    BY <1>2, <2>1
  <2>4. ids \in [1..limit -> Ids]
    BY <2>3
  <2>5. ids \in Seq(Ids) /\ Len(ids) = limit
    BY <2>4, NumberedIsSeq
  <2>6. \A i \in DOMAIN ids : Named(query, ids[i])
    BY <1>1, <1>2, <2>2
  <2> QED
    BY <2>5, <2>6 DEF Led
<1>3. ASSUME NEW k \in 1..n, who[k] = a, \A j \in 1..k - 1 : Named(query, who[j])
      PROVE  Led(ids, limit, query, a)
  <2>1. CASE k <= limit
    <3>1. k \in DOMAIN ids /\ \A j \in 1..k - 1 : j \in DOMAIN ids
      BY <1>1, <2>1
    <3>2. ids[k] = a /\ \A j \in 1..k - 1 : Named(query, ids[j])
      BY <1>1, <1>3, <3>1
    <3> QED
      BY <3>1, <3>2 DEF Led
  <2>2. CASE ~(k <= limit)
    <3>1. limit <= n /\ \A j \in 1..limit : j \in 1..k - 1
      BY <2>2
    <3> QED
      BY <1>2, <1>3, <3>1
  <2> QED
    BY <2>1, <2>2
<1> QED
  BY <1>2, <1>3

\* The words' ranking alone leads with a concept its front has.
LEMMA ListLed ==
  ASSUME NEW query, NEW a \in Ids, NEW depth \in Nat, NEW limit \in Nat \ {0}, limit <= depth,
         NEW x, Listed(x), InFront(x, depth, query, a)
  PROVE  Led([i \in DOMAIN Capped(x, limit) |-> x[i].id], limit, query, a)
<1> DEFINE ids == [i \in DOMAIN Capped(x, limit) |-> x[i].id]
           who == [i \in DOMAIN x |-> x[i].id]
<1>1. PICK n \in Nat : DOMAIN x = 1..n
  BY DEF Listed
<1>2. ids = [i \in {i \in 1..n : i <= limit} |-> who[i]]
  BY <1>1 DEF Capped
<1>3. \A i \in 1..n : who[i] = x[i].id /\ who[i] \in Ids
  BY <1>1 DEF Listed
<1> HIDE DEF ids, who
<1>4. CASE \E i \in DOMAIN x : x[i].id = a /\ \A j \in 1..i - 1 : Named(query, x[j].id)
  <2>1. PICK k \in 1..n : x[k].id = a /\ \A j \in 1..k - 1 : Named(query, x[j].id)
    BY <1>1, <1>4
  <2>2. \A j \in 1..k - 1 : j \in 1..n
    OBVIOUS
  <2>3. who[k] = a /\ \A j \in 1..k - 1 : Named(query, who[j])
    BY <1>3, <2>1, <2>2
  <2>4. Led(ids, limit, query, a)
    BY <1>2, <1>3, <2>3, CutLed
  <2> QED
    BY <2>4 DEF ids
<1>5. CASE DOMAIN x = 1..depth /\ \A i \in DOMAIN x : Named(query, x[i].id)
  <2>1. n = depth
    <3>1. depth \in 1..depth => depth \in 1..n
      BY <1>1, <1>5
    <3>2. n \in 1..n => n \in 1..depth
      BY <1>1, <1>5
    <3> QED
      BY <3>1, <3>2
  <2>2. limit <= n /\ \A j \in 1..limit : j \in 1..n
    BY <2>1
  <2>3. \A j \in 1..limit : Named(query, who[j])
    BY <1>1, <1>3, <1>5, <2>2
  <2>4. Led(ids, limit, query, a)
    BY <1>2, <1>3, <2>2, <2>3, CutLed
  <2> QED
    BY <2>4 DEF ids
<1> QED
  BY <1>4, <1>5 DEF InFront

\* Fusion leads with a concept the words' front has: it puts names first, and
\* loses no hit of the words'.
LEMMA FuseLed ==
  ASSUME NEW query, Fold(query) = query, NEW a \in Ids, Named(query, a),
         NEW depth \in Nat, NEW limit \in Nat \ {0}, limit <= depth,
         NEW x, NEW y, NEW z, Listed(x), Listed(y), Listed(z), InFront(x, depth, query, a)
  PROVE  Led(Fuse(query, limit, <<x, y, z>>), limit, query, a)
<1> DEFINE lists == <<x, y, z>>
           some == InSome(lists)
           S == FusedOf(query, lists)
           R == FusedRank(S)
           s == Arranged(S, R)
           n == Cardinality(S)
           best == Capped(s, limit)
           ids == [k \in DOMAIN best |-> best[k].id]
           who == [k \in 1..n |-> s[k].id]
           P == {u \in S : Named(query, u.id)}
           of == [b \in some |-> Fused(query, lists, b, HitIn(lists, b))]
<1>1. Fuse(query, limit, lists) = ids
  BY DEF Fuse, BestFused, FusedOf, InSome, FusedRank
<1>2. IsFiniteSet(S) /\ Orders(R, S) /\ \A u \in S : u.id \in some
  BY FusedOrder
<1>3. S = {of[b] : b \in some}
  BY DEF FusedOf
<1>4. FusedNames(query) = AskedNames(query)
  BY DEF FusedNames, AskedNames
<1>5. \A b \in some : of[b].id = b /\ (of[b].named <=> Named(query, b))
  BY <1>4 DEF Fused, Named
<1>6. some \subseteq Ids
  BY DEF InSome
<1>7. \A i \in DOMAIN x : x[i].id \in some
  <2> TAKE i \in DOMAIN x
  <2>1. x[i].id \in Ids
    BY DEF Listed
  <2>2. In(x, x[i].id)
    BY DEF In, ToSet
  <2>3. x \in ToSet(lists)
    <3>1. 1 \in DOMAIN lists /\ lists[1] = x
      OBVIOUS
    <3> HIDE DEF lists
    <3> QED
      BY <3>1 DEF ToSet
  <2> HIDE DEF lists
  <2> QED
    BY <2>1, <2>2, <2>3 DEF InSome
<1> HIDE DEF of, some, lists, R, S
<1>8. \A u \in S : u.id \in Ids /\ (u.named <=> Named(query, u.id))
  BY <1>3, <1>5, <1>6
<1>9. \A i \in DOMAIN x : \E u \in S : u.id = x[i].id
  BY <1>3, <1>5, <1>7
<1>10. \A u \in P : \A v \in S \ P : <<u, v>> \in R
  BY <1>8 DEF R, FusedRank, FusedBefore
<1>11. /\ n \in Nat /\ DOMAIN s = 1..n
       /\ \A k \in 1..n : s[k] \in S /\ Cardinality(Ahead(R, S, s[k])) = k - 1
  BY <1>2, ArrangedHolds
<1> HIDE DEF s, n, P
<1>12. ids = [i \in {i \in 1..n : i <= limit} |-> who[i]]
  BY <1>11 DEF Capped
<1>13. \A i \in 1..n : who[i] = s[i].id /\ who[i] \in Ids
  BY <1>8, <1>11
<1>14. P \in SUBSET S /\ \A u \in S : u \in P <=> Named(query, u.id)
  BY DEF P
<1> HIDE DEF ids, who
<1>15. CASE \E i \in DOMAIN x : x[i].id = a /\ \A j \in 1..i - 1 : Named(query, x[j].id)
  <2>1. PICK u \in S : u.id = a
    BY <1>9, <1>15
  <2>2. u \in P /\ \A v \in S \ P : <<u, v>> \in R
    BY <1>10, <1>14, <2>1
  <2>3. BehindOnly(R, S, P, u)
    BY <1>2, <1>14, <2>2, RankedFront
  <2>4. PICK k \in 1..n : s[k] = u /\ \A j \in 1..k - 1 : s[j] \in P
    BY <2>3 DEF BehindOnly, s, n
  <2>5. \A j \in 1..k - 1 : j \in 1..n
    BY <1>11
  <2>6. who[k] = a /\ \A j \in 1..k - 1 : Named(query, who[j])
    BY <1>11, <1>13, <1>14, <2>1, <2>4, <2>5
  <2> QED
    BY <1>1, <1>11, <1>12, <1>13, <2>6, CutLed DEF lists
<1>16. CASE /\ DOMAIN x = 1..depth /\ \A i \in DOMAIN x : Named(query, x[i].id)
            /\ \A i, j \in DOMAIN x : x[i].id = x[j].id => i = j
  <2> DEFINE at == [u \in P |-> CHOOSE i \in 1..depth : x[i].id = u.id]
             T == {at[u] : u \in DOMAIN at}
             c == Cardinality(P)
  <2>1. IsFiniteSet(P) /\ Cardinality(P) \in Nat /\ Cardinality(P) <= n
    BY <1>2, <1>14, FS_Subset, FS_CardinalityType DEF n
  <2>2. ASSUME NEW i \in 1..depth PROVE i \in T
    <3>1. PICK u \in S : u.id = x[i].id
      BY <1>9, <1>16
    <3>2. u \in P
      BY <1>14, <1>16, <3>1
    <3>3. \A j \in 1..depth : x[j].id = u.id => j = i
      BY <1>16, <3>1
    <3>4. at[u] = i
      BY <3>1, <3>2, <3>3
    <3> HIDE DEF at
    <3>5. u \in DOMAIN at
      BY <3>2 DEF at
    <3> QED
      BY <3>4, <3>5
  <2>3. DOMAIN at = P
    OBVIOUS
  <2> HIDE DEF at
  <2>4. IsFiniteSet(T) /\ Cardinality(T) <= Cardinality(P)
    BY <2>1, <2>3, ImageFinite
  <2>5. 1..depth \subseteq T
    BY <2>2
  <2> HIDE DEF T
  <2>6. Cardinality(1..depth) <= Cardinality(T) /\ Cardinality(T) \in Nat
    BY <2>4, <2>5, FS_Subset, FS_CardinalityType
  <2>7. Cardinality(1..depth) = depth
    BY FS_Interval
  <2>8. depth <= c /\ c \in Nat /\ c <= n
    BY <2>1, <2>4, <2>6, <2>7
  <2>9. limit <= n
    BY <1>11, <2>8
  <2>10. ASSUME NEW k \in 1..limit PROVE Named(query, who[k])
    <3>1. k \in 1..n
      BY <1>11, <2>9
    <3>2. s[k] \in S /\ Cardinality(Ahead(R, S, s[k])) = k - 1
      BY <1>11, <3>1
    <3>3. ASSUME s[k] \notin P PROVE FALSE
      <4>1. P \subseteq Ahead(R, S, s[k])
        BY <1>10, <1>14, <3>2, <3>3 DEF Ahead
      <4>2. IsFiniteSet(Ahead(R, S, s[k]))
        BY <1>2, FS_Subset DEF Ahead
      <4>3. c <= k - 1
        BY <3>2, <4>1, <4>2, FS_Subset
      <4> HIDE DEF c
      <4> QED
        BY <2>8, <4>3
    <3> QED
      BY <1>13, <1>14, <3>1, <3>2, <3>3
  <2>11. limit <= n /\ \A j \in 1..limit : Named(query, who[j])
    BY <2>9, <2>10
  <2> QED
    BY <1>1, <1>11, <1>12, <1>13, <2>11, CutLed DEF lists
<1> QED
  BY <1>15, <1>16 DEF InFront

\* A question that is a concept's name, and some word of which could be held.
ByName(a, query) == Fold(query) = query /\ Searchable(query) /\ query \in Called(a)

\* The names a base gives find themselves, where anything of them could be.
NamesFindThemselves ==
  \A b \in Bases : \A id \in Ids : \A name \in {Fold(b.text[id].title), Fold(b.text[id].name)} :
    Searchable(name) => FindsItself(name)

\* What a search under way knows of the concepts that are asked for by name.
Fronts ==
  ask.state = "asking" /\ "lexical" \notin ask.pending =>
    \A a \in steady : ByName(a, ask.query) => InFront(ask.lexical, 2 * ask.limit, ask.query, a)
Leads ==
  ask.state = "answered" =>
    \A a \in steady : ByName(a, ask.query) => Led(ask.hits, ask.limit, ask.query, a)
Numbered == ask.state = "answered" => \E m \in Nat : DOMAIN ask.hits = 1..m
NameInv ==
  /\ MissInv /\ \A id \in Ids : \A name \in Called(id) : Searchable(name) => FindsItself(name)
  /\ reader = "asks" => Fronts /\ Leads /\ Numbered

\* What leads an answer is what the property asks for.
LEMMA LedIsFirst ==
  ASSUME NEW ids, NEW m \in Nat, DOMAIN ids = 1..m, NEW limit, NEW query, NEW a, ByName(a, query),
         Led(ids, limit, query, a)
  PROVE  LET others == {i \in DOMAIN ids : Called(ids[i]) \cap AskedNames(query) = {}} IN
         \/ \E i \in DOMAIN ids : ids[i] = a /\ \A j \in others : i < j
         \/ Len(ids) = limit /\ others = {}
<1> DEFINE others == {i \in DOMAIN ids : Called(ids[i]) \cap AskedNames(query) = {}}
<1>1. Named(query, a)
  <2>1. query \in AskedNames(query)
    BY DEF AskedNames, ByName
  <2> QED
    BY <2>1 DEF Named, ByName
<1>2. \A j \in others : j \in 1..m /\ ~Named(query, ids[j])
  BY DEF Named
<1> HIDE DEF others
<1>3. ASSUME NEW i \in DOMAIN ids, ids[i] = a, \A j \in 1..i - 1 : Named(query, ids[j])
      PROVE  \A j \in others : i < j
  <2> TAKE j \in others
  <2>1. j \in 1..m /\ i \in 1..m /\ j \notin 1..i - 1 /\ j # i
    BY <1>1, <1>2, <1>3
  <2> QED
    BY <2>1
<1>4. (\A i \in DOMAIN ids : Named(query, ids[i])) => others = {}
  BY DEF others, Named
<1> QED
  BY <1>3, <1>4 DEF Led, others

\* The strengthened invariant says that names come first.
LEMMA NameImplies == NameInv => NamedFirst
<1> SUFFICES ASSUME NameInv, ask.state = "answered", NEW a \in steady,
                    Fold(ask.query) = ask.query, Searchable(ask.query), ask.query \in Called(a)
             PROVE  LET others == {i \in DOMAIN ask.hits :
                                     Called(ask.hits[i]) \cap AskedNames(ask.query) = {}} IN
                    \/ \E i \in DOMAIN ask.hits : ask.hits[i] = a /\ \A j \in others : i < j
                    \/ Len(ask.hits) = ask.limit /\ others = {}
  BY DEF NamedFirst
<1>1. reader = "asks"
  BY NoAskFields DEF NameInv, MissInv, OpenInv, Typed
<1>2. ByName(a, ask.query)
  BY DEF ByName
<1>3. Led(ask.hits, ask.limit, ask.query, a)
  BY <1>1, <1>2 DEF NameInv, Leads
<1>4. PICK m \in Nat : DOMAIN ask.hits = 1..m
  BY <1>1 DEF NameInv, Numbered
<1> QED
  BY <1>2, <1>3, <1>4, LedIsFirst

\* The words' ranking of an answer is numbered, and so is the fused one.
LEMMA AnswerNumbered ==
  ASSUME NEW x, NEW y, NEW z, Listed(x), Listed(y), Listed(z), NEW limit \in Nat \ {0}, NEW query
  PROVE  /\ \E m \in Nat : DOMAIN [i \in DOMAIN Capped(x, limit) |-> x[i].id] = 1..m
         /\ \E m \in Nat : DOMAIN Fuse(query, limit, <<x, y, z>>) = 1..m
<1>1. \E m \in Nat : DOMAIN [i \in DOMAIN Capped(x, limit) |-> x[i].id] = 1..m
  <2>1. PICK n \in Nat : DOMAIN x = 1..n
    BY DEF Listed
  <2>2. DOMAIN [i \in DOMAIN Capped(x, limit) |-> x[i].id] = {i \in 1..n : i <= limit}
    BY <2>1 DEF Capped
  <2> QED
    BY <2>2, CutShort
<1>2. \E m \in Nat : DOMAIN Fuse(query, limit, <<x, y, z>>) = 1..m
  <2> DEFINE lists == <<x, y, z>>
             S == FusedOf(query, lists)
             R == FusedRank(S)
             s == Arranged(S, R)
             n == Cardinality(S)
             best == Capped(s, limit)
             ids == [k \in DOMAIN best |-> best[k].id]
  <2>1. Fuse(query, limit, lists) = ids
    BY DEF Fuse, BestFused, FusedOf, InSome, FusedRank
  <2>2. IsFiniteSet(S) /\ Orders(R, S)
    BY FusedOrder
  <2> HIDE DEF S, R
  <2>3. n \in Nat /\ DOMAIN s = 1..n
    BY <2>2, ArrangedHolds
  <2> HIDE DEF n, s
  <2>4. DOMAIN ids = {i \in 1..n : i <= limit}
    BY <2>3 DEF Capped
  <2> HIDE DEF ids, lists
  <2>5. \E m \in Nat : DOMAIN ids = 1..m
    BY <2>3, <2>4, CutShort
  <2> QED
    BY <2>1, <2>5 DEF lists
<1> QED
  BY <1>1, <1>2

\* A step of a search keeps names first.
LEMMA NameGoesOn ==
  ASSUME NameInv, reader = "asks", ask.state = "asking", UNCHANGED <<row, text, steady>>,
         RankWords \/ Embed \/ EmbedFails \/ RankVectors \/ Answer
  PROVE  Fronts' /\ Leads' /\ Numbered'
<1>1. /\ DOMAIN ask = AskFields /\ Missing /\ RowsTyped /\ TextTyped /\ Fronts
      /\ ask.query \in Texted /\ ask.query # << >>
      /\ ask.limit \in Nat \ {0} /\ 2 * ask.limit \in Nat \ {0} /\ ask.limit <= 2 * ask.limit
      /\ Listed(ask.lexical) /\ Listed(ask.vector) /\ Listed(ask.files)
  BY DEF NameInv, MissInv, OpenInv, AskOpen, AllOpen, Typed
<1>2. \A a : Called(a)' = Called(a)
  BY DEF Called
<1>3. \A a, query : ByName(a, query)' = ByName(a, query)
  BY <1>2 DEF ByName
<1>4. \A query, a : Named(query, a)' = Named(query, a)
  BY <1>2 DEF Named
<1>5. \A list, depth, query, a : InFront(list, depth, query, a)' = InFront(list, depth, query, a)
  BY <1>4 DEF InFront
<1>6. \A ids, limit, query, a : Led(ids, limit, query, a)' = Led(ids, limit, query, a)
  BY <1>4 DEF Led
<1>7. CASE RankWords
  <2> DEFINE list == Lexical(ask.query, ask.filter, 2 * ask.limit)
             steps == ask.pending \ {"lexical"}
             found == list # << >>
  <2>1. ask' = [ask EXCEPT !.pending = steps, !.lexical = list, !.worded = found]
    BY <1>7 DEF RankWords
  <2>2. ASSUME NEW a \in steady, ByName(a, ask.query)
        PROVE  InFront(list, 2 * ask.limit, ask.query, a)
    <3>1. a \in Ids /\ Matches(a, ask.filter)
      BY <1>1 DEF Missing
    <3>2. ask.query \in Called(a) /\ Searchable(ask.query) /\ FindsItself(ask.query)
      BY <2>2, <3>1 DEF ByName, NameInv
    <3> QED
      BY <1>1, <3>1, <3>2, LexicalFront
  <2> HIDE DEF list, steps, found
  <2>3. /\ ask'.state = ask.state /\ ask'.query = ask.query /\ ask'.limit = ask.limit
        /\ ask'.lexical = list
    BY <1>1, <2>1 DEF AskFields
  <2> QED
    BY <1>3, <1>5, <2>2, <2>3 DEF Fronts, Leads, Numbered
<1>8. CASE Embed \/ EmbedFails \/ RankVectors
  <2>1. /\ ask'.state = ask.state /\ ask'.query = ask.query /\ ask'.limit = ask.limit
        /\ ask'.lexical = ask.lexical
        /\ "lexical" \in ask.pending => "lexical" \in ask'.pending
    <3> DEFINE both == (ask.pending \ {"embed"}) \cup {"vector", "files"}
               none == ask.pending \ {"embed"}
    <3>1. CASE Embed
      <4>1. ask' = [ask EXCEPT !.pending = both]
        BY <3>1 DEF Embed
      <4>2. "lexical" \in ask.pending => "lexical" \in both
        OBVIOUS
      <4> HIDE DEF both
      <4> QED
        BY <1>1, <4>1, <4>2 DEF AskFields
    <3>2. CASE EmbedFails
      <4>1. ask' = [ask EXCEPT !.pending = none, !.embedded = FALSE, !.degraded = TRUE]
        BY <3>2 DEF EmbedFails
      <4>2. "lexical" \in ask.pending => "lexical" \in none
        OBVIOUS
      <4> HIDE DEF none
      <4> QED
        BY <1>1, <4>1, <4>2 DEF AskFields
    <3>3. CASE RankVectors
      <4>1. PICK kind \in {"vector", "files"}, list \in Nearest(ask.filter, 2 * ask.limit) :
              ask' = [ask EXCEPT !.pending = ask.pending \ {kind}, ![kind] = list]
        BY <3>3, Zenon DEF RankVectors
      <4> DEFINE rest == ask.pending \ {kind}
      <4>2. "lexical" \in ask.pending => "lexical" \in rest
        OBVIOUS
      <4>3. CASE kind = "vector"
        <5>1. ask' = [ask EXCEPT !.pending = rest, !.vector = list]
          BY <4>1, <4>3
        <5> HIDE DEF rest
        <5> QED
          BY <1>1, <4>2, <5>1 DEF AskFields
      <4>4. CASE kind = "files"
        <5>1. ask' = [ask EXCEPT !.pending = rest, !.files = list]
          BY <4>1, <4>4
        <5> HIDE DEF rest
        <5> QED
          BY <1>1, <4>2, <5>1 DEF AskFields
      <4> QED
        BY <4>3, <4>4
    <3> QED
      BY <1>8, <3>1, <3>2, <3>3
  <2> QED
    BY <1>1, <1>3, <1>5, <2>1 DEF Fronts, Leads, Numbered
<1>9. CASE Answer
  <2> DEFINE fused == Fuse(ask.query, ask.limit, <<ask.lexical, ask.vector, ask.files>>)
             words == [i \in DOMAIN Capped(ask.lexical, ask.limit) |-> ask.lexical[i].id]
             ids == IF ask.embedded THEN fused ELSE words
  <2>1. ask' = [NoAsk EXCEPT !.state = "answered", !.query = ask.query, !.limit = ask.limit,
                             !.hits = ids, !.degraded = ask.degraded, !.missed = ~ask.worded]
        /\ ask.pending = {}
    BY <1>9 DEF Answer
  <2>2. ASSUME NEW a \in steady, ByName(a, ask.query) PROVE Led(ids, ask.limit, ask.query, a)
    <3>1. a \in Ids /\ InFront(ask.lexical, 2 * ask.limit, ask.query, a)
      BY <1>1, <2>1, <2>2 DEF Missing, Fronts
    <3>2. Fold(ask.query) = ask.query /\ Named(ask.query, a)
      BY <2>2 DEF ByName, Named, AskedNames
    <3>3. Led(fused, ask.limit, ask.query, a)
      BY <1>1, <3>1, <3>2, FuseLed
    <3>4. Led(words, ask.limit, ask.query, a)
      BY <1>1, <3>1, ListLed
    <3> HIDE DEF fused, words
    <3> QED
      BY <3>3, <3>4
  <2>3. \E m \in Nat : DOMAIN ids = 1..m
    <3>1. \E m \in Nat : DOMAIN fused = 1..m
      BY <1>1, AnswerNumbered
    <3>2. \E m \in Nat : DOMAIN words = 1..m
      BY <1>1, AnswerNumbered
    <3> HIDE DEF fused, words
    <3> QED
      BY <3>1, <3>2
  <2> DEFINE miss == ~ask.worded
  <2> HIDE DEF ids, miss
  <2>4. /\ ask'.state = "answered" /\ ask'.query = ask.query /\ ask'.limit = ask.limit
        /\ ask'.hits = ids
    BY <2>1 DEF NoAsk
  <2> QED
    BY <1>3, <1>6, <2>2, <2>3, <2>4 DEF Fronts, Leads, Numbered
<1> QED
  BY <1>7, <1>8, <1>9

\* The names are what the base says, and nobody is asked for at the start.
LEMMA NameInit == NamesFindThemselves /\ Init => NameInv
<1> SUFFICES ASSUME NamesFindThemselves, Init PROVE NameInv
  OBVIOUS
<1>1. ask = NoAsk /\ MissInv
  BY MissInit DEF Init
<1>2. PICK b \in Bases : text = b.text
  BY DEF Init
<1>3. \A id \in Ids : \A name \in Called(id) : Searchable(name) => FindsItself(name)
  BY <1>2 DEF NamesFindThemselves, Called
<1> QED
  BY <1>1, <1>3, NoAskFields DEF NameInv, Fronts, Leads, Numbered

\* Every step keeps names first.
LEMMA NameStep == NameInv /\ [Next]_vars => NameInv'
<1> SUFFICES ASSUME NameInv, [Next]_vars PROVE NameInv'
  OBVIOUS
<1>1. MissInv /\ MissInv'
  BY MissStep DEF NameInv
<1>2. RowsTyped /\ TextTyped /\ UNCHANGED text
  BY <1>1, TextStays DEF MissInv, OpenInv, Typed
<1>3. \A a : Called(a)' = Called(a)
  BY <1>2 DEF Called
<1>4. (\A id \in Ids : \A name \in Called(id) : Searchable(name) => FindsItself(name))'
  BY <1>3 DEF NameInv
<1> SUFFICES ASSUME reader' = "asks"
             PROVE  Fronts' /\ Leads' /\ Numbered'
  BY <1>1, <1>4 DEF NameInv
<1>5. reader = "asks" /\ Fronts /\ Leads /\ Numbered
  BY DEF NameInv, Next, Walks, Asks, Others, vars
<1>6. \A a, query : ByName(a, query)' = ByName(a, query)
  BY <1>3 DEF ByName
<1>7. \A query, a : Named(query, a)' = Named(query, a)
  BY <1>3 DEF Named
<1>8. \A list, depth, query, a : InFront(list, depth, query, a)' = InFront(list, depth, query, a)
  BY <1>7 DEF InFront
<1>9. \A ids, limit, query, a : Led(ids, limit, query, a)' = Led(ids, limit, query, a)
  BY <1>7 DEF Led
<1>10. CASE Ask /\ Asks /\ Started
  <2>1. ask'.state = "asking" => "lexical" \in ask'.pending
    BY <1>2, <1>10, AskBegins
  <2>2. ask'.hits = << >>
    BY <1>2, <1>10, AskBegins
  <2>3. DOMAIN ask'.hits = 1..0
    BY <2>2
  <2>4. ask'.state = "answered" => steady' = {}
    <3>1. ask'.state = "answered" => ask'.filter = None
      <4>1. PICK q \in Questions \cup {text[id].title : id \in Ids}, f \in AskFilters,
                n \in AskLimits, embeds \in Embeds :
              ask' = IF Narrow(f) = None
                     THEN [NoAsk EXCEPT !.state = "answered", !.query = q, !.limit = n]
                     ELSE [NoAsk EXCEPT !.state = "asking", !.query = q, !.filter = Narrow(f),
                                        !.limit = n, !.embedded = embeds,
                                        !.pending = {"lexical"} \cup IF embeds THEN {"embed"} ELSE {}]
        BY <1>10, Zenon DEF Ask
      <4>2. CASE Narrow(f) = None
        <5>1. ask' = [NoAsk EXCEPT !.state = "answered", !.query = q, !.limit = n]
          BY <4>1, <4>2
        <5> QED
          BY <5>1 DEF NoAsk
      <4>3. CASE Narrow(f) # None
        <5> DEFINE steps == {"lexical"} \cup IF embeds THEN {"embed"} ELSE {}
                   left == Narrow(f)
        <5>1. ask' = [NoAsk EXCEPT !.state = "asking", !.query = q, !.filter = left, !.limit = n,
                                   !.embedded = embeds, !.pending = steps]
          BY <4>1, <4>3
        <5> HIDE DEF steps, left
        <5>2. ask'.state = "asking"
          BY <5>1 DEF NoAsk
        <5> QED
          BY <5>2
      <4> QED
        BY <4>2, <4>3
    <3>2. steady' = About' /\ reader' = "asks"
      BY <1>10 DEF Started
    <3> QED
      BY <3>1, <3>2 DEF About
  <2> QED
    BY <2>1, <2>3, <2>4 DEF Fronts, Leads, Numbered
<1>11. CASE Fails /\ Asks /\ Goes
  <2>1. ask'.state = "failed"
    BY <1>11 DEF Fails, NoAsk
  <2> QED
    BY <2>1 DEF Fronts, Leads, Numbered
<1>12. CASE Asks /\ Goes /\ (RankWords \/ Embed \/ EmbedFails \/ RankVectors \/ Answer)
  <2>1. UNCHANGED <<row, text, steady>>
    BY <1>2, <1>12 DEF Asks, Goes, rowVars
  <2>2. ask.state = "asking"
    BY <1>12, Zenon DEF RankWords, Embed, EmbedFails, RankVectors, Answer, Pending
  <2> QED
    BY <1>5, <1>12, <2>1, <2>2, NameGoesOn
<1>13. CASE Others /\ Meanwhile
  <2>1. UNCHANGED ask /\ steady' \subseteq steady
    BY <1>13 DEF Others, Meanwhile, searchVars
  <2> QED
    BY <1>5, <1>6, <1>8, <1>9, <2>1 DEF Fronts, Leads, Numbered
<1>14. CASE UNCHANGED vars
  <2>1. UNCHANGED <<ask, steady>>
    BY <1>14 DEF vars, searchVars
  <2> QED
    BY <1>5, <1>6, <1>8, <1>9, <2>1 DEF Fronts, Leads, Numbered
<1>15. ~Walks
  BY <1>5 DEF Walks
<1> QED
  BY <1>10, <1>11, <1>12, <1>13, <1>14, <1>15 DEF Next

(* A concept asked for by its own name is in the answer behind named ones    *)
(* only, whatever the base says, the others write and the vector lists hold, *)
(* of the words' ranking alone and of the fused one: it holds all that its   *)
(* name is asked for and says it in its name, so that it scores above what   *)
(* the question does not name (searchSQL), the best 2 * limit of the words   *)
(* leave no room but to named ones, and fusion puts names before shares      *)
(* (fuse).  Where a name loses single characters of itself, they must weigh  *)
(* little enough (FindsItself).                                              *)
THEOREM NamesComeFirst == NamesFindThemselves => (Spec => []NamedFirst)
<1> SUFFICES ASSUME NamesFindThemselves PROVE Spec => []NamedFirst
  OBVIOUS
<1>1. Init => NameInv
  BY NameInit
<1>2. NameInv /\ [Next]_vars => NameInv'
  BY NameStep
<1> QED
  BY <1>1, <1>2, NameImplies, PTL DEF Spec
=============================================================================
