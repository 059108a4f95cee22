--------------------------- MODULE PlannerProofs ---------------------------
(***************************************************************************)
(* Proofs about Planner for every set of ACL rows, every list of rules and *)
(* every inventory of existing bindings.                                   *)
(***************************************************************************)
EXTENDS Planner, TLAPS

\* PatternsOverlap is what its comment says: the two patterns share at least one
\* resource name.
THEOREM OverlapIsIntersection ==
  ASSUME AclAssumption, NEW a \in Pattern, NEW b \in Pattern
  PROVE  PatternsOverlap(a, b) <=> \E n \in Name : Matches(a, n) /\ Matches(b, n)
<1>1. a.name \in Name /\ b.name \in Name
  BY DEF Pattern
<1>2. a.ptype \in {"LITERAL", "PREFIXED"} /\ b.ptype \in {"LITERAL", "PREFIXED"}
  BY DEF Pattern
<1>3. Matches(a, a.name) /\ Matches(b, b.name)
  BY <1>1, <1>2 DEF Matches, AclAssumption
<1>4. ASSUME PatternsOverlap(a, b)
      PROVE  \E n \in Name : Matches(a, n) /\ Matches(b, n)
  <2>1. Matches(a, b.name) \/ Matches(b, a.name)
    BY <1>4 DEF PatternsOverlap, Matches
  <2> QED BY <1>1, <1>3, <2>1
<1>5. ASSUME NEW n \in Name, Matches(a, n), Matches(b, n)
      PROVE  PatternsOverlap(a, b)
  <2>1. CASE IsWildcard(a) \/ IsWildcard(b)
    BY <2>1 DEF PatternsOverlap
  <2>2. CASE a.ptype = "LITERAL" /\ a.name = n
    BY <1>5, <2>2 DEF PatternsOverlap, Matches
  <2>3. CASE b.ptype = "LITERAL" /\ b.name = n
    BY <1>5, <2>3 DEF PatternsOverlap, Matches
  <2>4. CASE /\ a.ptype = "PREFIXED" /\ <<n, a.name>> \in StartsWith
             /\ b.ptype = "PREFIXED" /\ <<n, b.name>> \in StartsWith
    BY <1>1, <2>4 DEF PatternsOverlap, AclAssumption
  <2> QED BY <1>5, <2>1, <2>2, <2>3, <2>4 DEF Matches
<1> QED BY <1>4, <1>5

-----------------------------------------------------------------------------
(* What normalisation makes of a group *)

Members(S, k) == {r \in S : KeyOf(r) = k}

\* The operations of a group before anything is added, with All spelled out, and
\* what an Allow of a set of operations implies.
Raw(S, k) == {r.op : r \in Members(S, k)}

Expanded(S, k) ==
  IF "All" \in Raw(S, k) THEN Raw(S, k) \cup AllImpliedOps[k.rtype] ELSE Raw(S, k)

Implied(ops) == UNION {ImpliedOps(op) : op \in ops}

NormalGroup(S, k) == ExpandImplied(ExpandAll(GroupOf(S, k)))

\* A normalised group is its rows, with All spelled out, and for an Allow the
\* implied operations.
LEMMA NormalForm ==
  ASSUME NEW S, NEW k
  PROVE  /\ NormalGroup(S, k).key = k
         /\ NormalGroup(S, k).source = Members(S, k)
         /\ k.perm = "Allow" =>
              NormalGroup(S, k).ops = Expanded(S, k) \cup Implied(Expanded(S, k))
<1> DEFINE g0 == GroupOf(S, k)
           g1 == ExpandAll(g0)
<1>1. g0 = [key |-> k, ops |-> Raw(S, k), source |-> Members(S, k)]
  BY DEF GroupOf, Raw, Members
<1>2. g1 = [key |-> k, ops |-> Expanded(S, k), source |-> Members(S, k)]
  BY <1>1 DEF ExpandAll, Expanded
<1>3. CASE k.perm = "Allow"
  <2>1. g1.key.perm = "Allow"
    BY <1>2, <1>3
  <2>2. NormalGroup(S, k) = [g1 EXCEPT !.ops = g1.ops \cup Implied(g1.ops)]
    BY <2>1 DEF ExpandImplied, NormalGroup, Implied
  <2> QED BY <1>2, <2>2
<1>4. CASE k.perm # "Allow"
  BY <1>2, <1>4 DEF ExpandImplied, NormalGroup
<1> QED BY <1>3, <1>4

\* Every normalised group has a row, and its key is that row's.
LEMMA GroupHasRow ==
  ASSUME NEW S, NEW g \in Normalize(S)
  PROVE  \E r \in S :
           /\ g = NormalGroup(S, KeyOf(r))
           /\ g.key = KeyOf(r)
           /\ g.source = Members(S, KeyOf(r))
           /\ r \in g.source
<1>1. PICK g0 \in GroupRows(S) : g = ExpandImplied(ExpandAll(g0))
  BY DEF Normalize
<1>2. PICK r \in S : g0 = GroupOf(S, KeyOf(r))
  BY <1>1 DEF GroupRows
<1>3. g = NormalGroup(S, KeyOf(r))
  BY <1>1, <1>2 DEF NormalGroup
<1>4. r \in Members(S, KeyOf(r))
  BY DEF Members
<1> QED BY <1>3, <1>4, NormalForm

\* Every row is in the group of its key.
LEMMA RowInGroup ==
  ASSUME NEW S, NEW r \in S
  PROVE  /\ NormalGroup(S, KeyOf(r)) \in Normalize(S)
         /\ r \in NormalGroup(S, KeyOf(r)).source
<1>1. GroupOf(S, KeyOf(r)) \in GroupRows(S)
  BY DEF GroupRows
<1>2. NormalGroup(S, KeyOf(r)) \in Normalize(S)
  BY <1>1 DEF Normalize, NormalGroup
<1>3. r \in Members(S, KeyOf(r))
  BY DEF Members
<1> QED BY <1>2, <1>3, NormalForm

-----------------------------------------------------------------------------
(* DENY analysis *)

\* All is not a concrete operation, and the operations of a resource type are
\* closed under implication, which is not transitive.
LEMMA OpFacts ==
  ASSUME NEW t \in ResourceType, NEW op \in AllImpliedOps[t]
  PROVE  /\ op # "All"
         /\ ImpliedOps(op) \subseteq AllImpliedOps[t]
BY DEF ResourceType, AllImpliedOps, ImpliedOps

LEMMA ImpliedOnce ==
  ASSUME NEW op, NEW implied \in ImpliedOps(op)
  PROVE  ImpliedOps(implied) = {} /\ op # "All"
BY DEF ImpliedOps

\* The operations of an Allow group come from its rows.
LEMMA ExpandedFromRow ==
  ASSUME NEW S, NEW k, NEW op \in Expanded(S, k)
  PROVE  \E a \in Members(S, k) :
           a.op = op \/ (a.op = "All" /\ op \in AllImpliedOps[k.rtype])
BY DEF Expanded, Raw

\* What an Allow row is about is among the operations of its group.
LEMMA RowOpsInGroup ==
  ASSUME NEW S, NEW a \in S, a.perm = "Allow",
         NEW op \in AllImpliedOps[a.rtype],
         a.op \in {"All", op} \/ op \in ImpliedOps(a.op)
  PROVE  op \in NormalGroup(S, KeyOf(a)).ops
<1>1. KeyOf(a).perm = "Allow" /\ KeyOf(a).rtype = a.rtype
  BY DEF KeyOf
<1>2. a.op \in Raw(S, KeyOf(a))
  BY DEF Raw, Members
<1>3. a.op \in Expanded(S, KeyOf(a))
  BY <1>2 DEF Expanded
<1>4. NormalGroup(S, KeyOf(a)).ops = Expanded(S, KeyOf(a)) \cup Implied(Expanded(S, KeyOf(a)))
  BY <1>1, NormalForm
<1>5. CASE a.op = "All"
  <2>1. op \in Expanded(S, KeyOf(a))
    BY <1>1, <1>2, <1>5 DEF Expanded
  <2> QED BY <1>4, <2>1
<1>6. CASE a.op = op
  BY <1>3, <1>4, <1>6
<1>7. CASE op \in ImpliedOps(a.op)
  <2>1. op \in Implied(Expanded(S, KeyOf(a)))
    BY <1>3, <1>7 DEF Implied
  <2> QED BY <1>4, <2>1
<1> QED BY <1>5, <1>6, <1>7

\* A DENY that stands between its principal and a surviving Allow is found.
LEMMA ShieldsIsFound ==
  ASSUME AclAssumption, rows \subseteq Row,
         NEW d \in rows, d.perm = "Deny", Shields(d)
  PROVE  \E entry \in AllowIndex : Exposed(d, entry)
<1>1. PICK a \in rows, op \in AllImpliedOps[d.rtype], n \in Name :
         /\ a.perm = "Allow" /\ a.rtype = d.rtype
         /\ IsAbout(a, d.principal, op, n) /\ IsAbout(d, d.principal, op, n)
  BY DEF Shields
<1>2. d.rtype \in ResourceType /\ a.pattern \in Pattern /\ d.pattern \in Pattern
  BY DEF Row
<1> DEFINE g == NormalGroup(rows, KeyOf(a))
           entry == [key |-> KeyOf(a), op |-> op]
<1>3. g \in Normalize(rows) /\ g.key = KeyOf(a) /\ g.key.perm = "Allow"
  BY <1>1, RowInGroup, NormalForm DEF KeyOf
<1>4. op \in g.ops \ {"All"}
  BY <1>1, <1>2, OpFacts, RowOpsInGroup DEF IsAbout
<1>5. entry \in AllowIndex
  BY <1>3, <1>4 DEF AllowIndex
<1>6. d.op \in {"All", op}
  BY <1>1 DEF IsAbout
<1>7. AllowPrincipalCovers(a.principal, d.principal)
  BY <1>1 DEF IsAbout, AppliesTo, AllowPrincipalCovers
<1>8. PatternsOverlap(a.pattern, d.pattern)
  BY <1>1, <1>2, OverlapIsIntersection DEF IsAbout
<1>9. Exposed(d, entry)
  BY <1>1, <1>6, <1>7, <1>8 DEF Exposed, KeyOf
<1> QED BY <1>5, <1>9

\* A DENY that is reported to shield something does.
LEMMA FoundShields ==
  ASSUME AclAssumption, rows \subseteq Row, \A r \in rows : Valid(r),
         NEW d \in rows, d.perm = "Deny",
         NEW entry \in AllowIndex, Exposed(d, entry)
  PROVE  Shields(d)
<1>1. PICK g \in Normalize(rows) :
         g.key.perm = "Allow" /\ entry.key = g.key /\ entry.op \in g.ops \ {"All"}
  BY DEF AllowIndex
<1>2. PICK r \in rows : g = NormalGroup(rows, KeyOf(r)) /\ g.key = KeyOf(r)
  BY <1>1, GroupHasRow
<1> DEFINE k == KeyOf(r)
           e == entry.op
           o == IF d.op = "All" THEN e ELSE d.op
<1>3. e \in Expanded(rows, k) \/ \E x \in Expanded(rows, k) : e \in ImpliedOps(x)
  BY <1>1, <1>2, NormalForm DEF Implied
<1>4. k.rtype = d.rtype /\ d.rtype \in ResourceType /\ d.op \in AllImpliedOps[d.rtype] \cup {"All"}
  BY <1>1, <1>2 DEF Exposed, Row, Valid
<1>5. d.op \in {"All", e} \cup ImpliedOps(e) /\ e # "All"
  BY <1>1 DEF Exposed
<1>6. \E a \in Members(rows, k) :
         o \in AllImpliedOps[d.rtype] /\ (a.op \in {"All", o} \/ o \in ImpliedOps(a.op))
  <2>1. CASE e \in Expanded(rows, k)
    <3>1. PICK a \in Members(rows, k) :
             a.op = e \/ (a.op = "All" /\ e \in AllImpliedOps[k.rtype])
      BY <2>1, ExpandedFromRow
    <3>2. a \in rows /\ a.rtype = d.rtype /\ a.op \in AllImpliedOps[d.rtype] \cup {"All"}
      BY <1>4, <3>1 DEF Members, KeyOf, Valid
    <3> QED BY <1>4, <1>5, <3>1, <3>2
  <2>2. CASE \E x \in Expanded(rows, k) : e \in ImpliedOps(x)
    <3>1. PICK x \in Expanded(rows, k) : e \in ImpliedOps(x)
      BY <2>2
    <3>2. PICK a \in Members(rows, k) :
             a.op = x \/ (a.op = "All" /\ x \in AllImpliedOps[k.rtype])
      BY <3>1, ExpandedFromRow
    <3>3. a \in rows /\ a.rtype = d.rtype /\ a.op \in AllImpliedOps[d.rtype] \cup {"All"}
      BY <1>4, <3>2 DEF Members, KeyOf, Valid
    <3>4. x \in AllImpliedOps[d.rtype]
      BY <1>4, <3>1, <3>2, <3>3, ImpliedOnce
    <3>5. e \in AllImpliedOps[d.rtype]
      BY <1>4, <3>1, <3>4, OpFacts
    <3>6. o = e
      BY <1>5, <3>1, ImpliedOnce
    <3> QED BY <3>1, <3>2, <3>5, <3>6
  <2> QED BY <1>3, <2>1, <2>2
<1>7. PICK a \in Members(rows, k) :
         o \in AllImpliedOps[d.rtype] /\ (a.op \in {"All", o} \/ o \in ImpliedOps(a.op))
  BY <1>6
<1>8. a \in rows /\ KeyOf(a) = entry.key
  BY <1>1, <1>2, <1>7 DEF Members
<1>9. a.perm = "Allow" /\ a.rtype = d.rtype
  BY <1>1, <1>4, <1>8 DEF KeyOf, Exposed
<1>10. AppliesTo(a.principal, d.principal)
  BY <1>8 DEF Exposed, AllowPrincipalCovers, AppliesTo, KeyOf
<1>11. PICK n \in Name : Matches(a.pattern, n) /\ Matches(d.pattern, n)
  <2>1. PatternsOverlap(a.pattern, d.pattern)
    BY <1>8 DEF Exposed, KeyOf
  <2>2. a.pattern \in Pattern /\ d.pattern \in Pattern
    BY <1>8 DEF Row
  <2> QED BY <2>1, <2>2, OverlapIsIntersection
<1>12. IsAbout(a, d.principal, o, n)
  BY <1>7, <1>9, <1>10, <1>11 DEF IsAbout
<1>13. IsAbout(d, d.principal, o, n)
  BY <1>5, <1>11 DEF IsAbout, AppliesTo
<1> QED BY <1>7, <1>8, <1>9, <1>12, <1>13 DEF Shields

-----------------------------------------------------------------------------
(* The invariant *)

LEMMA InputsAreRows ==
  ASSUME PlannerAssumption, rows \in Inputs
  PROVE  rows \subseteq Row /\ \A r \in rows : Valid(r)
BY DEF PlannerAssumption

LEMMA GroupsHoldEveryRow ==
  ASSUME NEW S
  PROVE  S \subseteq Sources(Normalize(S))
<1>1. ASSUME NEW r \in S
      PROVE  r \in Sources(Normalize(S))
  BY RowInGroup DEF Sources
<1> QED BY <1>1

\* Where the rows of an entry are.
LEMMA EntrySources ==
  ASSUME NEW E, NEW e \in E
  PROVE  e.source \subseteq Sources(E) /\ Sources(E) = Sources(E \ {e}) \cup e.source
BY DEF Sources

LEMMA MoreSources ==
  ASSUME NEW E, NEW F, E \subseteq F
  PROVE  Sources(E) \subseteq Sources(F)
BY DEF Sources

LEMMA AddedEntry ==
  ASSUME NEW E, NEW e, NEW F, F = E \cup {e}
  PROVE  Sources(E) \subseteq Sources(F) /\ e.source \subseteq Sources(F)
BY DEF Sources

\* A group that leaves the queue for the plan takes its rows there.
LEMMA TakenIsPlaced ==
  ASSUME Pending, NEW g \in todo, Take(g), stage' = stage,
         Placed \subseteq Placed', g.source \subseteq Placed'
  PROVE  Pending'
<1>1. stage = "groups" /\ stage' = "groups" /\ todo' = todo \ {g} /\ rows' = rows
  BY DEF Take
<1>2. Sources(todo) = Sources(todo') \cup g.source
  BY <1>1, EntrySources
<1>3. rows \subseteq Placed \cup Sources(todo)
  BY <1>1 DEF Pending
<1> QED BY <1>1, <1>2, <1>3 DEF Pending

\* So does the group the rules were tried on.
LEMMA CurrentIsPlaced ==
  ASSUME Pending, stage = "rules", stage' = "groups",
         UNCHANGED <<rows, todo>>,
         Placed \subseteq Placed', cur.source \subseteq Placed'
  PROVE  Pending'
BY DEF Pending

\* An error leaves no plan to say anything of.
LEMMA FailKeeps ==
  ASSUME Fail, rows \in Inputs, UNCHANGED rows,
         todo \subseteq Normalize(rows), todo' \subseteq todo
  PROVE  PlanInv'
BY DEF Fail, PlanInv, CurrentGroup, Pending, NoRowLost, NeverWidened, DenyVerdicts

\* A group that may be converted holds unrestricted Allow rows of one principal on
\* one pattern.
LEMMA ConvertibleRows ==
  ASSUME NEW g \in Normalize(rows), Convertible(g)
  PROVE  /\ g.source # {}
         /\ \A r \in g.source :
              /\ r.perm = "Allow" /\ r.host = Star
              /\ r.principal = g.key.principal
              /\ r.rtype = g.key.rtype /\ r.pattern = g.key.pattern
<1>1. PICK r \in rows :
         g.key = KeyOf(r) /\ g.source = Members(rows, KeyOf(r)) /\ r \in g.source
  BY GroupHasRow
<1> DEFINE k == g.key
<1>2. \A q \in g.source : KeyOf(q) = k
  BY <1>1 DEF Members
<1>3. ASSUME NEW q \in g.source
      PROVE  /\ q.perm = k.perm /\ q.host = k.host /\ q.principal = k.principal
             /\ q.rtype = k.rtype /\ q.pattern = k.pattern
  <2>1. KeyOf(q) = k
    BY <1>2
  <2> HIDE DEF k
  <2> QED BY <2>1 DEF KeyOf
<1>4. g.source # {} /\ g.key.perm = "Allow" /\ g.key.host = Star
  BY <1>1 DEF Convertible
<1> QED BY <1>3, <1>4

LEMMA InitEstablishes ==
  ASSUME AclAssumption, PlannerAssumption, Init
  PROVE  PlanInv
<1>1. rows \subseteq Sources(todo)
  BY GroupsHoldEveryRow DEF Init
<1> QED BY <1>1 DEF Init, PlanInv, CurrentGroup, Pending, NoRowLost, NeverWidened, DenyVerdicts

\* Every row of the current group ends behind a binding or an unmapped entry.
LEMMA EmitPlaces ==
  ASSUME Emit
  PROVE  cur.source \subseteq Sources(bindings') \cup Sources(unmapped')
<1>1. PICK i \in selected : TRUE
  BY DEF Emit
<1> DEFINE t == TargetOf(cur, RuleAt[i].role)
<1>2. CASE Conflicting(t)
  <2>1. [source |-> cur.source, reason |-> "CONFLICTING_EXISTING_BINDING"] \in unmapped'
    BY <1>1, <1>2 DEF Emit
  <2> QED BY <2>1, EntrySources
<1>3. CASE ~Conflicting(t)
  <2> DEFINE b == [action |-> IF Equivalent(t) THEN "SKIP_EXISTS" ELSE "CREATE",
                   target |-> t, source |-> cur.source]
  <2>1. b \in bindings'
    BY <1>1, <1>3 DEF Emit
  <2> HIDE DEF t
  <2>2. b.source = cur.source
    OBVIOUS
  <2> QED BY <2>1, <2>2, EntrySources
<1> QED BY <1>2, <1>3

\* What Emit adds is about the current group.
LEMMA EmitBinds ==
  ASSUME Emit, NEW b \in bindings', b \notin bindings
  PROVE  \E role : b.target = TargetOf(cur, role) /\ b.source = cur.source
<1>1. PICK t : /\ \E i \in selected : t = TargetOf(cur, RuleAt[i].role)
               /\ b = [action |-> IF Equivalent(t) THEN "SKIP_EXISTS" ELSE "CREATE",
                       target |-> t, source |-> cur.source]
  BY DEF Emit
<1> QED BY <1>1

LEMMA EmitKeepsNeverWidened ==
  ASSUME CurrentGroup, NeverWidened, Emit
  PROVE  NeverWidened'
<1>1. cur \in Normalize(rows) /\ Convertible(cur)
  BY DEF CurrentGroup, Emit, Scanned
<1>2. ASSUME NEW b \in bindings', b \notin bindings
      PROVE  /\ b.source # {}
             /\ \A r \in b.source :
                  /\ r.perm = "Allow" /\ r.host = Star
                  /\ Resolve(r.principal) = b.target.principal
                  /\ <<r.rtype, r.pattern>> = b.target.pattern
  <2>1. PICK role : b.target = TargetOf(cur, role) /\ b.source = cur.source
    BY <1>2, EmitBinds
  <2> QED BY <1>1, <2>1, ConvertibleRows DEF TargetOf
<1> QED BY <1>2 DEF NeverWidened

\* What analyzeDenies finds is what the rows say.
LEMMA VerdictsAreRight ==
  ASSUME AclAssumption, PlannerAssumption, rows \in Inputs, AnalyzeDenies
  PROVE  DenyVerdicts'
<1>1. rows' = rows
  BY DEF AnalyzeDenies
<1>2. rows \subseteq Row /\ \A r \in rows : Valid(r)
  BY InputsAreRows
<1>3. ASSUME NEW e \in denies'
      PROVE  /\ e.status = "UNKNOWN" <=> IsWildcardPrincipal(e.row.principal)
             /\ e.status # "UNKNOWN" => (e.status = "SAFE_TO_REMOVE" <=> ~Shields(e.row))
  <2>1. PICK d \in rows : d.perm = "Deny" /\ e = [row |-> d, status |-> ClassifyDeny(d)]
    BY <1>3 DEF AnalyzeDenies
  <2>2. Shields(d) <=> \E entry \in AllowIndex : Exposed(d, entry)
    BY <1>2, <2>1, ShieldsIsFound, FoundShields
  <2>3. e.row = d /\ e.status = ClassifyDeny(d)
    BY <2>1
  <2> QED BY <2>2, <2>3 DEF ClassifyDeny
<1>4. \A d : Shields(d)' <=> Shields(d)
  BY <1>1 DEF Shields
<1> QED BY <1>3, <1>4 DEF DenyVerdicts

\* Steps that leave rows, bindings and denies alone leave the verdicts alone.
LEMMA UnchangedPlan ==
  ASSUME UNCHANGED <<rows, bindings, denies>>, NeverWidened, DenyVerdicts
  PROVE  NeverWidened' /\ DenyVerdicts'
<1>1. \A d : Shields(d)' <=> Shields(d)
  BY DEF Shields
<1> QED BY <1>1 DEF NeverWidened, DenyVerdicts

LEMMA StepKeeps ==
  ASSUME AclAssumption, PlannerAssumption, PlanInv, [Next]_vars
  PROVE  PlanInv'
<1> USE DEF PlanInv
<1>1. ASSUME NEW g \in todo, RejectDeny(g)
      PROVE  PlanInv'
  <2>1. UNCHANGED <<rows, stage, loop, bindings, unmapped, denies>> /\ stage = "groups"
    BY <1>1 DEF RejectDeny, Take
  <2>2. NeverWidened' /\ DenyVerdicts'
    BY <2>1, UnchangedPlan
  <2>3. Placed \subseteq Placed' /\ g.source \subseteq Placed'
    BY <1>1 DEF RejectDeny, Placed
  <2>4. Pending'
    BY <1>1, <2>1, <2>3, TakenIsPlaced DEF RejectDeny
  <2> QED BY <2>1, <2>2, <2>4 DEF CurrentGroup, NoRowLost
<1>2. ASSUME NEW g \in todo, RestrictHost(g)
      PROVE  PlanInv'
  <2> DEFINE u == [source |-> g.source, reason |-> "HOST_RESTRICTED"]
  <2>1. UNCHANGED <<rows, stage, loop, bindings, rejected, denies>> /\ stage = "groups"
    BY <1>2 DEF RestrictHost, Take
  <2>2. NeverWidened' /\ DenyVerdicts'
    BY <2>1, UnchangedPlan
  <2>3. unmapped' = unmapped \cup {u} /\ u.source = g.source
    BY <1>2 DEF RestrictHost
  <2> HIDE DEF u
  <2>4. Sources(unmapped) \subseteq Sources(unmapped') /\ g.source \subseteq Sources(unmapped')
    BY <2>3, AddedEntry
  <2>5. Placed \subseteq Placed' /\ g.source \subseteq Placed'
    BY <2>1, <2>4 DEF Placed
  <2>6. Pending'
    BY <1>2, <2>1, <2>5, TakenIsPlaced DEF RestrictHost
  <2> QED BY <2>1, <2>2, <2>6 DEF CurrentGroup, NoRowLost
<1>3. ASSUME NEW g \in todo, MapFails(g)
      PROVE  PlanInv'
  BY <1>3, FailKeeps DEF MapFails, Take, Pending
<1>4. ASSUME NEW g \in todo, StartRules(g)
      PROVE  PlanInv'
  <2>1. /\ UNCHANGED <<rows, plan>> /\ stage = "groups" /\ stage' = "rules"
        /\ todo' = todo \ {g} /\ cur' = g /\ Convertible(g)
    BY <1>4 DEF StartRules, Take
  <2>2. NeverWidened' /\ DenyVerdicts'
    BY <2>1, UnchangedPlan DEF plan
  <2>3. Sources(todo) = Sources(todo') \cup g.source
    BY <2>1, EntrySources
  <2>4. Placed' = Placed
    BY <2>1 DEF Placed, plan
  <2>5. Pending'
    BY <2>1, <2>3, <2>4 DEF Pending
  <2>6. CurrentGroup'
    BY <2>1 DEF CurrentGroup, Pending, Convertible
  <2> QED BY <2>1, <2>2, <2>5, <2>6 DEF NoRowLost
<1>5. ASSUME SelectRule \/ PassRule
      PROVE  PlanInv'
  <2>1. UNCHANGED <<rows, stage, todo, cur, plan>>
    BY <1>5 DEF SelectRule, PassRule
  <2>2. NeverWidened' /\ DenyVerdicts'
    BY <2>1, UnchangedPlan DEF plan
  <2>3. Placed' = Placed
    BY <2>1 DEF Placed, plan
  <2> QED BY <2>1, <2>2, <2>3 DEF CurrentGroup, Convertible, Pending, NoRowLost
<1>6. ASSUME NoRule
      PROVE  PlanInv'
  <2> DEFINE u == [source |-> cur.source, reason |-> "NO_RULE_MATCH"]
  <2>1. /\ UNCHANGED <<rows, todo, bindings, rejected, denies>>
        /\ stage = "rules" /\ stage' = "groups"
    BY <1>6 DEF NoRule, Scanned
  <2>2. NeverWidened' /\ DenyVerdicts'
    BY <2>1, UnchangedPlan
  <2>3. unmapped' = unmapped \cup {u} /\ u.source = cur.source
    BY <1>6 DEF NoRule
  <2> HIDE DEF u
  <2>4. Sources(unmapped) \subseteq Sources(unmapped') /\ cur.source \subseteq Sources(unmapped')
    BY <2>3, AddedEntry
  <2>5. Pending'
    BY <2>1, <2>4, CurrentIsPlaced DEF Placed
  <2> QED BY <2>1, <2>2, <2>5 DEF CurrentGroup, NoRowLost
<1>7. ASSUME ScopeMissing
      PROVE  PlanInv'
  BY <1>7, FailKeeps DEF ScopeMissing, Pending
<1>8. ASSUME Emit
      PROVE  PlanInv'
  <2>1. /\ UNCHANGED <<rows, todo, rejected, denies>>
        /\ stage = "rules" /\ stage' = "groups"
        /\ bindings \subseteq bindings' /\ unmapped \subseteq unmapped'
    BY <1>8 DEF Emit, Scanned
  <2>2. NeverWidened'
    BY <1>8, EmitKeepsNeverWidened
  <2>3. \A d : Shields(d)' <=> Shields(d)
    BY <2>1 DEF Shields
  <2>4. DenyVerdicts'
    BY <2>1, <2>3 DEF DenyVerdicts
  <2>5. Sources(bindings) \subseteq Sources(bindings') /\ Sources(unmapped) \subseteq Sources(unmapped')
    BY <2>1, MoreSources
  <2>6. Placed \subseteq Placed' /\ cur.source \subseteq Placed'
    BY <1>8, <2>1, <2>5, EmitPlaces DEF Placed
  <2>7. Pending'
    BY <2>1, <2>6, CurrentIsPlaced
  <2> QED BY <2>1, <2>2, <2>4, <2>7 DEF CurrentGroup, NoRowLost
<1>9. ASSUME AnalyzeDenies
      PROVE  PlanInv'
  <2>1. /\ UNCHANGED <<rows, todo, bindings, unmapped, rejected>>
        /\ stage = "groups" /\ todo = {} /\ stage' = "done"
    BY <1>9 DEF AnalyzeDenies
  <2>2. DenyVerdicts'
    BY <1>9, VerdictsAreRight
  <2>3. Sources(todo) = {}
    BY <2>1 DEF Sources
  <2>4. rows \subseteq Placed /\ Placed' = Placed
    BY <2>1, <2>3 DEF Pending, Placed
  <2> QED BY <2>1, <2>2, <2>4 DEF CurrentGroup, Pending, NoRowLost, NeverWidened
<1>10. CASE UNCHANGED vars
  <2>1. UNCHANGED <<rows, stage, todo, cur, plan>>
    BY <1>10 DEF vars, loop
  <2>2. NeverWidened' /\ DenyVerdicts'
    BY <2>1, UnchangedPlan DEF plan
  <2>3. Placed' = Placed
    BY <2>1 DEF Placed, plan
  <2> QED BY <2>1, <2>2, <2>3 DEF CurrentGroup, Convertible, Pending, NoRowLost
<1> QED BY <1>1, <1>2, <1>3, <1>4, <1>5, <1>6, <1>7, <1>8, <1>9, <1>10 DEF Next

-----------------------------------------------------------------------------
(* The theorems *)

\* Whatever the rows, the rules and the inventory: between two steps every row is in
\* the plan, in the group at hand or in a group still to come.
THEOREM PlanInvariant ==
  ASSUME AclAssumption, PlannerAssumption
  PROVE  Spec => []PlanInv
<1>1. Init => PlanInv
  BY InitEstablishes
<1>2. PlanInv /\ [Next]_vars => PlanInv'
  BY StepKeeps
<1> QED BY <1>1, <1>2, PTL DEF Spec

\* plan.Run drops no ACL row: a complete plan has each behind a binding, an unmapped
\* entry or a rejected entry.
THEOREM NoRowLostHolds ==
  ASSUME AclAssumption, PlannerAssumption
  PROVE  Spec => []NoRowLost
<1>1. PlanInv => NoRowLost
  BY DEF PlanInv
<1> QED BY <1>1, PlanInvariant, PTL

\* plan.Run widens no scope: behind every binding are unrestricted Allow rows of its
\* principal on its own pattern.
THEOREM NeverWidenedHolds ==
  ASSUME AclAssumption, PlannerAssumption
  PROVE  Spec => []NeverWidened
<1>1. PlanInv => NeverWidened
  BY DEF PlanInv
<1> QED BY <1>1, PlanInvariant, PTL

\* analyzeDenies says SAFE_TO_REMOVE of a concrete principal's DENY exactly if no
\* Allow row of the input permits what the DENY forbids.
THEOREM DenyVerdictsHold ==
  ASSUME AclAssumption, PlannerAssumption
  PROVE  Spec => []DenyVerdicts
<1>1. PlanInv => DenyVerdicts
  BY DEF PlanInv
<1> QED BY <1>1, PlanInvariant, PTL

-----------------------------------------------------------------------------
(***************************************************************************)
(* What FindCoveringRules leaves uncovered, and that no grant is lost.     *)
(***************************************************************************)

\* Two groups of one input that share a row are the same group.
LEMMA OneGroupPerRow ==
  ASSUME NEW S, NEW g \in Normalize(S), NEW h \in Normalize(S), g.source = h.source
  PROVE  g = h
<1>1. PICK r \in S : g = NormalGroup(S, KeyOf(r)) /\ r \in g.source
  BY GroupHasRow
<1>2. PICK q \in S : h = NormalGroup(S, KeyOf(q)) /\ h.source = Members(S, KeyOf(q))
  BY GroupHasRow
<1>3. r \in Members(S, KeyOf(q))
  BY <1>1, <1>2
<1>4. KeyOf(r) = KeyOf(q)
  BY <1>3 DEF Members
<1> QED BY <1>1, <1>2, <1>4

\* The fields of a group of rows have their types.
LEMMA GroupTypes ==
  ASSUME NEW S, S \subseteq Row, NEW g \in Normalize(S)
  PROVE  /\ g.source \subseteq S
         /\ g.key.principal \in Principal /\ g.key.rtype \in ResourceType
         /\ g.key.pattern \in Pattern /\ g.key.perm \in {"Allow", "Deny"}
         /\ g.key.perm = "Allow" => g.ops \subseteq Op
<1>1. PICK r \in S : /\ g = NormalGroup(S, KeyOf(r)) /\ g.key = KeyOf(r)
                     /\ g.source = Members(S, KeyOf(r))
  BY GroupHasRow
<1> DEFINE k == KeyOf(r)
<1>2. /\ k.principal \in Principal /\ k.rtype \in ResourceType
      /\ k.pattern \in Pattern /\ k.perm \in {"Allow", "Deny"}
  BY DEF KeyOf, Row
<1>3. g.source \subseteq S
  BY <1>1 DEF Members
<1> HIDE DEF k
<1>4. ASSUME k.perm = "Allow" PROVE g.ops \subseteq Op
  <2>1. g.ops = Expanded(S, k) \cup Implied(Expanded(S, k))
    BY <1>1, <1>4, NormalForm DEF k
  <2>2. Raw(S, k) \subseteq Op
    BY DEF Raw, Members, Row
  <2>3. AllImpliedOps[k.rtype] \subseteq ConcreteOp
    BY <1>2 DEF ConcreteOp
  <2>4. Expanded(S, k) \subseteq Op
    BY <2>2, <2>3 DEF Expanded, Op
  <2>5. \A op : ImpliedOps(op) \subseteq Op
    BY DEF ImpliedOps, Op, ConcreteOp, AllImpliedOps, ResourceType
  <2>6. Implied(Expanded(S, k)) \subseteq Op
    BY <2>5 DEF Implied
  <2> QED BY <2>1, <2>4, <2>6
<1>5. g.key = k
  BY <1>1 DEF k
<1> QED BY <1>2, <1>3, <1>4, <1>5

\* A mapped principal is a principal, so a binding's target has its type.
LEMMA TargetTypes ==
  ASSUME PlannerAssumption, NEW S, S \subseteq Row, NEW g \in Normalize(S), NEW i \in 1..Rule
  PROVE  TargetOf(g, RuleAt[i].role) \in Target
<1>1. /\ g.key.principal \in Principal /\ g.key.rtype \in ResourceType
      /\ g.key.pattern \in Pattern
  BY GroupTypes
<1>2. Resolve(g.key.principal) \in Principal
  BY <1>1 DEF Resolve, PlannerAssumption
<1>3. RuleAt[i].role \in Role
  BY DEF Role
<1>4. ApplyScope(g.key.rtype) \in {"kafka", "schema-registry"}
  BY DEF ApplyScope
<1> QED BY <1>1, <1>2, <1>3, <1>4 DEF TargetOf, Target

\* Only the three kinds of reasons and verdicts.
LEMMA VerdictTypes ==
  ASSUME NEW d
  PROVE  ClassifyDeny(d) \in Verdict
BY DEF ClassifyDeny, Verdict

\* What a selected rule covers is taken off what remains.
LEMMA MissingAfter ==
  ASSUME NEW g, NEW rules, NEW i
  PROVE  Missing(g, rules \cup {i}) = Missing(g, rules) \ RuleCoveredOps(g, RuleAt[i])
BY DEF Missing

\* Every step keeps the types; what it adds is about a group of the rows at hand.
LEMMA TypeStep ==
  ASSUME AclAssumption, PlannerAssumption, PlanInv, TypeOK, Scan, [Next]_vars
  PROVE  TypeOK'
<1>1. rows \subseteq Row /\ todo \subseteq Normalize(rows) /\ Rule \in Nat
  BY InputsAreRows DEF PlanInv, Pending, PlannerAssumption
<1>2. ASSUME NEW g \in Normalize(rows) PROVE g.source \subseteq rows
  BY <1>1, <1>2, GroupTypes
<1>3. ASSUME NEW g \in todo, RejectDeny(g) PROVE TypeOK'
  <2>1. g.source \subseteq rows
    BY <1>1, <1>2
  <2> QED BY <1>3, <2>1 DEF RejectDeny, Take, TypeOK, loop
<1>4. ASSUME NEW g \in todo, RestrictHost(g) PROVE TypeOK'
  <2>1. g.source \subseteq rows
    BY <1>1, <1>2
  <2> QED BY <1>4, <2>1 DEF RestrictHost, Take, TypeOK, loop, Unmapped
<1>5. ASSUME NEW g \in todo, MapFails(g) PROVE TypeOK'
  BY <1>5 DEF MapFails, Take, Fail, TypeOK, loop
<1>6. ASSUME NEW g \in todo, StartRules(g) PROVE TypeOK'
  <2>1. g \in Normalize(rows) /\ g.ops \subseteq Op
    BY <1>1, <1>6, GroupTypes DEF StartRules, Convertible
  <2>2. ToCover(g) \subseteq g.ops \cap ConcreteOp
    BY <2>1 DEF ToCover, Op
  <2>3. /\ UNCHANGED <<rows, existing, plan>> /\ todo' = todo \ {g} /\ stage' = "rules"
        /\ cur' = g /\ ri' = 1 /\ remaining' = ToCover(g) /\ selected' = {}
    BY <1>6 DEF StartRules, Take
  <2> QED BY <1>1, <2>1, <2>2, <2>3 DEF TypeOK, plan
<1>7. ASSUME SelectRule \/ PassRule PROVE TypeOK'
  <2>1. /\ UNCHANGED <<rows, existing, stage, todo, cur, plan>>
        /\ ri <= Rule /\ ri' = ri + 1
        /\ remaining' \subseteq remaining
        /\ selected' \subseteq selected \cup {ri}
    BY <1>7 DEF SelectRule, PassRule, Scanning
  <2>2. ri \in 1..(Rule + 1) /\ selected \subseteq 1..(ri - 1)
    BY DEF TypeOK
  <2>3. ri' \in 1..(Rule + 1) /\ 1..(ri - 1) \cup {ri} \subseteq 1..(ri' - 1)
    BY <1>1, <2>1, <2>2
  <2>4. selected' \subseteq 1..(ri' - 1)
    BY <2>1, <2>2, <2>3
  <2> QED BY <2>1, <2>3, <2>4 DEF TypeOK, plan
<1>8. ASSUME NoRule PROVE TypeOK'
  <2>1. cur.source \subseteq rows
    BY <1>2, <1>8 DEF NoRule, Scanned, PlanInv, CurrentGroup
  <2> QED BY <1>8, <2>1 DEF NoRule, TypeOK, loop, Unmapped
<1>9. ASSUME ScopeMissing PROVE TypeOK'
  BY <1>9 DEF ScopeMissing, Fail, TypeOK, loop
<1>10. ASSUME Emit PROVE TypeOK'
  <2>1. /\ UNCHANGED <<rows, existing, todo, cur, ri, remaining, selected, rejected, denies>>
        /\ stage = "rules" /\ stage' = "groups"
    BY <1>10 DEF Emit, Scanned, loop
  <2>2. cur \in Normalize(rows) /\ cur.source \subseteq rows
    BY <1>2, <2>1 DEF PlanInv, CurrentGroup
  <2>3. ASSUME NEW b \in bindings'
        PROVE  b.action \in {"CREATE", "SKIP_EXISTS"} /\ b.target \in Target /\ b.source \subseteq rows
    <3>1. CASE b \in bindings
      BY <3>1 DEF TypeOK
    <3>2. CASE b \notin bindings
      <4>1. PICK t : /\ \E i \in selected : t = TargetOf(cur, RuleAt[i].role)
                     /\ b = [action |-> IF Equivalent(t) THEN "SKIP_EXISTS" ELSE "CREATE",
                             target |-> t, source |-> cur.source]
        BY <1>10, <2>3, <3>2 DEF Emit
      <4>2. PICK i \in selected : t = TargetOf(cur, RuleAt[i].role)
        BY <4>1
      <4>3. i \in 1..Rule
        BY <1>1 DEF TypeOK
      <4>4. t \in Target
        BY <1>1, <2>2, <4>2, <4>3, TargetTypes
      <4> QED BY <2>2, <4>1, <4>4
    <3> QED BY <3>1, <3>2
  <2>4. ASSUME NEW u \in unmapped' PROVE u.reason \in Unmapped /\ u.source \subseteq rows
    <3>1. u \in unmapped
            \/ u = [source |-> cur.source, reason |-> "CONFLICTING_EXISTING_BINDING"]
      BY <1>10, <2>4 DEF Emit
    <3> QED BY <2>2, <3>1 DEF TypeOK, Unmapped
  <2>5. ASSUME NEW p \in partial' PROVE p.missing \subseteq ConcreteOp /\ p.source \subseteq rows
    <3>1. p \in partial \/ p = [source |-> cur.source, missing |-> Missing(cur, selected)]
      BY <1>10, <2>5 DEF Emit
    <3>2. Missing(cur, selected) \subseteq ConcreteOp
      BY <2>1 DEF Scan, TypeOK
    <3> QED BY <2>2, <3>1, <3>2 DEF TypeOK
  <2> QED BY <2>1, <2>3, <2>4, <2>5 DEF TypeOK
<1>11. ASSUME AnalyzeDenies PROVE TypeOK'
  <2>1. \A d \in denies' : d.row \in rows /\ d.status \in Verdict
    BY <1>11, VerdictTypes DEF AnalyzeDenies
  <2> QED BY <1>11, <2>1 DEF AnalyzeDenies, TypeOK, loop
<1>12. CASE UNCHANGED vars
  BY <1>12 DEF vars, loop, plan, TypeOK
<1> QED BY <1>3, <1>4, <1>5, <1>6, <1>7, <1>8, <1>9, <1>10, <1>11, <1>12 DEF Next

\* FindCoveringRules: a rule that was passed covers nothing of what remains.
LEMMA ScanStep ==
  ASSUME AclAssumption, PlannerAssumption, TypeOK, Scan, [Next]_vars
  PROVE  Scan'
<1>1. ASSUME stage' # "rules" PROVE Scan'
  BY <1>1 DEF Scan
<1>2. ASSUME NEW g \in todo, StartRules(g) PROVE Scan'
  <2>1. cur' = g /\ ri' = 1 /\ remaining' = ToCover(g) /\ selected' = {}
    BY <1>2 DEF StartRules
  <2>2. Missing(g, {}) = ToCover(g)
    BY DEF Missing, ToCover
  <2>3. 1..(ri' - 1) = {}
    BY <2>1
  <2> QED BY <2>1, <2>2, <2>3 DEF Scan
<1>3. ASSUME SelectRule \/ PassRule PROVE Scan'
  <2>1. /\ stage = "rules" /\ UNCHANGED <<stage, cur>> /\ ri' = ri + 1
        /\ remaining # {}
    BY <1>3 DEF SelectRule, PassRule, Scanning
  <2>2. /\ remaining = Missing(cur, selected)
        /\ \A i \in selected : MatchesRule(cur, RuleAt[i])
        /\ \A i \in 1..(ri - 1) :
             MatchesRule(cur, RuleAt[i]) => RuleCoveredOps(cur, RuleAt[i]) \cap remaining = {}
    BY <2>1 DEF Scan
  <2>3. 1..(ri' - 1) = 1..(ri - 1) \cup {ri}
    BY <2>1 DEF TypeOK
  <2>4. CASE SelectRule
    <3>1. /\ selected' = selected \cup {ri} /\ MatchesRule(cur, RuleAt[ri])
          /\ remaining' = remaining \ RuleCoveredOps(cur, RuleAt[ri])
      BY <2>4 DEF SelectRule, Useful
    <3>2. remaining' = Missing(cur, selected')
      BY <2>2, <3>1, MissingAfter
    <3>3. \A i \in 1..(ri' - 1) :
             MatchesRule(cur, RuleAt[i]) => RuleCoveredOps(cur, RuleAt[i]) \cap remaining' = {}
      BY <2>2, <2>3, <3>1
    <3> QED BY <2>1, <2>2, <3>1, <3>2, <3>3 DEF Scan
  <2>5. CASE PassRule
    <3>1. /\ selected' = selected /\ remaining' = remaining
          /\ MatchesRule(cur, RuleAt[ri]) => RuleCoveredOps(cur, RuleAt[ri]) \cap remaining = {}
      BY <2>5 DEF PassRule, Useful
    <3> QED BY <2>1, <2>2, <2>3, <3>1 DEF Scan
  <2> QED BY <1>3, <2>4, <2>5
<1>4. CASE UNCHANGED vars
  BY <1>4 DEF vars, loop, Scan
<1>5. ASSUME NEW g \in todo, RejectDeny(g) \/ RestrictHost(g) \/ MapFails(g) PROVE stage' # "rules"
  BY <1>5 DEF RejectDeny, RestrictHost, MapFails, Take, Fail
<1>6. ASSUME NoRule \/ ScopeMissing \/ Emit \/ AnalyzeDenies PROVE stage' # "rules"
  BY <1>6 DEF NoRule, ScopeMissing, Emit, AnalyzeDenies, Fail
<1> QED BY <1>1, <1>2, <1>3, <1>4, <1>5, <1>6 DEF Next

\* When the scan is over, no rule that matches the group covers what is missing.
LEMMA MissingIsUncoverable ==
  ASSUME PlannerAssumption, TypeOK, Scan, Scanned,
         NEW op \in Missing(cur, selected), NEW i \in 1..Rule, MatchesRule(cur, RuleAt[i])
  PROVE  op \notin RuleCoveredOps(cur, RuleAt[i])
<1>1. stage = "rules" /\ ~(ri <= Rule /\ remaining # {})
  BY DEF Scanned, Scanning
<1>2. op \in remaining
  BY <1>1 DEF Scan
<1>3. i \in 1..(ri - 1)
  <2>1. ri \in 1..(Rule + 1) /\ Rule \in Nat
    BY DEF TypeOK, PlannerAssumption
  <2> QED BY <1>1, <1>2, <2>1
<1> QED BY <1>1, <1>2, <1>3 DEF Scan

\* A warning is only raised about the group that was scanned.
LEMMA WarningStep ==
  ASSUME AclAssumption, PlannerAssumption, PlanInv, TypeOK, Scan, WarnsOnlyUncoverable,
         [Next]_vars
  PROVE  WarnsOnlyUncoverable'
<1>1. rows' = rows
  BY DEF Next, RejectDeny, RestrictHost, MapFails, StartRules, Take, SelectRule, PassRule,
         NoRule, ScopeMissing, Emit, AnalyzeDenies, vars
<1>2. partial' \subseteq partial \/ Emit
  BY DEF Next, RejectDeny, RestrictHost, MapFails, StartRules, Fail, SelectRule, PassRule,
         NoRule, ScopeMissing, AnalyzeDenies, vars, plan
<1>3. CASE partial' \subseteq partial
  BY <1>1, <1>3 DEF WarnsOnlyUncoverable
<1>4. ASSUME Emit, NEW p \in partial', p \notin partial,
             NEW g \in Normalize(rows), g.source = p.source,
             NEW op \in p.missing, NEW i \in 1..Rule, MatchesRule(g, RuleAt[i])
      PROVE  op \notin RuleCoveredOps(g, RuleAt[i])
  <2>1. p = [source |-> cur.source, missing |-> Missing(cur, selected)] /\ Scanned
    BY <1>4 DEF Emit
  <2>2. cur \in Normalize(rows)
    BY <2>1 DEF Scanned, PlanInv, CurrentGroup
  <2>3. g = cur
    BY <1>4, <2>1, <2>2, OneGroupPerRow
  <2> QED BY <1>4, <2>1, <2>3, MissingIsUncoverable
<1> QED BY <1>1, <1>2, <1>3, <1>4 DEF WarnsOnlyUncoverable

\* An unrestricted Allow row's group is one that may be converted, and holds every
\* operation the row grants.
LEMMA GrantsInGroup ==
  ASSUME rows \subseteq Row, NEW g \in Normalize(rows), NEW r \in g.source
  PROVE  /\ r \in rows
         /\ r.perm = g.key.perm /\ r.host = g.key.host /\ r.rtype = g.key.rtype
         /\ r.perm = "Allow" => Grants(r) \subseteq g.ops \ {"All"}
<1>1. PICK q \in rows :
         g = NormalGroup(rows, KeyOf(q)) /\ g.key = KeyOf(q) /\ g.source = Members(rows, KeyOf(q))
  BY GroupHasRow
<1>2. r \in rows /\ KeyOf(r) = g.key
  BY <1>1 DEF Members
<1>3. r.perm = g.key.perm /\ r.host = g.key.host /\ r.rtype = g.key.rtype
  <2> DEFINE k == g.key
  <2>1. KeyOf(r) = k
    BY <1>2
  <2> HIDE DEF k
  <2>2. r.perm = k.perm /\ r.host = k.host /\ r.rtype = k.rtype
    BY <2>1 DEF KeyOf
  <2> QED BY <2>2 DEF k
<1>4. ASSUME r.perm = "Allow", NEW op \in Grants(r) PROVE op \in g.ops \ {"All"}
  <2>1. /\ op \in AllImpliedOps[r.rtype]
        /\ r.op \in {"All", op} \/ op \in ImpliedOps(r.op)
    BY <1>4 DEF Grants
  <2>2. op \in NormalGroup(rows, KeyOf(r)).ops
    BY <1>2, <1>4, <2>1, RowOpsInGroup
  <2>3. r.rtype \in ResourceType
    BY <1>2 DEF Row
  <2> QED BY <1>1, <1>2, <2>1, <2>2, <2>3, OpFacts
<1> QED BY <1>2, <1>3, <1>4

\* What a selected rule covers of a group, its role grants.
LEMMA RoleCovers ==
  ASSUME RulesAssumption, NEW g, NEW i \in 1..Rule, MatchesRule(g, RuleAt[i]),
         NEW op \in RuleCoveredOps(g, RuleAt[i]), op \in AllImpliedOps[g.key.rtype]
  PROVE  op \in RoleOps[RuleAt[i].role][g.key.rtype]
<1> DEFINE rule == RuleAt[i]
<1>1. RoleGrants(rule)
  BY DEF RulesAssumption
<1>2. g.key.rtype = rule.rtype
  BY DEF MatchesRule
<1>3. CASE "All" \in rule.ops
  BY <1>1, <1>2, <1>3 DEF RoleGrants
<1>4. CASE "All" \notin rule.ops
  BY <1>1, <1>2, <1>4 DEF RoleGrants, RuleCoveredOps
<1> QED BY <1>3, <1>4

\* Entries are only added, so what is accounted for stays so.
LEMMA AccountedStays ==
  ASSUME bindings \subseteq bindings', partial \subseteq partial', unmapped \subseteq unmapped',
         NEW r, NEW op, Accounted(r, op)
  PROVE  Accounted(r, op)'
BY DEF Accounted

\* Emit accounts for every grant of the rows of its group: a selected rule covers it,
\* and becomes a binding or an unmapped entry, or the warning names it.
LEMMA EmitAccounts ==
  ASSUME AclAssumption, PlannerAssumption, RulesAssumption, PlanInv, TypeOK, Scan, Emit,
         NEW r \in cur.source, r.perm = "Allow", NEW op \in Grants(r)
  PROVE  Accounted(r, op)'
<1>1. /\ rows \subseteq Row /\ Rule \in Nat /\ stage = "rules" /\ cur \in Normalize(rows)
  BY InputsAreRows DEF PlanInv, CurrentGroup, Emit, Scanned, PlannerAssumption
<1>2. op \in cur.ops \ {"All"} /\ r.rtype = cur.key.rtype /\ op \in AllImpliedOps[r.rtype]
  BY <1>1, GrantsInGroup DEF Grants
<1>3. CASE op \in Missing(cur, selected)
  <2> DEFINE p == [source |-> cur.source, missing |-> Missing(cur, selected)]
  <2>1. p \in partial'
    BY <1>3 DEF Emit
  <2>2. r \in p.source /\ op \in p.missing
    BY <1>3
  <2> QED BY <2>1, <2>2 DEF Accounted
<1>4. CASE op \notin Missing(cur, selected)
  <2>1. PICK i \in selected : op \in RuleCoveredOps(cur, RuleAt[i])
    BY <1>2, <1>4 DEF Missing
  <2>2. i \in 1..Rule /\ MatchesRule(cur, RuleAt[i])
    BY <1>1 DEF TypeOK, Scan
  <2>3. op \in RoleOps[RuleAt[i].role][r.rtype]
    BY <1>2, <2>1, <2>2, RoleCovers
  <2> DEFINE t == TargetOf(cur, RuleAt[i].role)
  <2>4. t.role = RuleAt[i].role
    BY DEF TargetOf
  <2>5. CASE Conflicting(t)
    <3> DEFINE u == [source |-> cur.source, reason |-> "CONFLICTING_EXISTING_BINDING"]
    <3>1. u \in unmapped'
      BY <2>5 DEF Emit
    <3> QED BY <3>1 DEF Accounted
  <2>6. CASE ~Conflicting(t)
    <3> DEFINE b == [action |-> IF Equivalent(t) THEN "SKIP_EXISTS" ELSE "CREATE",
                     target |-> t, source |-> cur.source]
    <3>1. b \in bindings'
      BY <2>6 DEF Emit
    <3> HIDE DEF t
    <3>2. b.source = cur.source /\ b.target = t
      OBVIOUS
    <3> HIDE DEF b
    <3> QED BY <2>3, <2>4, <3>1, <3>2 DEF Accounted
  <2> QED BY <2>5, <2>6
<1> QED BY <1>3, <1>4

\* A row stays in its group until the group has been accounted for.
LEMMA SettledStep ==
  ASSUME AclAssumption, PlannerAssumption, RulesAssumption, PlanInv, TypeOK, Scan, Settled,
         [Next]_vars
  PROVE  Settled'
<1>1. rows \subseteq Row /\ todo \subseteq Normalize(rows)
  BY InputsAreRows DEF PlanInv, Pending
<1> DEFINE Queued(r)  == \E g \in todo : r \in g.source
           Current(r) == stage = "rules" /\ r \in cur.source
           Free(r)    == r.perm = "Allow" /\ r.host = Star
           Done(r)    == \A op \in Grants(r) : Accounted(r, op)
<1>2. ASSUME stage # "error", rows' = rows,
             \A r \in rows : Free(r) /\ (Queued(r) \/ Current(r))
                               => Queued(r)' \/ Current(r)' \/ Done(r)',
             bindings \subseteq bindings', partial \subseteq partial', unmapped \subseteq unmapped'
      PROVE  Settled'
  <2>1. \A r \in rows : Free(r) => Queued(r) \/ Current(r) \/ Done(r)
    BY <1>2 DEF Settled
  <2>2. \A r \in rows : Done(r) => Done(r)'
    BY <1>2, AccountedStays DEF Grants
  <2>3. \A r \in rows : Free(r) => Queued(r)' \/ Current(r)' \/ Done(r)'
    BY <1>2, <2>1, <2>2
  <2> QED BY <1>2, <2>3 DEF Settled
<1>3. ASSUME stage' = "error" PROVE Settled'
  BY <1>3 DEF Settled
<1>4. ASSUME NEW g \in todo, RejectDeny(g) PROVE Settled'
  <2>1. /\ stage = "groups" /\ stage' = stage /\ todo' = todo \ {g}
        /\ UNCHANGED <<rows, cur, bindings, partial, unmapped>> /\ g.key.perm = "Deny"
    BY <1>4 DEF RejectDeny, Take, loop
  <2>2. \A r \in rows : Free(r) => r \notin g.source
    BY <1>1, <2>1, GrantsInGroup
  <2> QED BY <1>2, <2>1, <2>2
<1>5. ASSUME NEW g \in todo, RestrictHost(g) PROVE Settled'
  <2>1. /\ stage = "groups" /\ stage' = stage /\ todo' = todo \ {g}
        /\ UNCHANGED <<rows, cur, bindings, partial>> /\ unmapped \subseteq unmapped'
        /\ g.key.host # Star
    BY <1>5 DEF RestrictHost, Take, loop
  <2>2. \A r \in rows : Free(r) => r \notin g.source
    BY <1>1, <2>1, GrantsInGroup
  <2> QED BY <1>2, <2>1, <2>2
<1>6. ASSUME NEW g \in todo, StartRules(g) PROVE Settled'
  <2>1. /\ stage = "groups" /\ stage' = "rules" /\ todo' = todo \ {g} /\ cur' = g
        /\ UNCHANGED <<rows, bindings, partial, unmapped>>
    BY <1>6 DEF StartRules, Take, plan
  <2> QED BY <1>2, <2>1
<1>7. ASSUME SelectRule \/ PassRule PROVE Settled'
  <2>1. /\ stage = "rules" /\ UNCHANGED <<stage, rows, todo, cur, bindings, partial, unmapped>>
    BY <1>7 DEF SelectRule, PassRule, Scanning, plan
  <2> QED BY <1>2, <2>1
<1>8. ASSUME NoRule PROVE Settled'
  <2> DEFINE u == [source |-> cur.source, reason |-> "NO_RULE_MATCH"]
  <2>1. /\ stage = "rules" /\ UNCHANGED <<rows, todo, bindings, partial>>
        /\ unmapped' = unmapped \cup {u}
    BY <1>8 DEF NoRule, Scanned
  <2>2. u \in unmapped' /\ u.source = cur.source
    BY <2>1
  <2> HIDE DEF u
  <2>3. \A r \in cur.source : \A op : Accounted(r, op)'
    BY <2>2 DEF Accounted
  <2>4. \A r \in cur.source : Done(r)'
    BY <2>3
  <2>5. unmapped \subseteq unmapped'
    BY <2>1
  <2> QED BY <1>2, <2>1, <2>4, <2>5
<1>9. ASSUME Emit PROVE Settled'
  <2>1. /\ stage = "rules" /\ UNCHANGED <<rows, todo>>
        /\ bindings \subseteq bindings' /\ partial \subseteq partial' /\ unmapped \subseteq unmapped'
    BY <1>9 DEF Emit, Scanned
  <2>2. \A r \in cur.source : Free(r) => Done(r)'
    BY <1>9, EmitAccounts DEF Grants
  <2> QED BY <1>2, <2>1, <2>2
<1>10. ASSUME AnalyzeDenies PROVE Settled'
  <2>1. /\ stage = "groups" /\ UNCHANGED <<rows, todo, bindings, partial, unmapped>>
    BY <1>10 DEF AnalyzeDenies
  <2> QED BY <1>2, <2>1
<1>11. ASSUME (\E g \in todo : MapFails(g)) \/ ScopeMissing PROVE stage' = "error"
  BY <1>11 DEF MapFails, ScopeMissing, Fail
<1>12. CASE UNCHANGED vars
  BY <1>12 DEF vars, loop, plan, Settled, Accounted
<1> QED BY <1>3, <1>4, <1>5, <1>6, <1>7, <1>8, <1>9, <1>10, <1>11, <1>12 DEF Next

\* At first every row is in a group to come.
LEMMA GrantInit ==
  ASSUME AclAssumption, PlannerAssumption, Init
  PROVE  GrantInv
<1>1. PlanInv
  BY InitEstablishes
<1>2. TypeOK
  <2>1. Rule \in Nat /\ rows \subseteq Row
    BY InputsAreRows DEF Init, PlannerAssumption
  <2> QED BY <2>1 DEF Init, TypeOK, NoGroup
<1>3. Finished /\ Scan /\ WarnsOnlyUncoverable
  BY DEF Init, Finished, Scan, WarnsOnlyUncoverable
<1>4. Settled
  <2>1. \A r \in rows : \E g \in todo : r \in g.source
    BY RowInGroup DEF Init
  <2> QED BY <2>1 DEF Settled
<1> QED BY <1>1, <1>2, <1>3, <1>4 DEF GrantInv

\* The invariant of the loop over the groups and of the one over the rules.
THEOREM GrantInvariant ==
  ASSUME AclAssumption, PlannerAssumption, RulesAssumption
  PROVE  Spec => []GrantInv
<1>1. Init => GrantInv
  BY GrantInit
<1>2. GrantInv /\ [Next]_vars => GrantInv'
  <2>1. ASSUME Finished, [Next]_vars PROVE Finished'
    BY <2>1 DEF Finished, Next, RejectDeny, RestrictHost, MapFails, StartRules, Take, Fail,
           SelectRule, PassRule, NoRule, ScopeMissing, Emit, AnalyzeDenies, Scanning, Scanned, vars
  <2> QED BY <2>1, StepKeeps, TypeStep, ScanStep, SettledStep, WarningStep DEF GrantInv
<1> QED BY <1>1, <1>2, PTL DEF Spec

\* The plan and the locals of Run have their types.
THEOREM TypeCorrect ==
  ASSUME AclAssumption, PlannerAssumption, RulesAssumption
  PROVE  Spec => []TypeOK
<1>1. GrantInv => TypeOK
  BY DEF GrantInv
<1> QED BY <1>1, GrantInvariant, PTL

\* Whatever the rows, the rules and the inventory, a complete plan accounts for every
\* operation that an unrestricted Allow grants, if each rule's role grants what the
\* rule is selected for.
THEOREM NoGrantLostHolds ==
  ASSUME AclAssumption, PlannerAssumption, RulesAssumption
  PROVE  Spec => []NoGrantLost
<1>1. GrantInv => NoGrantLost
  <2> SUFFICES ASSUME GrantInv, stage = "done",
                      NEW r \in rows, r.perm = "Allow", r.host = Star
               PROVE  \A op \in Grants(r) : Accounted(r, op)
    BY DEF NoGrantLost
  <2>1. ~\E g \in todo : r \in g.source
    BY DEF GrantInv, Finished
  <2> QED BY <2>1 DEF GrantInv, Settled
<1> QED BY <1>1, GrantInvariant, PTL

\* FindCoveringRules warns of no operation that some rule matching the group covers.
THEOREM WarnsOnlyUncoverableHolds ==
  ASSUME AclAssumption, PlannerAssumption, RulesAssumption
  PROVE  Spec => []WarnsOnlyUncoverable
<1>1. GrantInv => WarnsOnlyUncoverable
  BY DEF GrantInv
<1> QED BY <1>1, GrantInvariant, PTL
=============================================================================
