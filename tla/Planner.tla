------------------------------ MODULE Planner ------------------------------
(***************************************************************************)
(* `plan` (pkg/aclrbac/plan): every group of ACL rows becomes role         *)
(* bindings, an unmapped entry or a rejected entry, and every DENY row is  *)
(* classified by what its removal would expose.                            *)
(*                                                                         *)
(* Run's loop over the groups and FindCoveringRules' loop over the rules   *)
(* are steps, because what an iteration does depends on what the earlier   *)
(* ones left.  The plan is a set of entries: its order is not modelled.    *)
(***************************************************************************)
EXTENDS Acl, Sequences

CONSTANTS
  Inputs,       \* the sets of ACL rows to plan for
  Inventories,  \* the sets of existing bindings to plan against
  Rule,         \* number of rules, in matching order
  RuleAt,       \* the rules: [ops, mode, rtype, perm, role]
  RoleOps,      \* what the MDS's definition of each role grants on each resource type
  Mapping,      \* principals.yaml: a function from some principals to principals
  Fallback,     \* "fail" or "pass-through"
  Scoped        \* resource types whose cluster id scopes.yaml gives

Role == {RuleAt[i].role : i \in 1..Rule}

\* An existing binding aggregates the patterns of one principal's role in a scope.
Existing == [principal : Principal, role : Role, scope : {"kafka", "schema-registry"},
             patterns : SUBSET (ResourceType \X Pattern)]

ASSUME PlannerAssumption ==
  /\ Rule \in Nat
  /\ \A rows \in Inputs : rows \subseteq Row /\ \A r \in rows : Valid(r)
  /\ \A i \in 1..Rule :
       /\ RuleAt[i].ops \subseteq Op /\ RuleAt[i].ops # {}
       /\ RuleAt[i].mode \in {"all", "any"}
       /\ RuleAt[i].rtype \in ResourceType
       /\ RuleAt[i].perm \in {"Allow", "Deny"}
  /\ DOMAIN Mapping \subseteq Principal
  /\ \A p \in DOMAIN Mapping : Mapping[p] \in Principal
  /\ Fallback \in {"fail", "pass-through"}
  /\ Scoped \subseteq ResourceType
  /\ Inventories \subseteq SUBSET Existing

\* What ruleCoveredOps takes for granted, and defaults.yaml is written to meet: the
\* role of a rule grants the operations the rule is selected for.  Nothing checks
\* it of a user's rules.yaml; only NoGrantLost depends on it.
RoleGrants(rule) ==
  LET granted == RoleOps[rule.role][rule.rtype]
  IN  IF "All" \in rule.ops THEN AllImpliedOps[rule.rtype] \subseteq granted
      ELSE rule.ops \cup UNION {ImpliedOps(op) : op \in rule.ops} \subseteq granted

ASSUME RulesAssumption == \A i \in 1..Rule : RoleGrants(RuleAt[i])

VARIABLES
  rows,         \* acls.json
  existing,     \* existing-bindings.json
  stage,        \* where Run is
  todo,         \* groups the loop has not come to
  cur,          \* the group the rules are tried on
  ri,           \* FindCoveringRules: the rule it has come to,
  remaining,    \*   the operations nothing covers so far,
  selected,     \*   and the rules selected
  bindings, unmapped, rejected, partial, denies     \* the plan

loop == <<cur, ri, remaining, selected>>
plan == <<bindings, unmapped, rejected, partial, denies>>
vars == <<rows, existing, stage, todo, loop, plan>>

NoGroup == [ops |-> {}, source |-> {}]

Target   == [principal : Principal, role : Role, scope : {"kafka", "schema-registry"},
             pattern : ResourceType \X Pattern]
Unmapped == {"HOST_RESTRICTED", "NO_RULE_MATCH", "CONFLICTING_EXISTING_BINDING"}
Verdict  == {"SAFE_TO_REMOVE", "WOULD_GRANT_ACCESS", "UNKNOWN"}

\* Types, and that the marker All is never an operation to cover.
TypeOK ==
  /\ rows \subseteq Row
  /\ stage \in {"groups", "rules", "done", "error"}
  /\ todo \subseteq Normalize(rows)
  /\ cur \in Normalize(rows) \cup {NoGroup}
  /\ ri \in 1..(Rule + 1)
  /\ remaining \subseteq cur.ops \cap ConcreteOp
  /\ selected \subseteq 1..(ri - 1)
  /\ \A b \in bindings :
       b.action \in {"CREATE", "SKIP_EXISTS"} /\ b.target \in Target /\ b.source \subseteq rows
  /\ \A u \in unmapped : u.reason \in Unmapped /\ u.source \subseteq rows
  /\ rejected \subseteq SUBSET rows
  /\ \A p \in partial : p.missing \subseteq ConcreteOp /\ p.source \subseteq rows
  /\ \A d \in denies : d.row \in rows /\ d.status \in Verdict

Init ==
  /\ rows \in Inputs /\ existing \in Inventories
  /\ stage = "groups"
  /\ todo = Normalize(rows)
  /\ cur = NoGroup /\ ri = 1 /\ remaining = {} /\ selected = {}
  /\ bindings = {} /\ unmapped = {} /\ rejected = {} /\ partial = {} /\ denies = {}

-----------------------------------------------------------------------------
(* One group *)

\* Mutant: host-restricted rows are converted like the others.
AnyHost(g) == g.key.perm = "Allow"

Convertible(g) == g.key.perm = "Allow" /\ g.key.host = Star

\* The next group is taken up.
Take(g) ==
  /\ stage = "groups" /\ g \in todo
  /\ todo' = todo \ {g}
  /\ UNCHANGED <<rows, existing>>

RejectDeny(g) ==
  /\ Take(g)
  /\ g.key.perm = "Deny"
  /\ rejected' = rejected \cup {g.source}
  /\ UNCHANGED <<stage, loop, bindings, unmapped, partial, denies>>

RestrictHost(g) ==
  /\ Take(g)
  /\ g.key.perm = "Allow" /\ g.key.host # Star
  /\ unmapped' = unmapped \cup {[source |-> g.source, reason |-> "HOST_RESTRICTED"]}
  /\ UNCHANGED <<stage, loop, bindings, rejected, partial, denies>>

\* MapPrincipal
Mappable(p) == p \in DOMAIN Mapping \/ Fallback = "pass-through"
Resolve(p)  == IF p \in DOMAIN Mapping THEN Mapping[p] ELSE p

\* An error discards the whole plan.
Fail ==
  /\ stage' = "error"
  /\ bindings' = {} /\ unmapped' = {} /\ rejected' = {} /\ partial' = {} /\ denies' = {}

MapFails(g) ==
  /\ Take(g)
  /\ Convertible(g) /\ ~Mappable(g.key.principal)
  /\ Fail
  /\ UNCHANGED loop

\* Mutant: the marker All counts as an operation to cover.
KeepMarker(g) == g.ops

ToCover(g) == g.ops \ {"All"}

StartRules(g) ==
  /\ Take(g)
  /\ Convertible(g) /\ Mappable(g.key.principal)
  /\ stage' = "rules"
  /\ cur' = g /\ ri' = 1 /\ remaining' = ToCover(g) /\ selected' = {}
  /\ UNCHANGED plan

-----------------------------------------------------------------------------
(* FindCoveringRules *)

MatchesRule(g, rule) ==
  /\ g.key.rtype = rule.rtype /\ g.key.perm = rule.perm
  /\ IF rule.mode = "all" THEN rule.ops \subseteq g.ops ELSE rule.ops \cap g.ops # {}

\* Mutant: a rule that matches a group covers all of it.
CoversGroup(g, rule) == g.ops

\* A rule on All covers whatever the group holds.
RuleCoveredOps(g, rule) ==
  IF "All" \in rule.ops THEN g.ops
  ELSE rule.ops \cup UNION {ImpliedOps(op) : op \in rule.ops}

Scanning == stage = "rules" /\ ri <= Rule /\ remaining # {}

Useful == MatchesRule(cur, RuleAt[ri]) /\ RuleCoveredOps(cur, RuleAt[ri]) \cap remaining # {}

\* Mutant: the first rule that matches is the only one.
FirstMatchOnly ==
  /\ Scanning /\ Useful
  /\ selected' = {ri} /\ remaining' = {} /\ ri' = ri + 1
  /\ UNCHANGED <<rows, existing, stage, todo, cur, plan>>

SelectRule ==
  /\ Scanning /\ Useful
  /\ selected' = selected \cup {ri}
  /\ remaining' = remaining \ RuleCoveredOps(cur, RuleAt[ri])
  /\ ri' = ri + 1
  /\ UNCHANGED <<rows, existing, stage, todo, cur, plan>>

PassRule ==
  /\ Scanning /\ ~Useful
  /\ ri' = ri + 1
  /\ UNCHANGED <<rows, existing, stage, todo, cur, remaining, selected, plan>>

Scanned == stage = "rules" /\ ~Scanning

\* Mutant: a group without a rule is passed over.
NoRuleNoEntry ==
  /\ Scanned /\ selected = {}
  /\ stage' = "groups"
  /\ UNCHANGED <<rows, existing, todo, loop, plan>>

NoRule ==
  /\ Scanned /\ selected = {}
  /\ unmapped' = unmapped \cup {[source |-> cur.source, reason |-> "NO_RULE_MATCH"]}
  /\ stage' = "groups"
  /\ UNCHANGED <<rows, existing, todo, loop, bindings, rejected, partial, denies>>

-----------------------------------------------------------------------------
(* The bindings of a group, one for each role *)

ApplyScope(rtype) == IF rtype = "Subject" THEN "schema-registry" ELSE "kafka"

TargetOf(g, role) ==
  [principal |-> Resolve(g.key.principal), role |-> role,
   scope |-> ApplyScope(g.key.rtype), pattern |-> <<g.key.rtype, g.key.pattern>>]

Rivals(t) ==
  {e \in existing : e.principal = t.principal /\ e.role = t.role /\ e.scope = t.scope}
Equivalent(t) == \E e \in Rivals(t) : e.patterns = {t.pattern}
Conflicting(t) == Rivals(t) # {} /\ ~Equivalent(t)

\* PARTIAL_RULE_COVERAGE: operations no selected rule covers.
Missing(g, rules) ==
  (g.ops \ {"All"}) \ UNION {RuleCoveredOps(g, RuleAt[i]) : i \in rules}

ScopeMissing ==
  /\ Scanned /\ selected # {}
  /\ cur.key.rtype \notin Scoped
  /\ Fail
  /\ UNCHANGED <<rows, existing, todo, loop>>

Emit ==
  /\ Scanned /\ selected # {}
  /\ cur.key.rtype \in Scoped
  /\ LET targets == {TargetOf(cur, RuleAt[i].role) : i \in selected}
         missing == Missing(cur, selected)
     IN /\ bindings' = bindings \cup
             {[action |-> IF Equivalent(t) THEN "SKIP_EXISTS" ELSE "CREATE",
               target |-> t, source |-> cur.source] : t \in {x \in targets : ~Conflicting(x)}}
        /\ unmapped' = unmapped \cup
             {[source |-> cur.source, reason |-> "CONFLICTING_EXISTING_BINDING"] :
                t \in {x \in targets : Conflicting(x)}}
        /\ partial' = partial \cup
             (IF missing = {} THEN {} ELSE {[source |-> cur.source, missing |-> missing]})
  /\ stage' = "groups"
  /\ UNCHANGED <<rows, existing, todo, loop, rejected, denies>>

-----------------------------------------------------------------------------
(* analyzeDenies: the bindings of the plan are no part of what it looks at, and  *)
(* every Allow group is, those that were not converted included.                *)

AllowIndex ==
  UNION {{[key |-> g.key, op |-> op] : op \in g.ops \ {"All"}} :
           g \in {x \in Normalize(rows) : x.key.perm = "Allow"}}

AllowPrincipalCovers(allow, deny) ==
  allow = deny \/ allow = AnyPrincipal \/ (allow.name = Star /\ allow.type = deny.type)

Exposed(d, entry) ==
  /\ AllowPrincipalCovers(entry.key.principal, d.principal)
  /\ d.op \in {"All", entry.op} \cup ImpliedOps(entry.op)
  /\ entry.key.rtype = d.rtype
  /\ PatternsOverlap(entry.key.pattern, d.pattern)

ClassifyDeny(d) ==
  IF IsWildcardPrincipal(d.principal) THEN "UNKNOWN"
  ELSE IF \E entry \in AllowIndex : Exposed(d, entry) THEN "WOULD_GRANT_ACCESS"
  ELSE "SAFE_TO_REMOVE"

AnalyzeDenies ==
  /\ stage = "groups" /\ todo = {}
  /\ denies' = {[row |-> d, status |-> ClassifyDeny(d)] : d \in {r \in rows : r.perm = "Deny"}}
  /\ stage' = "done"
  /\ UNCHANGED <<rows, existing, todo, loop, bindings, unmapped, rejected, partial>>

Next ==
  \/ \E g \in todo : RejectDeny(g) \/ RestrictHost(g) \/ MapFails(g) \/ StartRules(g)
  \/ SelectRule
  \/ PassRule
  \/ NoRule
  \/ ScopeMissing
  \/ Emit
  \/ AnalyzeDenies

Spec == Init /\ [][Next]_vars

-----------------------------------------------------------------------------
(* Properties *)

Sources(entries) == UNION {e.source : e \in entries}

Placed == Sources(bindings) \cup Sources(unmapped) \cup UNION rejected

\* README.md:741: no ACL is silently dropped.  When the plan is complete, every row
\* is behind a binding, an unmapped entry or a rejected entry.
NoRowLost == stage = "done" => rows \subseteq Placed

\* README.md:742: scope is never widened, and DENYs and host-restricted rows are
\* never converted.  Every row behind a binding is an unrestricted Allow of its
\* principal on exactly the binding's resource pattern.
NeverWidened ==
  \A b \in bindings :
    /\ b.source # {}
    /\ \A r \in b.source :
         /\ r.perm = "Allow" /\ r.host = Star
         /\ Resolve(r.principal) = b.target.principal
         /\ <<r.rtype, r.pattern>> = b.target.pattern

\* No grant is lost in silence: an operation an unrestricted Allow grants, implied
\* ones included, is granted by the role of some binding of its row, or is named by
\* a PARTIAL_RULE_COVERAGE warning, or its row is unmapped.
Accounted(r, op) ==
  \/ \E b \in bindings : r \in b.source /\ op \in RoleOps[b.target.role][r.rtype]
  \/ \E p \in partial : r \in p.source /\ op \in p.missing
  \/ \E u \in unmapped : r \in u.source

Grants(r) ==
  {op \in AllImpliedOps[r.rtype] : r.op \in {op, "All"} \/ op \in ImpliedOps(r.op)}

NoGrantLost ==
  stage = "done" =>
    \A r \in rows : r.perm = "Allow" /\ r.host = Star => \A op \in Grants(r) : Accounted(r, op)

\* The warning is not raised lightly: an operation it names is covered by no rule
\* that matches the group, wherever that rule stands among the others.
WarnsOnlyUncoverable ==
  \A p \in partial, g \in Normalize(rows) : g.source = p.source =>
    \A op \in p.missing, i \in 1..Rule :
      MatchesRule(g, RuleAt[i]) => op \notin RuleCoveredOps(g, RuleAt[i])

\* As far as the Allow rows go: a DENY of a concrete principal is SAFE_TO_REMOVE
\* exactly if there is no request of that principal which it denies and some Allow
\* row permits, the overlap of patterns, `All` and implied operations included.
\* analyzeDenies is handed rows and groups and no bindings, so this says nothing of
\* what a binding permits: see SafeBesideBindings.
Shields(d) ==
  \E a \in rows :
    /\ a.perm = "Allow" /\ a.rtype = d.rtype
    /\ \E op \in AllImpliedOps[d.rtype], n \in Name :
         IsAbout(a, d.principal, op, n) /\ IsAbout(d, d.principal, op, n)

DenyVerdicts ==
  \A d \in denies :
    /\ d.status = "UNKNOWN" <=> IsWildcardPrincipal(d.row.principal)
    /\ d.status # "UNKNOWN" => (d.status = "SAFE_TO_REMOVE" <=> ~Shields(d.row))

\* deny.go:14-15 wants DENYs judged against "the bindings the planner produced" too,
\* types/plan.go:92-93 calls the covering rule an "Allow ACL or RBAC binding": what a
\* DENY called SAFE_TO_REMOVE denies, no binding of the same plan grants.
SafeBesideBindings ==
  \A d \in denies, b \in bindings :
    d.status = "SAFE_TO_REMOVE" /\ b.target.principal = d.row.principal
                               /\ b.target.pattern[1] = d.row.rtype
      => ~\E op \in RoleOps[b.target.role][d.row.rtype], n \in Name :
            Matches(b.target.pattern[2], n) /\ IsAbout(d.row, d.row.principal, op, n)

\* The inductive strengthening: the groups and the entries between them hold every
\* row, and what the rules are tried on may be converted.
CurrentGroup == stage = "rules" => cur \in Normalize(rows) /\ Convertible(cur)

Pending ==
  /\ todo \subseteq Normalize(rows)
  /\ stage = "groups" => rows \subseteq Placed \cup Sources(todo)
  /\ stage = "rules" => rows \subseteq Placed \cup Sources(todo) \cup cur.source

PlanInv ==
  rows \in Inputs /\ CurrentGroup /\ Pending /\ NoRowLost /\ NeverWidened /\ DenyVerdicts

\* What the rules have left to cover is what no selected rule covers, and no rule
\* FindCoveringRules has passed would cover any of it.
Scan ==
  stage = "rules" =>
    /\ remaining = Missing(cur, selected)
    /\ \A i \in selected : MatchesRule(cur, RuleAt[i])
    /\ \A i \in 1..(ri - 1) :
         MatchesRule(cur, RuleAt[i]) => RuleCoveredOps(cur, RuleAt[i]) \cap remaining = {}

\* Each grant is accounted for by the time its group is done with.
Settled ==
  stage # "error" =>
    \A r \in rows : r.perm = "Allow" /\ r.host = Star =>
      \/ \E g \in todo : r \in g.source
      \/ stage = "rules" /\ r \in cur.source
      \/ \A op \in Grants(r) : Accounted(r, op)

\* The loop over the groups ends when none is left.
Finished == stage = "done" => todo = {}

GrantInv ==
  PlanInv /\ TypeOK /\ Finished /\ Scan /\ Settled /\ WarnsOnlyUncoverable
=============================================================================
