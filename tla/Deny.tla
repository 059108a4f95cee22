-------------------------------- MODULE Deny --------------------------------
(***************************************************************************)
(* Removing DENY ACLs: `delete-deny-acls` (pkg/aclrbac/delete/deny) writes *)
(* runtime.env, rollback-deny.sh and delete-deny-acls.sh; the script calls *)
(* `delete-deny-one` for each row, by the row's number in acls.json.  That *)
(* helper goes through every gate again and asks the MDS, at that moment,  *)
(* whether a grant would take effect if the DENY went away.                *)
(*                                                                         *)
(* Between two calls of the helper anything may happen to the run          *)
(* directory; a script may run for hours.  Files are told apart by version *)
(* numbers, as in Removal, and acls.json holds DENY rows only.  The log,   *)
(* rollback-deny.sh and the bulk of runtime.env are not modelled.          *)
(***************************************************************************)
EXTENDS Acl, Sequences, FiniteSets, Functions

CONSTANTS
  Denies,       \* DENY rows that may be in Kafka
  Scoped,       \* scopes the first binding of a plan may have
  Grants,       \* what roles may grant: [principal, rtype, op, pattern, scope]
  MaxAcls,      \* bound: versions of acls.json,
  MaxPlans,     \*   of plan.json
  MaxScripts    \*   and invocations of delete-deny-acls

Scope == {"kafka", "schema-registry", "none"}

ASSUME DenyAssumption ==
  /\ Denies \subseteq {r \in Row : r.perm = "Deny" /\ Valid(r)} /\ IsFiniteSet(Denies)
  /\ Grants \subseteq [principal : Principal, rtype : ResourceType, op : ConcreteOp,
                       pattern : Pattern, scope : Scope]
  /\ Scoped \subseteq Scope
  /\ MaxAcls \in Nat \ {0} /\ MaxPlans \in Nat /\ MaxScripts \in Nat

VARIABLES
  kafka,        \* the DENY rows in Kafka
  mds,          \* what the MDS grants
  acls,         \* acls.json: [v, rows]
  plan,         \* plan.json: [v, acls, safe, scope]; acls is its acls_sha256, which an
                \*   editor may delete, safe holds the numbers that it rejects and calls
                \*   SAFE_TO_REMOVE, scope is the first binding's
  planSum,      \* plan.json.sha256
  verified,     \* verify.json: [plan, ok], ok if every result is acceptable
  env,          \* the token in runtime.env
  script,       \* delete-deny-acls.sh: [plan, ids]
  gen,          \* delete-deny-acls: [pc, ids]
  sc,           \* the script: [pc, token, left]
  one,          \* delete-deny-one: [pc, id, row, scope, live]
  scripts,      \* runtime.env tokens handed out so far
  judged        \* history: rows some plan called SAFE_TO_REMOVE and rejected

world  == <<kafka, mds>>
inputs == <<acls, plan, planSum, verified>>
vars   == <<world, inputs, env, script, gen, sc, one, scripts, judged>>

NoFile   == 0
NoPlan   == [v |-> NoFile, acls |-> NoFile, safe |-> {}, scope |-> "none"]
NoScript == [plan |-> NoFile, ids |-> {}]
NoRow    == [op |-> "none"]

IdleGen    == [pc |-> "idle", ids |-> {}]
IdleScript == [pc |-> "idle", token |-> NoFile, left |-> {}]
IdleOne    == [pc |-> "idle", id |-> 0, row |-> NoRow, scope |-> "none", live |-> {}]

Id == 1..Cardinality(Denies)

\* Types, and that no file outruns the files it was made from.
TypeOK ==
  /\ kafka \subseteq Denies /\ mds \subseteq Grants
  /\ acls \in [v : 1..MaxAcls, rows : Seq(Denies)] /\ DOMAIN acls.rows \subseteq Id
  /\ plan \in [v : 0..MaxPlans, acls : 0..acls.v, safe : SUBSET Id, scope : Scope]
  /\ planSum \in 0..plan.v /\ verified \in [plan : 0..plan.v, ok : BOOLEAN]
  /\ scripts \in 0..MaxScripts /\ env \in 0..scripts
  /\ script \in [plan : 0..plan.v, ids : SUBSET Id]
  /\ gen \in [pc : {"idle", "env", "rollback", "script"}, ids : SUBSET Id]
  /\ gen.pc = "env" => scripts < MaxScripts
  /\ sc \in [pc : {"idle", "next", "one"}, token : 0..scripts, left : SUBSET Id]
  /\ one \in [pc : {"idle", "env", "judge", "lookup", "remove"}, id : Id \cup {0},
              row : Denies \cup {NoRow}, scope : Scope, live : SUBSET Grants]
  /\ judged \subseteq Denies

Numberings(rows) == Bijection(1..Cardinality(rows), rows)

Init ==
  /\ kafka \in SUBSET Denies /\ mds \in SUBSET Grants
  /\ \E s \in Numberings(kafka) : acls = [v |-> 1, rows |-> s]
  /\ plan = NoPlan /\ planSum = NoFile
  /\ verified = [plan |-> NoFile, ok |-> FALSE]
  /\ env = NoFile /\ script = NoScript
  /\ gen = IdleGen /\ sc = IdleScript /\ one = IdleOne
  /\ scripts = 0
  /\ judged = {}

-----------------------------------------------------------------------------
(* extract, plan, an editor, verify: each a step here, see Removal for theirs. *)
(* They come between two calls of the helper, not into one.                    *)

Between == one.pc = "idle" /\ gen.pc = "idle"

Rest == <<world, env, script, gen, sc, one, scripts>>

Extract ==
  /\ Between /\ acls.v < MaxAcls
  /\ \E s \in Numberings(kafka) : acls' = [v |-> acls.v + 1, rows |-> s]
  /\ UNCHANGED <<Rest, plan, planSum, verified, judged>>

\* Every DENY is rejected, and one of a wildcard principal is UNKNOWN (see Planner).
Plan ==
  /\ Between /\ plan.v < MaxPlans
  /\ \E safe \in SUBSET {i \in DOMAIN acls.rows : ~IsWildcardPrincipal(acls.rows[i].principal)},
        scope \in Scoped :
       /\ plan' = [v |-> plan.v + 1, acls |-> acls.v, safe |-> safe, scope |-> scope]
       /\ judged' = judged \cup {acls.rows[i] : i \in safe}
  /\ planSum' = plan.v + 1
  /\ UNCHANGED <<Rest, acls, verified>>

\* The plan is about the acls.json there is; one without a stamp passes for one that
\* was made before there were stamps.
VerifyACLsSHA == plan.acls \in {NoFile, acls.v}

\* Somebody edits the verdicts, of rows the plan is about, and may delete the stamp.
EditPlan ==
  /\ Between /\ plan.v \in 1..(MaxPlans - 1)
  /\ VerifyACLsSHA
  /\ \E safe \in SUBSET DOMAIN acls.rows, stamp \in {plan.acls, NoFile} :
       /\ plan' = [plan EXCEPT !.v = @ + 1, !.acls = stamp, !.safe = safe]
       /\ judged' = judged \cup {acls.rows[i] : i \in safe}
  /\ UNCHANGED <<Rest, acls, planSum, verified>>

\* plan --revalidate: the plan's structure is looked at, its verdicts are not.
Revalidate ==
  /\ Between /\ plan # NoPlan
  /\ planSum' = plan.v
  /\ UNCHANGED <<Rest, acls, plan, verified, judged>>

ChecksumOk == plan # NoPlan /\ planSum = plan.v

Verify ==
  /\ Between /\ ChecksumOk
  /\ \E ok \in BOOLEAN : verified' = [plan |-> plan.v, ok |-> ok]
  /\ UNCHANGED <<Rest, acls, plan, planSum, judged>>

-----------------------------------------------------------------------------
(* delete-deny-acls *)

\* pickEligibleDeny
Eligible(i, principals) ==
  LET r == acls.rows[i]
  IN  /\ r.principal \in principals /\ ~IsWildcardPrincipal(r.principal)
      /\ i \in plan.safe

\* What Generate decides on it reads before it writes anything; writeScript hashes
\* plan.json once more, which nobody has changed meanwhile here (Between).
GenerateSelects ==
  /\ Between /\ scripts < MaxScripts
  /\ verified.plan = plan.v
  /\ ChecksumOk
  /\ VerifyACLsSHA
  /\ verified.ok
  /\ \E principals \in SUBSET {r.principal : r \in Denies} :
       LET ids == {i \in DOMAIN acls.rows : Eligible(i, principals)}
       IN  ids # {} /\ gen' = [pc |-> "env", ids |-> ids]
  /\ UNCHANGED <<world, inputs, env, script, sc, one, scripts, judged>>

\* Mutant: every run writes the same token.
SameToken ==
  /\ gen.pc = "env"
  /\ env' = scripts + 1 /\ UNCHANGED scripts
  /\ gen' = [gen EXCEPT !.pc = "rollback"]
  /\ UNCHANGED <<world, inputs, script, sc, one, judged>>

\* A fresh token; a script that is running keeps the one it has sourced.
WriteRuntimeEnv ==
  /\ gen.pc = "env"
  /\ env' = scripts + 1 /\ scripts' = scripts + 1
  /\ gen' = [gen EXCEPT !.pc = "rollback"]
  /\ UNCHANGED <<world, inputs, script, sc, one, judged>>

\* deleted-deny-acls.json and rollback-deny.sh, whose contents no property is about.
WriteRollback ==
  /\ gen.pc = "rollback"
  /\ gen' = [gen EXCEPT !.pc = "script"]
  /\ UNCHANGED <<world, inputs, env, script, sc, one, scripts, judged>>

WriteScript ==
  /\ gen.pc = "script"
  /\ script' = [plan |-> plan.v, ids |-> gen.ids]
  /\ gen' = IdleGen
  /\ UNCHANGED <<world, inputs, env, sc, one, scripts, judged>>

-----------------------------------------------------------------------------
(* delete-deny-acls.sh *)

\* The EXIT trap is armed first: whatever stops the script, runtime.env goes.
ScriptExits ==
  /\ sc' = IdleScript
  /\ env' = NoFile

\* The guards of the header; the token is sourced once.
ScriptStarts ==
  /\ sc.pc = "idle" /\ script # NoScript
  /\ IF script.plan = plan.v /\ env # NoFile
       THEN sc' = [pc |-> "next", token |-> env, left |-> script.ids] /\ UNCHANGED env
       ELSE ScriptExits
  /\ UNCHANGED <<world, inputs, script, gen, one, scripts, judged>>

CallOne(i) ==
  /\ sc.pc = "next" /\ i \in sc.left
  /\ sc' = [sc EXCEPT !.pc = "one", !.left = @ \ {i}]
  /\ one' = [IdleOne EXCEPT !.pc = "env", !.id = i]
  /\ UNCHANGED <<world, inputs, env, script, gen, scripts, judged>>

ScriptDone ==
  /\ sc.pc = "next" /\ sc.left = {}
  /\ ScriptExits
  /\ UNCHANGED <<world, inputs, script, gen, one, scripts, judged>>

-----------------------------------------------------------------------------
(* delete-deny-one *)

\* set -e: the helper's error is the script's.
OneFails == one' = IdleOne /\ ScriptExits

OneGoesOn(pc) == one' = [one EXCEPT !.pc = pc] /\ UNCHANGED <<sc, env>>

OneReturns == one' = IdleOne /\ sc' = [sc EXCEPT !.pc = "next"] /\ UNCHANGED env

\* ReadRuntimeEnv, and the token of the environment the script exported.
OneReadsEnv ==
  /\ one.pc = "env"
  /\ IF env # NoFile /\ env = sc.token THEN OneGoesOn("judge") ELSE OneFails
  /\ UNCHANGED <<world, inputs, script, gen, scripts, judged>>

\* The row is there, is a DENY of a definite principal, and is the row the plan is
\* about; the plan rejected it and calls it safe.
Removable(i) ==
  /\ i \in DOMAIN acls.rows
  /\ ~IsWildcardPrincipal(acls.rows[i].principal)
  /\ VerifyACLsSHA
  /\ i \in plan.safe

\* Mutant: acls.json is not compared with the plan's stamp.
OneJudgesUnstamped ==
  /\ one.pc = "judge"
  /\ IF /\ ChecksumOk /\ verified.plan = plan.v /\ one.id \in DOMAIN acls.rows
        /\ ~IsWildcardPrincipal(acls.rows[one.id].principal)
        /\ one.id \in plan.safe
       THEN /\ one' = [one EXCEPT !.pc = "lookup", !.row = acls.rows[one.id], !.scope = plan.scope]
            /\ UNCHANGED <<sc, env>>
       ELSE OneFails
  /\ UNCHANGED <<world, inputs, script, gen, scripts, judged>>

\* The gates on the files; verify.json's results are not looked at again.
OneJudges ==
  /\ one.pc = "judge"
  /\ IF ChecksumOk /\ verified.plan = plan.v /\ Removable(one.id)
       THEN /\ one' = [one EXCEPT !.pc = "lookup", !.row = acls.rows[one.id], !.scope = plan.scope]
            /\ UNCHANGED <<sc, env>>
       ELSE OneFails
  /\ UNCHANGED <<world, inputs, script, gen, scripts, judged>>

\* Mutant: the question is LookupAllowed's, whether the grant covers the row.
SeenIfCovered(g, r) ==
  /\ g.rtype = r.rtype /\ g.op = r.op
  /\ IsWildcard(g.pattern) \/ g.pattern.ptype = r.pattern.ptype
  /\ <<r.pattern.name, g.pattern.name>> \in StartsWith

\* PrincipalGrantOverlaps' test of one grant.
Seen(g, r) ==
  /\ g.rtype = r.rtype /\ g.op = r.op
  /\ PatternsOverlap(g.pattern, r.pattern)

\* The principal's grants at the scope asked for.
Answer == {g \in mds : g.principal = one.row.principal /\ g.scope = one.scope}

\* WOULD_GRANT_ACCESS: SKIP is logged, and the script goes on.
OneLooksUp ==
  /\ one.pc = "lookup"
  /\ IF \E g \in Answer : Seen(g, one.row)
       THEN OneReturns
       ELSE one' = [one EXCEPT !.pc = "remove", !.live = mds] /\ UNCHANGED <<sc, env>>
  /\ UNCHANGED <<world, inputs, script, gen, scripts, judged>>

\* 401 or 403 stops the script; any other error is EFFECTIVE_UNKNOWN: SKIP.
LookupFails ==
  /\ one.pc = "lookup"
  /\ OneFails \/ OneReturns
  /\ UNCHANGED <<world, inputs, script, gen, scripts, judged>>

RemoveDeny ==
  /\ one.pc = "remove"
  /\ kafka' = kafka \ {one.row}
  /\ OneReturns
  /\ UNCHANGED <<mds, inputs, script, gen, scripts, judged>>

\* kafka-acls exits with an error: FAIL is logged.
RemoveFails ==
  /\ one.pc = "remove"
  /\ OneFails
  /\ UNCHANGED <<world, inputs, script, gen, scripts, judged>>

-----------------------------------------------------------------------------
(* Around the commands *)

\* delete-deny-acls is killed; the script is, with or without its trap.
Crash ==
  /\ \/ gen.pc # "idle" /\ gen' = IdleGen /\ UNCHANGED <<sc, one, env>>
     \/ sc.pc # "idle" /\ OneFails /\ UNCHANGED gen
     \/ sc.pc # "idle" /\ one' = IdleOne /\ sc' = IdleScript /\ UNCHANGED <<gen, env>>
  /\ UNCHANGED <<world, inputs, script, scripts, judged>>

AddDeny ==
  /\ \E r \in Denies \ kafka : kafka' = kafka \cup {r}
  /\ UNCHANGED <<mds, inputs, env, script, gen, sc, one, scripts, judged>>

ChangeMds ==
  /\ \E g \in Grants : mds' \in {mds \cup {g}, mds \ {g}} \ {mds}
  /\ UNCHANGED <<kafka, inputs, env, script, gen, sc, one, scripts, judged>>

Next ==
  \/ Extract \/ Plan \/ EditPlan \/ Revalidate \/ Verify
  \/ GenerateSelects \/ WriteRuntimeEnv \/ WriteRollback \/ WriteScript
  \/ ScriptStarts \/ ScriptDone
  \/ \E i \in sc.left : CallOne(i)
  \/ OneReadsEnv \/ OneJudges \/ OneLooksUp \/ LookupFails
  \/ RemoveDeny \/ RemoveFails
  \/ Crash
  \/ AddDeny
  \/ ChangeMds

Spec == Init /\ [][Next]_vars

-----------------------------------------------------------------------------
(* Properties *)

\* one.go:103-121: the helper removes only rows that a plan made from the acls.json
\* that numbers them called SAFE_TO_REMOVE, whatever was extracted, planned or edited
\* since the script was written.  (A plan whose stamp somebody has deleted goes with
\* any acls.json, script_header.go:38-40.)
RemovedWasJudged == [][\A r \in kafka \ kafka' : plan.acls # NoFile => r \in judged]_vars

\* README.md:748: a wildcard principal's DENY is never removed, not even on the word
\* of an edited and revalidated plan, nor under the number of another row.
NeverWildcard == [][\A r \in kafka \ kafka' : r.principal.name # Star]_vars

\* The grant takes effect on a request that the row denies.
Exposes(g, r) ==
  /\ g.principal = r.principal /\ g.rtype = r.rtype
  /\ r.op \in {"All", g.op}
  /\ PatternsOverlap(g.pattern, r.pattern)

ScopeOf(t) == IF t = "Subject" THEN "schema-registry" ELSE "kafka"

GrantsAtScope(t) == {g \in one.live : g.scope = ScopeOf(t)}

\* api.go:225-232: a DENY of one operation goes only if, when the MDS was asked at
\* the scope of the row's resource, nothing granted that operation on any resource
\* the row denies.
RecheckSeesOperation ==
  one.pc = "remove" /\ one.row.op # "All" /\ one.scope = ScopeOf(one.row.rtype)
    => \A g \in GrantsAtScope(one.row.rtype) : ~Exposes(g, one.row)

\* README.md:672: so does a DENY of all operations.
RecheckHolds ==
  one.pc = "remove" /\ one.scope = ScopeOf(one.row.rtype)
    => \A g \in GrantsAtScope(one.row.rtype) : ~Exposes(g, one.row)

\* The inductive strengthening: what the plan in the run directory calls safe has been
\* judged, as long as it is about the acls.json there is; and so has the row the helper
\* has in hand, unless the plan has no stamp, for which nothing it could see was granted
\* when it asked.
SafeWasJudged ==
  plan.acls = acls.v =>
    plan.safe \subseteq DOMAIN acls.rows /\ {acls.rows[i] : i \in plan.safe} \subseteq judged

RowInHand ==
  one.pc \in {"lookup", "remove"} =>
    /\ one.row \in Denies /\ ~IsWildcardPrincipal(one.row.principal)
    /\ plan.acls # NoFile => one.row \in judged

Unseen ==
  one.pc = "remove" =>
    \A g \in one.live :
      g.principal = one.row.principal /\ g.scope = one.scope => ~Seen(g, one.row)

DenyInv ==
  TypeOK /\ SafeWasJudged /\ RowInHand /\ Unseen
=============================================================================
