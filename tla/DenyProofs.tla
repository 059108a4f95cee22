----------------------------- MODULE DenyProofs -----------------------------
(* Proofs about Deny, for any DENY rows, grants, plans and bounds.           *)
EXTENDS Deny, FiniteSetTheorems, TLAPS

\* A numbering of the DENY rows of the cluster is a sequence of rows, with numbers
\* that every acls.json has.
LEMMA NumberingType ==
  ASSUME DenyAssumption, NEW rows \in SUBSET Denies, NEW s \in Numberings(rows)
  PROVE  s \in Seq(Denies) /\ DOMAIN s \subseteq Id
<1>1. IsFiniteSet(rows) /\ Cardinality(rows) <= Cardinality(Denies)
  BY FS_Subset DEF DenyAssumption
<1>2. Cardinality(rows) \in Nat /\ Cardinality(Denies) \in Nat
  BY <1>1, FS_CardinalityType DEF DenyAssumption
<1>3. s \in [1..Cardinality(rows) -> rows]
  BY DEF Numberings, Bijection, Injection
<1>4. s \in Seq(Denies)
  BY <1>2, <1>3
<1>5. DOMAIN s \subseteq Id
  BY <1>1, <1>2, <1>3 DEF Id
<1> QED BY <1>4, <1>5

\* A row of acls.json is a DENY row, and its number is one of the numbers.
LEMMA RowType ==
  ASSUME TypeOK, NEW i \in DOMAIN acls.rows
  PROVE  acls.rows[i] \in Denies /\ i \in Id
<1>1. acls.rows \in Seq(Denies) /\ DOMAIN acls.rows \subseteq Id
  BY DEF TypeOK
<1> QED BY <1>1

\* Every step keeps the types and the order of the versions.
LEMMA TypeStep ==
  ASSUME DenyAssumption, TypeOK, [Next]_vars
  PROVE  TypeOK'
<1> USE DEF TypeOK, world, inputs, Rest
<1> MaxAcls \in Nat /\ MaxPlans \in Nat /\ MaxScripts \in Nat
  BY DEF DenyAssumption
<1> DEFINE OneType == [pc : {"idle", "env", "judge", "lookup", "remove"}, id : Id \cup {0},
                       row : Denies \cup {NoRow}, scope : Scope, live : SUBSET Grants]
           ScType  == [pc : {"idle", "next", "one"}, token : 0..scripts, left : SUBSET Id]
\* A step of the helper, which leaves the files alone.
<1>a. ASSUME one' \in OneType, sc' \in ScType, env' \in 0..scripts,
             kafka' \subseteq Denies,
             UNCHANGED <<mds, inputs, script, gen, scripts, judged>>
      PROVE  TypeOK'
  BY <1>a
<1>b. OneFails => one' \in OneType /\ sc' \in ScType /\ env' \in 0..scripts
  <2>1. 0 \in 0..scripts
    OBVIOUS
  <2>2. IdleOne \in OneType
    BY DEF IdleOne, Scope
  <2> QED BY <2>1, <2>2 DEF OneFails, ScriptExits, IdleScript, NoFile
<1>c. OneReturns => one' \in OneType /\ sc' \in ScType /\ env' \in 0..scripts
  <2>1. IdleOne \in OneType
    BY DEF IdleOne, Scope
  <2> QED BY <2>1 DEF OneReturns
<1>1. CASE Extract
  <2>1. PICK s \in Numberings(kafka) : acls' = [v |-> acls.v + 1, rows |-> s]
    BY <1>1 DEF Extract
  <2>2. s \in Seq(Denies) /\ DOMAIN s \subseteq Id
    BY NumberingType
  <2>3. acls.v + 1 \in 1..MaxAcls
    BY <1>1 DEF Extract
  <2>4. /\ acls' \in [v : 1..MaxAcls, rows : Seq(Denies)] /\ DOMAIN acls'.rows \subseteq Id
        /\ acls'.v = acls.v + 1
    BY <2>1, <2>2, <2>3
  <2>5. UNCHANGED <<Rest, plan, planSum, verified, judged>>
    BY <1>1 DEF Extract
  <2>6. 0..acls.v \subseteq 0..acls'.v
    BY <2>4
  <2>7. plan' \in [v : 0..MaxPlans, acls : 0..acls'.v, safe : SUBSET Id, scope : Scope]
    BY <2>5, <2>6
  <2> QED BY <2>4, <2>5, <2>7
<1>2. CASE Plan
  <2>1. PICK safe \in SUBSET {i \in DOMAIN acls.rows :
                                ~IsWildcardPrincipal(acls.rows[i].principal)},
             scope \in Scoped :
          /\ plan' = [v |-> plan.v + 1, acls |-> acls.v, safe |-> safe, scope |-> scope]
          /\ judged' = judged \cup {acls.rows[i] : i \in safe}
    BY <1>2 DEF Plan
  <2>2. safe \subseteq Id /\ {acls.rows[i] : i \in safe} \subseteq Denies
    BY <2>1, RowType
  <2>3. judged' \subseteq Denies
    BY <2>1, <2>2
  <2>4. /\ plan.v \in Nat /\ plan.v + 1 \in 0..MaxPlans /\ plan.v + 1 \in 0..(plan.v + 1)
        /\ acls.v \in 0..acls.v
    BY <1>2 DEF Plan
  <2>5. UNCHANGED <<Rest, acls, verified>> /\ planSum' = plan.v + 1
    BY <1>2 DEF Plan
  <2>6. /\ plan' \in [v : 0..MaxPlans, acls : 0..acls.v, safe : SUBSET Id, scope : Scope]
        /\ plan'.v = plan.v + 1
    BY <2>1, <2>2, <2>4 DEF DenyAssumption
  <2>7. 0..plan.v \subseteq 0..plan'.v
    BY <2>4, <2>6
  <2>8. /\ planSum' \in 0..plan'.v /\ verified' \in [plan : 0..plan'.v, ok : BOOLEAN]
        /\ script' \in [plan : 0..plan'.v, ids : SUBSET Id]
    BY <2>4, <2>5, <2>6, <2>7
  <2> QED BY <2>3, <2>5, <2>6, <2>8
<1>3. CASE EditPlan
  <2>1. PICK safe \in SUBSET DOMAIN acls.rows, stamp \in {plan.acls, NoFile} :
          /\ plan' = [plan EXCEPT !.v = @ + 1, !.acls = stamp, !.safe = safe]
          /\ judged' = judged \cup {acls.rows[i] : i \in safe}
    BY <1>3 DEF EditPlan
  <2>2. safe \subseteq Id /\ {acls.rows[i] : i \in safe} \subseteq Denies
    BY <2>1, RowType
  <2>3. judged' \subseteq Denies
    BY <2>1, <2>2
  <2>4. /\ plan.v \in Nat /\ plan.v + 1 \in 0..MaxPlans /\ plan.v \in 0..(plan.v + 1)
        /\ stamp \in 0..acls.v
    BY <1>3 DEF EditPlan, NoFile
  <2>5. /\ plan' \in [v : 0..MaxPlans, acls : 0..acls.v, safe : SUBSET Id, scope : Scope]
        /\ plan'.v = plan.v + 1
    BY <2>1, <2>2, <2>4
  <2>6. UNCHANGED <<Rest, acls, planSum, verified>>
    BY <1>3 DEF EditPlan
  <2>7. 0..plan.v \subseteq 0..plan'.v
    BY <2>4, <2>5
  <2>8. /\ planSum' \in 0..plan'.v /\ verified' \in [plan : 0..plan'.v, ok : BOOLEAN]
        /\ script' \in [plan : 0..plan'.v, ids : SUBSET Id]
    BY <2>6, <2>7
  <2> QED BY <2>3, <2>5, <2>6, <2>8
<1>4. CASE Revalidate
  BY <1>4 DEF Revalidate
<1>5. CASE Verify
  <2>1. PICK ok \in BOOLEAN : verified' = [plan |-> plan.v, ok |-> ok]
    BY <1>5 DEF Verify
  <2>2. UNCHANGED <<Rest, acls, plan, planSum, judged>>
    BY <1>5 DEF Verify
  <2>3. plan.v \in 0..plan.v
    OBVIOUS
  <2>4. verified' \in [plan : 0..plan'.v, ok : BOOLEAN]
    BY <2>1, <2>2, <2>3
  <2> QED BY <2>2, <2>4
<1>6. CASE GenerateSelects
  BY <1>6 DEF GenerateSelects
<1>7. CASE WriteRuntimeEnv
  BY <1>7 DEF WriteRuntimeEnv
<1>8. CASE WriteRollback
  BY <1>8 DEF WriteRollback
<1>9. CASE WriteScript
  BY <1>9 DEF WriteScript, IdleGen
<1>10. CASE ScriptStarts
  BY <1>10 DEF ScriptStarts, ScriptExits, IdleScript, NoFile
<1>11. CASE ScriptDone
  BY <1>11 DEF ScriptDone, ScriptExits, IdleScript, NoFile
<1>12. CASE \E i \in sc.left : CallOne(i)
  <2>1. PICK i \in sc.left : CallOne(i)
    BY <1>12
  <2>2. i \in Id
    OBVIOUS
  <2>3. one' \in OneType
    BY <2>1, <2>2 DEF CallOne, IdleOne, Scope
  <2>4. sc' \in ScType
    BY <2>1 DEF CallOne
  <2> QED BY <1>a, <2>1, <2>3, <2>4 DEF CallOne
<1>13. CASE OneReadsEnv
  <2>1. OneGoesOn("judge") => one' \in OneType /\ sc' \in ScType /\ env' \in 0..scripts
    BY DEF OneGoesOn
  <2> QED BY <1>a, <1>b, <1>13, <2>1 DEF OneReadsEnv
<1>14. CASE OneJudges
  <2>1. CASE OneFails
    BY <1>a, <1>b, <1>14, <2>1 DEF OneJudges
  <2>2. CASE ~OneFails
    <3>1. /\ one.id \in DOMAIN acls.rows
          /\ one' = [one EXCEPT !.pc = "lookup", !.row = acls.rows[one.id], !.scope = plan.scope]
          /\ UNCHANGED <<sc, env>>
      BY <1>14, <2>2 DEF OneJudges, Removable
    <3>2. acls.rows[one.id] \in Denies
      BY <3>1, RowType
    <3>3. one' \in OneType
      BY <3>1, <3>2
    <3> QED BY <1>a, <1>14, <3>1, <3>3 DEF OneJudges
  <2> QED BY <2>1, <2>2
<1>15. CASE OneLooksUp
  <2>1. CASE OneReturns
    BY <1>a, <1>c, <1>15, <2>1 DEF OneLooksUp
  <2>2. CASE ~OneReturns
    <3>1. one' = [one EXCEPT !.pc = "remove", !.live = mds] /\ UNCHANGED <<sc, env>>
      BY <1>15, <2>2 DEF OneLooksUp
    <3>2. one' \in OneType
      BY <3>1
    <3> QED BY <1>a, <1>15, <3>1, <3>2 DEF OneLooksUp
  <2> QED BY <2>1, <2>2
<1>16. CASE LookupFails
  BY <1>a, <1>b, <1>c, <1>16 DEF LookupFails
<1>17. CASE RemoveDeny
  BY <1>a, <1>c, <1>17 DEF RemoveDeny
<1>18. CASE RemoveFails
  BY <1>a, <1>b, <1>18 DEF RemoveFails
<1>19. CASE Crash
  BY <1>19 DEF Crash, OneFails, ScriptExits, IdleGen, IdleOne, IdleScript, NoFile, Scope
<1>20. CASE AddDeny
  BY <1>20 DEF AddDeny
<1>21. CASE ChangeMds
  BY <1>21 DEF ChangeMds
<1>22. CASE UNCHANGED vars
  BY <1>22 DEF vars
<1> QED BY <1>1, <1>2, <1>3, <1>4, <1>5, <1>6, <1>7, <1>8, <1>9, <1>10, <1>11, <1>12, <1>13,
           <1>14, <1>15, <1>16, <1>17, <1>18, <1>19, <1>20, <1>21, <1>22 DEF Next

\* A run starts with the types right, and with nothing judged or in hand.
LEMMA InitDenyInv ==
  ASSUME DenyAssumption, Init
  PROVE  DenyInv
<1> MaxAcls \in Nat \ {0} /\ MaxPlans \in Nat /\ MaxScripts \in Nat
  BY DEF DenyAssumption
<1> USE DEF Init
<1>1. PICK s \in Numberings(kafka) : acls = [v |-> 1, rows |-> s]
  OBVIOUS
<1>2. s \in Seq(Denies) /\ DOMAIN s \subseteq Id
  BY NumberingType
<1>3. acls \in [v : 1..MaxAcls, rows : Seq(Denies)] /\ DOMAIN acls.rows \subseteq Id /\ acls.v = 1
  BY <1>1, <1>2
<1>4. plan \in [v : 0..MaxPlans, acls : 0..acls.v, safe : SUBSET Id, scope : Scope]
  BY <1>3 DEF NoPlan, NoFile, Scope
<1>5. TypeOK
  BY <1>3, <1>4 DEF TypeOK, NoPlan, NoFile, NoScript, IdleGen, IdleScript, IdleOne, Scope
<1>6. SafeWasJudged /\ RowInHand /\ Unseen
  BY <1>3 DEF SafeWasJudged, RowInHand, Unseen, NoPlan, NoFile, IdleOne
<1> QED BY <1>5, <1>6 DEF DenyInv

\* Whoever writes plan.json or acls.json, the rows the plan calls safe have been judged
\* as long as the plan is stamped with that acls.json: a new acls.json has a version no plan
\* has, and a new or edited plan comes with its judgement.
LEMMA SafeStep ==
  ASSUME DenyAssumption, TypeOK, SafeWasJudged, [Next]_vars
  PROVE  SafeWasJudged' /\ judged \subseteq judged'
<1> USE DEF world, inputs, Rest
<1>1. CASE Extract
  <2>1. acls'.v = acls.v + 1 /\ plan' = plan /\ judged' = judged
    BY <1>1 DEF Extract
  <2>2. plan.acls \in 0..acls.v /\ acls.v \in Nat
    BY DEF TypeOK
  <2> QED BY <2>1, <2>2 DEF SafeWasJudged
<1>2. CASE Plan
  <2>1. PICK safe \in SUBSET {i \in DOMAIN acls.rows :
                                ~IsWildcardPrincipal(acls.rows[i].principal)},
             scope \in Scoped :
          /\ plan' = [v |-> plan.v + 1, acls |-> acls.v, safe |-> safe, scope |-> scope]
          /\ judged' = judged \cup {acls.rows[i] : i \in safe}
    BY <1>2 DEF Plan
  <2>2. plan'.safe = safe /\ acls' = acls
    BY <1>2, <2>1 DEF Plan
  <2> QED BY <2>1, <2>2 DEF SafeWasJudged
<1>3. CASE EditPlan
  <2>1. PICK safe \in SUBSET DOMAIN acls.rows, stamp \in {plan.acls, NoFile} :
          /\ plan' = [plan EXCEPT !.v = @ + 1, !.acls = stamp, !.safe = safe]
          /\ judged' = judged \cup {acls.rows[i] : i \in safe}
    BY <1>3 DEF EditPlan
  <2>2. plan'.safe = safe /\ acls' = acls
    BY <1>3, <2>1 DEF EditPlan, TypeOK
  <2>3. judged' = judged \cup {acls.rows[i] : i \in safe}
    BY <2>1
  <2> QED BY <2>2, <2>3 DEF SafeWasJudged
<1>4. ASSUME UNCHANGED <<acls, plan, judged>>
      PROVE  SafeWasJudged' /\ judged \subseteq judged'
  BY <1>4 DEF SafeWasJudged
<1>5. CASE ~(Extract \/ Plan \/ EditPlan)
  <2>1. UNCHANGED <<acls, plan, judged>>
    BY <1>5 DEF Next, vars, Revalidate, Verify, GenerateSelects, WriteRuntimeEnv, WriteRollback,
       WriteScript, ScriptStarts, ScriptDone, CallOne, OneReadsEnv, OneJudges, OneLooksUp,
       LookupFails, RemoveDeny, RemoveFails, Crash, AddDeny, ChangeMds
  <2> QED BY <1>4, <2>1
<1> QED BY <1>1, <1>2, <1>3, <1>5

\* The helper takes in hand a row that the gates let through at one moment, and asks
\* about that row.
LEMMA HelperStep ==
  ASSUME DenyAssumption, DenyInv, [Next]_vars
  PROVE  RowInHand' /\ Unseen'
<1> USE DEF world, inputs, Rest
<1> TypeOK /\ SafeWasJudged /\ RowInHand /\ Unseen
  BY DEF DenyInv
<1>j. judged \subseteq judged'
  BY SafeStep
<1> one \in [pc : {"idle", "env", "judge", "lookup", "remove"}, id : Id \cup {0},
             row : Denies \cup {NoRow}, scope : Scope, live : SUBSET Grants]
  BY DEF TypeOK
<1>a. ASSUME UNCHANGED one, plan' = plan \/ one.pc = "idle"
      PROVE  RowInHand' /\ Unseen'
  BY <1>a, <1>j DEF RowInHand, Unseen
<1>b. ASSUME one'.pc \notin {"lookup", "remove"}
      PROVE  RowInHand' /\ Unseen'
  BY <1>b DEF RowInHand, Unseen
<1>c. OneFails \/ OneReturns => one'.pc \notin {"lookup", "remove"}
  BY DEF OneFails, OneReturns, IdleOne
<1>1. CASE \E i \in sc.left : CallOne(i)
  BY <1>1, <1>b DEF CallOne, IdleOne
<1>2. CASE OneReadsEnv
  BY <1>2, <1>b, <1>c DEF OneReadsEnv, OneGoesOn
<1>3. CASE OneJudges
  <2>1. CASE OneFails
    BY <1>b, <1>c, <1>3, <2>1 DEF OneJudges
  <2>2. CASE ~OneFails
    <3>1. /\ Removable(one.id)
          /\ one' = [one EXCEPT !.pc = "lookup", !.row = acls.rows[one.id], !.scope = plan.scope]
          /\ UNCHANGED <<plan, judged>>
      BY <1>3, <2>2 DEF OneJudges
    <3>2. one'.pc = "lookup" /\ one'.row = acls.rows[one.id]
      BY <3>1
    <3>3. /\ acls.rows[one.id] \in Denies /\ ~IsWildcardPrincipal(acls.rows[one.id].principal)
          /\ plan.acls # NoFile => acls.rows[one.id] \in judged
      BY <3>1, RowType DEF Removable, VerifyACLsSHA, SafeWasJudged
    <3>4. RowInHand' /\ Unseen'
      BY <3>1, <3>2, <3>3 DEF RowInHand, Unseen, IsWildcardPrincipal
    <3> QED BY <3>4
  <2> QED BY <2>1, <2>2
<1>4. CASE OneLooksUp
  <2>1. CASE \E g \in Answer : Seen(g, one.row)
    BY <1>b, <1>c, <1>4, <2>1 DEF OneLooksUp
  <2>2. CASE ~\E g \in Answer : Seen(g, one.row)
    <3>1. /\ one' = [one EXCEPT !.pc = "remove", !.live = mds] /\ one.pc = "lookup"
          /\ UNCHANGED <<plan, judged>>
      BY <1>4, <2>2 DEF OneLooksUp
    <3>2. one'.pc = "remove" /\ one'.row = one.row /\ one'.scope = one.scope /\ one'.live = mds
      BY <3>1
    <3>3. RowInHand'
      BY <3>1, <3>2 DEF RowInHand, IsWildcardPrincipal
    <3>4. Unseen'
      BY <2>2, <3>2 DEF Unseen, Answer, Seen, PatternsOverlap, IsWildcard
    <3> QED BY <3>3, <3>4
  <2> QED BY <2>1, <2>2
<1>5. CASE LookupFails
  BY <1>5, <1>b, <1>c DEF LookupFails
<1>6. CASE RemoveDeny
  BY <1>6, <1>b, <1>c DEF RemoveDeny
<1>7. CASE RemoveFails
  BY <1>7, <1>b, <1>c DEF RemoveFails
<1>8. CASE Crash
  BY <1>8, <1>a, <1>b, <1>c DEF Crash, IdleOne
<1>9. CASE \/ Extract \/ Plan \/ EditPlan \/ Revalidate \/ Verify
           \/ GenerateSelects \/ WriteRuntimeEnv \/ WriteRollback \/ WriteScript
           \/ ScriptStarts \/ ScriptDone \/ AddDeny \/ ChangeMds \/ UNCHANGED vars
  BY <1>9, <1>a DEF vars, Extract, Plan, EditPlan, Revalidate, Verify, GenerateSelects,
     WriteRuntimeEnv, WriteRollback, WriteScript, ScriptStarts, ScriptDone, AddDeny, ChangeMds,
     Between
<1> QED BY <1>1, <1>2, <1>3, <1>4, <1>5, <1>6, <1>7, <1>8, <1>9 DEF Next

\* The inductive invariant: the types, what the plan calls safe has been judged, and so
\* has the row in hand.
THEOREM DenyInvariant ==
  ASSUME DenyAssumption
  PROVE  Spec => []DenyInv
<1>1. Init => DenyInv
  BY InitDenyInv
<1>2. DenyInv /\ [Next]_vars => DenyInv'
  <2> SUFFICES ASSUME DenyInv, [Next]_vars PROVE DenyInv'
    OBVIOUS
  <2>1. TypeOK'
    BY TypeStep DEF DenyInv
  <2>2. SafeWasJudged'
    BY SafeStep DEF DenyInv
  <2>3. RowInHand' /\ Unseen'
    BY HelperStep
  <2> QED BY <2>1, <2>2, <2>3 DEF DenyInv
<1> QED BY <1>1, <1>2, PTL DEF Spec

\* The types, and no file outruns the files it was made from.
THEOREM TypeCorrect ==
  ASSUME DenyAssumption
  PROVE  Spec => []TypeOK
<1>1. DenyInv => TypeOK
  BY DEF DenyInv
<1> QED BY <1>1, DenyInvariant, PTL

\* A row leaves Kafka only by the helper, and it is the row in hand.
LEMMA RemovedInHand ==
  ASSUME [Next]_vars, NEW r \in kafka \ kafka'
  PROVE  one.pc = "remove" /\ r = one.row
<1>1. CASE RemoveDeny
  BY <1>1 DEF RemoveDeny
<1>2. CASE AddDeny
  BY <1>2 DEF AddDeny
<1>3. CASE ~(RemoveDeny \/ AddDeny)
  BY <1>3 DEF Next, vars, world, inputs, Rest, Extract, Plan, EditPlan, Revalidate, Verify,
     GenerateSelects, WriteRuntimeEnv, WriteRollback, WriteScript, ScriptStarts, ScriptDone,
     CallOne, OneReadsEnv, OneJudges, OneLooksUp, LookupFails, RemoveFails, Crash, ChangeMds
<1> QED BY <1>1, <1>2, <1>3

\* Under a plan that has its stamp, the helper removes only rows that a plan made from the
\* acls.json that numbers them called SAFE_TO_REMOVE, whatever was extracted, planned or
\* edited since the script was written (one.go:103-121).
THEOREM RemovedWasJudgedHolds ==
  ASSUME DenyAssumption
  PROVE  Spec => RemovedWasJudged
<1>1. ASSUME DenyInv, [Next]_vars
      PROVE  [\A r \in kafka \ kafka' : plan.acls # NoFile => r \in judged]_vars
  BY <1>1, RemovedInHand DEF DenyInv, RowInHand
<1> QED BY <1>1, DenyInvariant, PTL DEF Spec, RemovedWasJudged

\* A wildcard principal's DENY is never removed, though somebody may edit plan.json to
\* call it SAFE_TO_REMOVE and revalidate it.
THEOREM NeverWildcardHolds ==
  ASSUME DenyAssumption
  PROVE  Spec => NeverWildcard
<1>1. ASSUME DenyInv, [Next]_vars
      PROVE  [\A r \in kafka \ kafka' : r.principal.name # Star]_vars
  BY <1>1, RemovedInHand DEF DenyInv, RowInHand, IsWildcardPrincipal
<1> QED BY <1>1, DenyInvariant, PTL DEF Spec, NeverWildcard

\* When the helper is about to remove a DENY of one operation, no grant that the MDS
\* held when it was asked, at the scope of the row's resource, exposes a request that
\* the row denies (api.go:225-232): for every set of grants and every naming scheme.
THEOREM RecheckSeesOperationHolds ==
  ASSUME DenyAssumption
  PROVE  Spec => []RecheckSeesOperation
<1>1. DenyInv => RecheckSeesOperation
  <2> SUFFICES ASSUME DenyInv,
                      one.pc = "remove", one.row.op # "All", one.scope = ScopeOf(one.row.rtype),
                      NEW g \in GrantsAtScope(one.row.rtype), Exposes(g, one.row)
               PROVE  FALSE
    BY DEF RecheckSeesOperation
  <2>1. Seen(g, one.row) /\ g.principal = one.row.principal
    BY DEF Exposes, Seen
  <2>2. g \in one.live /\ g.scope = one.scope
    BY DEF GrantsAtScope
  <2> QED BY <2>1, <2>2 DEF DenyInv, Unseen
<1> QED BY <1>1, DenyInvariant, PTL
=============================================================================
