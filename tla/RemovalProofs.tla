---------------------------- MODULE RemovalProofs ----------------------------
(* Proofs about Removal, for every set of rows and grants, every plan, and    *)
(* any number of commands.                                                    *)
EXTENDS Removal, FiniteSetTheorems, TLAPS

\* Some set of rows, in some order, is a listing of them.
LEMMA NumberingIsListing ==
  ASSUME RemovalAssumption, NEW rows \in SUBSET Row, NEW s \in Numberings(rows)
  PROVE  s \in Listing
<1>1. IsFiniteSet(Row) /\ Cardinality(Row) \in Nat
  BY FS_CardinalityType DEF RemovalAssumption
<1>2. Cardinality(rows) \in Nat /\ Cardinality(rows) <= Cardinality(Row)
  BY <1>1, FS_Subset, FS_CardinalityType
<1>3. s \in [1..Cardinality(rows) -> rows]
  BY DEF Numberings, Bijection, Injection, Surjection
<1>4. s \in Seq(Row) /\ Len(s) = Cardinality(rows)
  BY <1>2, <1>3
<1> QED BY <1>2, <1>4 DEF Listing

\* The numbers of a listing are Numbers, and its rows are rows.
LEMMA ListingFacts ==
  ASSUME RemovalAssumption, NEW s \in Listing
  PROVE  /\ DOMAIN s \subseteq Number
         /\ \A i \in DOMAIN s : s[i] \in Row
         /\ Range(s) \subseteq Row
<1>1. Cardinality(Row) \in Nat
  BY FS_CardinalityType DEF RemovalAssumption
<1>2. s \in Seq(Row) /\ Len(s) \in Nat /\ Len(s) <= Cardinality(Row) /\ DOMAIN s = 1..Len(s)
  BY DEF Listing
<1>3. DOMAIN s \subseteq Number
  BY <1>1, <1>2 DEF Number
<1>4. \A i \in DOMAIN s : s[i] \in Row
  BY <1>2
<1> QED BY <1>3, <1>4 DEF Range

\* A file that is not there has its type.
LEMMA NoFiles ==
  ASSUME RemovalAssumption
  PROVE  /\ 0 \in 0..MaxFiles /\ 1 \in 1..MaxFiles
         /\ <<>> \in Listing
         /\ NoPlan \in PlanFile /\ OwnRows(NoPlan)
         /\ NoVerify \in VerifyFile /\ NoScript \in ScriptFile
<1>1. 0 \in 0..MaxFiles /\ 1 \in 1..MaxFiles
  BY DEF RemovalAssumption
<1>2. <<>> \in Listing
  <2>1. Cardinality(Row) \in Nat
    BY FS_CardinalityType DEF RemovalAssumption
  <2>2. <<>> \in Seq(Row) /\ Len(<<>>) = 0
    OBVIOUS
  <2> QED BY <2>1, <2>2 DEF Listing
<1>3. NoPlan \in PlanFile /\ OwnRows(NoPlan)
  BY <1>1, <1>2 DEF NoPlan, NoFile, PlanFile, OwnRows
<1>4. NoVerify \in VerifyFile /\ NoScript \in ScriptFile
  BY <1>1 DEF NoVerify, NoScript, NoFile, VerifyFile, ScriptFile
<1> QED BY <1>1, <1>2, <1>3, <1>4

\* What plan makes of a listing numbers rows of each binding's own principal.
LEMMA NumberedFacts ==
  ASSUME RemovalAssumption, NEW s \in Listing, NEW b \in PlanOf[Range(s)]
  PROVE  /\ Numbered(b, s) \in [grant : Grant, ids : SUBSET Number]
         /\ \A i \in Numbered(b, s).ids :
              i \in DOMAIN s /\ Owner[s[i]] = HolderOf[Numbered(b, s).grant]
<1>1. Range(s) \in SUBSET Row /\ DOMAIN s \subseteq Number
  BY ListingFacts
<1>2. b \in Binding /\ \A r \in b.source : Owner[r] = HolderOf[b.grant]
  BY <1>1 DEF RemovalAssumption
<1>3. b.grant \in Grant
  BY <1>2 DEF Binding
<1>4. Numbered(b, s).grant = b.grant /\ Numbered(b, s).ids = {i \in DOMAIN s : s[i] \in b.source}
  BY DEF Numbered
<1>5. Numbered(b, s) \in [grant : Grant, ids : SUBSET Number]
  BY <1>1, <1>3 DEF Numbered
<1> QED BY <1>2, <1>4, <1>5

\* What verify asks is about bindings of the plan.
LEMMA TaskFacts ==
  ASSUME NEW p \in PlanFile, NEW mode \in {"effective", "bindings-exist"},
         NEW t \in Tasks(mode, p.bindings)
  PROVE  /\ t \in Task
         /\ \E b \in p.bindings :
              t.grant = b.grant /\ IF mode = "effective" THEN t.id \in b.ids ELSE t.id = 0
<1>1. \A b \in p.bindings : b.grant \in Grant /\ b.ids \subseteq Number
  BY DEF PlanFile
<1>2. CASE mode = "effective"
  <2>1. PICK b \in p.bindings : t \in {[grant |-> b.grant, id |-> i] : i \in b.ids}
    BY <1>2 DEF Tasks
  <2>2. PICK i \in b.ids : t = [grant |-> b.grant, id |-> i]
    BY <2>1
  <2> QED BY <1>1, <1>2, <2>2 DEF Task
<1>3. CASE mode = "bindings-exist"
  <2>1. PICK b \in p.bindings : t = [grant |-> b.grant, id |-> 0]
    BY <1>3 DEF Tasks
  <2> QED BY <1>1, <1>3, <2>1 DEF Task
<1> QED BY <1>2, <1>3

-----------------------------------------------------------------------------
(***************************************************************************)
(* What holds however the commands overlap: the types, the versions, and   *)
(* that delete.log is truthful.                                            *)
(***************************************************************************)

\* At first there is acls.json and nothing else.
LEMMA AnyInvInit ==
  ASSUME RemovalAssumption, Init
  PROVE  AnyInv
<1>1. acls \in [v : 1..MaxFiles, rows : Listing]
  BY NoFiles, NumberingIsListing DEF Init
<1>2. FilesTyped
  BY <1>1, NoFiles DEF Init, FilesTyped, NoFile
<1>3. LocalsTyped
  <2>1. pl \in [pc : {"idle", "stamp", "write", "sum"},
                read : [v : 0..MaxFiles, rows : Listing], stamp : 0..MaxFiles]
    BY NoFiles DEF Init, IdlePlan, NoAcls, NoFile
  <2>2. ve \in [pc : {"idle", "check", "hash", "read", "lookup"},
             mode : {"effective", "bindings-exist"}, accept : BOOLEAN, rows : Listing,
             hash : 0..MaxFiles, plan : PlanFile, left : SUBSET Task,
             results : SUBSET Results, vouched : SUBSET Row]
    BY NoFiles DEF Init, IdleVerify, NoFile
  <2>3. de \in [pc : {"idle", "bound", "check", "read", "acls", "stamp", "script", "rollback"},
             filter : SUBSET Holder, verified : VerifyFile, plan : PlanFile,
             rows : Listing, picked : SUBSET Row]
    BY NoFiles DEF Init, IdleDelete
  <2>4. sc \in [pc : {"idle", "next", "log"}, left : SUBSET Row, done : SUBSET Row]
    BY DEF Init, IdleScript
  <2> QED BY <2>1, <2>2, <2>3, <2>4 DEF LocalsTyped
<1>4. VersionsPast
  BY NoFiles DEF Init, VersionsPast, NoPlan, NoVerify, NoScript, NoFile, IdlePlan, IdleVerify
<1>5. OwnRows(plan) /\ OwnRows(ve.plan)
  BY NoFiles DEF Init, IdleVerify
<1>6. Logged
  BY DEF Init, Logged, LogIsTruthful, IdleScript
<1> QED BY <1>2, <1>3, <1>4, <1>5, <1>6 DEF AnyInv

\* extract and plan keep the types: the plan numbers the rows of the listing it read.
LEMMA PlanTypes ==
  ASSUME RemovalAssumption, AnyInv,
         Extract \/ PlanRead \/ PlanStamp \/ PlanWrite \/ PlanChecksum
  PROVE  AnyInv'
<1> USE DEF world, files, count
<1>a. /\ MaxFiles \in Nat \ {0} /\ FilesTyped /\ LocalsTyped /\ VersionsPast
      /\ OwnRows(plan) /\ OwnRows(ve.plan) /\ Logged
  BY DEF AnyInv, RemovalAssumption
<1>b. /\ plan.v \in 0..MaxFiles /\ plan.acls \in 0..MaxFiles /\ acls.v \in 1..MaxFiles
      /\ acls.rows \in Listing /\ pl.stamp \in 0..MaxFiles /\ pl.read.rows \in Listing
      /\ verified.plan \in 0..MaxFiles /\ ve.hash \in 0..MaxFiles /\ script.plan \in 0..MaxFiles
  BY <1>a DEF FilesTyped, LocalsTyped, PlanFile, VerifyFile, ScriptFile
<1>1. CASE Extract
  <2>1. PICK s \in Numberings(kafka) : acls' = [v |-> acls.v + 1, rows |-> s]
    BY <1>1 DEF Extract
  <2>2. s \in Listing
    BY <1>a, NumberingIsListing DEF FilesTyped
  <2>3. acls' \in [v : 1..MaxFiles, rows : Listing] /\ acls'.v = acls.v + 1
    BY <1>1, <1>a, <1>b, <2>1, <2>2 DEF Extract
  <2>4. /\ UNCHANGED <<kafka, mds, plan, planSum, verified, script, rollback, log, removed>>
        /\ UNCHANGED <<pl, ve, de, sc>>
    BY <1>1 DEF Extract
  <2>5. FilesTyped' /\ LocalsTyped'
    BY <1>a, <2>3, <2>4 DEF FilesTyped, LocalsTyped
  <2>6. VersionsPast'
    BY <1>a, <1>b, <2>3, <2>4 DEF VersionsPast
  <2> QED BY <1>a, <2>4, <2>5, <2>6 DEF AnyInv, Logged, LogIsTruthful, OwnRows
<1>2. CASE PlanRead
  <2>1. /\ UNCHANGED <<kafka, mds, acls, plan, planSum, verified, script, rollback, log, removed>>
        /\ UNCHANGED <<ve, de, sc>>
    BY <1>2 DEF PlanRead
  <2>2. pl' = [pl EXCEPT !.pc = "stamp", !.read = acls] /\ plan.v < MaxFiles
    BY <1>2 DEF PlanRead
  <2>3. acls \in [v : 0..MaxFiles, rows : Listing]
    BY <1>a DEF FilesTyped
  <2>4. LocalsTyped' /\ pl'.stamp = pl.stamp
    BY <1>a, <2>1, <2>2, <2>3 DEF LocalsTyped
  <2>5. VersionsPast'
    BY <1>a, <2>1, <2>2, <2>4 DEF VersionsPast
  <2> QED BY <1>a, <2>1, <2>4, <2>5 DEF AnyInv, FilesTyped, Logged, LogIsTruthful, OwnRows
<1>3. CASE PlanStamp
  <2>1. /\ UNCHANGED <<kafka, mds, acls, plan, planSum, verified, script, rollback, log, removed>>
        /\ UNCHANGED <<ve, de, sc>>
    BY <1>3 DEF PlanStamp
  <2>2. pl' = [pl EXCEPT !.pc = "write", !.stamp = acls.v] /\ pl.pc = "stamp"
    BY <1>3 DEF PlanStamp
  <2>3. LocalsTyped' /\ pl'.stamp = acls.v
    <3>1. acls.v \in 0..MaxFiles
      BY <1>a, <1>b
    <3> QED BY <1>a, <2>1, <2>2, <3>1 DEF LocalsTyped
  <2>4. VersionsPast'
    BY <1>a, <1>b, <2>1, <2>2, <2>3 DEF VersionsPast
  <2> QED BY <1>a, <2>1, <2>3, <2>4 DEF AnyInv, FilesTyped, Logged, LogIsTruthful, OwnRows
<1>4. CASE PlanWrite
  <2> DEFINE rows == pl.read.rows
             made == {Numbered(b, rows) : b \in PlanOf[Range(rows)]}
  <2>1. /\ UNCHANGED <<kafka, mds, acls, planSum, verified, script, rollback, log, removed>>
        /\ UNCHANGED <<ve, de, sc>>
    BY <1>4 DEF PlanWrite
  <2>2. /\ plan' = [v |-> plan.v + 1, acls |-> pl.stamp, rows |-> rows, bindings |-> made]
        /\ pl' = [IdlePlan EXCEPT !.pc = "sum"] /\ pl.pc = "write"
    BY <1>4 DEF PlanWrite
  <2>3. plan.v + 1 \in 0..MaxFiles
    BY <1>a, <1>b, <2>2 DEF VersionsPast
  <2>4. \A m \in made : m \in [grant : Grant, ids : SUBSET Number]
    BY <1>b, NumberedFacts
  <2>5. plan' \in PlanFile
    BY <1>b, <2>2, <2>3, <2>4 DEF PlanFile
  <2>6. OwnRows(plan)'
    <3>1. \A m \in made : \A i \in m.ids : i \in DOMAIN rows /\ Owner[rows[i]] = HolderOf[m.grant]
      BY <1>b, NumberedFacts
    <3> QED BY <2>2, <3>1 DEF OwnRows
  <2>7. pl' \in [pc : {"idle", "stamp", "write", "sum"},
                 read : [v : 0..MaxFiles, rows : Listing], stamp : 0..MaxFiles]
    BY <2>2, NoFiles DEF IdlePlan, NoAcls, NoFile
  <2>8. FilesTyped' /\ LocalsTyped'
    BY <1>a, <2>1, <2>5, <2>7 DEF FilesTyped, LocalsTyped
  <2>9. VersionsPast'
    <3>1. plan'.v = plan.v + 1 /\ plan'.acls = pl.stamp /\ pl'.pc = "sum" /\ pl'.stamp = 0
      BY <2>2 DEF IdlePlan, NoFile
    <3> QED BY <1>a, <1>b, <2>1, <3>1 DEF VersionsPast
  <2> QED BY <1>a, <2>1, <2>6, <2>8, <2>9 DEF AnyInv, Logged, LogIsTruthful, OwnRows
<1>5. CASE PlanChecksum
  <2>1. /\ UNCHANGED <<kafka, mds, acls, plan, verified, script, rollback, log, removed>>
        /\ UNCHANGED <<ve, de, sc>>
        /\ planSum' = plan.v /\ pl' = IdlePlan
    BY <1>5 DEF PlanChecksum
  <2>2. pl' \in [pc : {"idle", "stamp", "write", "sum"},
                 read : [v : 0..MaxFiles, rows : Listing], stamp : 0..MaxFiles]
    BY <2>1, NoFiles DEF IdlePlan, NoAcls, NoFile
  <2>3. FilesTyped' /\ LocalsTyped'
    BY <1>a, <1>b, <2>1, <2>2 DEF FilesTyped, LocalsTyped
  <2>4. VersionsPast'
    BY <1>a, <1>b, <2>1 DEF VersionsPast, IdlePlan, NoFile
  <2> QED BY <1>a, <2>1, <2>3, <2>4 DEF AnyInv, Logged, LogIsTruthful, OwnRows
<1> QED BY <1>1, <1>2, <1>3, <1>4, <1>5

\* verify keeps the types: what it asks and records is about rows and bindings of
\* the plan it read.
LEMMA VerifyTypes ==
  ASSUME RemovalAssumption, AnyInv,
         \/ VerifyStart \/ VerifyCheck \/ VerifyHash \/ VerifyRead \/ VerifyWrite
         \/ \E t \in ve.left : Lookup(t) \/ Exists(t) \/ Unknown(t)
  PROVE  AnyInv'
<1> USE DEF world, files, count
<1> DEFINE VeType == [pc : {"idle", "check", "hash", "read", "lookup"},
             mode : {"effective", "bindings-exist"}, accept : BOOLEAN, rows : Listing,
             hash : 0..MaxFiles, plan : PlanFile, left : SUBSET Task,
             results : SUBSET Results, vouched : SUBSET Row]
<1>a. /\ MaxFiles \in Nat \ {0} /\ FilesTyped /\ LocalsTyped /\ VersionsPast
      /\ OwnRows(plan) /\ OwnRows(ve.plan) /\ Logged /\ ve \in VeType
  BY DEF AnyInv, RemovalAssumption, LocalsTyped
<1>b. /\ plan.v \in 0..MaxFiles /\ plan \in PlanFile /\ acls.rows \in Listing
      /\ verified.plan \in 0..MaxFiles /\ ve.hash \in 0..MaxFiles /\ script.plan \in 0..MaxFiles
  BY <1>a DEF FilesTyped, PlanFile, VerifyFile, ScriptFile
<1>c. IdleVerify \in VeType /\ OwnRows(IdleVerify.plan) /\ IdleVerify.hash = 0
  BY NoFiles DEF IdleVerify, NoFile
<1>d. ASSUME /\ UNCHANGED <<kafka, mds, acls, plan, planSum, verified, script, rollback, log, removed>>
             /\ UNCHANGED <<pl, de, sc>>,
             ve' \in VeType, OwnRows(ve.plan)', ve'.hash <= plan.v
      PROVE  AnyInv'
  BY <1>a, <1>d DEF AnyInv, FilesTyped, LocalsTyped, VersionsPast, Logged, LogIsTruthful, OwnRows
<1>1. CASE VerifyStart
  <2>1. PICK mode \in {"effective", "bindings-exist"}, accept \in BOOLEAN :
          ve' = [IdleVerify EXCEPT !.pc = "check", !.mode = mode, !.accept = accept,
                   !.rows = IF mode = "effective" THEN acls.rows ELSE <<>>]
    BY <1>1 DEF VerifyStart
  <2>2. ve' \in VeType /\ ve'.plan = IdleVerify.plan /\ ve'.hash = 0
    <3>1. PICK s \in Listing : ve' = [IdleVerify EXCEPT !.pc = "check", !.mode = mode,
                                        !.accept = accept, !.rows = s]
      BY <1>b, <2>1, NoFiles
    <3> QED BY <1>c, <3>1
  <2>3. OwnRows(ve.plan)'
    BY <1>c, <2>2 DEF OwnRows
  <2>4. /\ UNCHANGED <<kafka, mds, acls, plan, planSum, verified, script, rollback, log, removed>>
        /\ UNCHANGED <<pl, de, sc>>
    BY <1>1 DEF VerifyStart
  <2>5. ve'.hash <= plan.v
    BY <1>a, <1>b, <2>2
  <2> QED BY <1>d, <2>2, <2>3, <2>4, <2>5
<1>2. CASE VerifyCheck
  <2>1. ve' = [ve EXCEPT !.pc = "hash"] \/ ve' = IdleVerify
    BY <1>2 DEF VerifyCheck
  <2>2. ve' \in VeType /\ ve'.plan \in {ve.plan, IdleVerify.plan} /\ ve'.hash \in {ve.hash, 0}
    BY <1>a, <1>c, <2>1
  <2>3. OwnRows(ve.plan)'
    BY <1>a, <1>c, <2>2 DEF OwnRows
  <2> QED BY <1>2, <1>a, <1>b, <1>d, <2>2, <2>3 DEF VerifyCheck, VersionsPast
<1>3. CASE VerifyHash
  <2>1. ve' = [ve EXCEPT !.pc = "read", !.hash = plan.v]
    BY <1>3 DEF VerifyHash
  <2>2. ve' \in VeType /\ ve'.plan = ve.plan /\ ve'.hash = plan.v
    BY <1>a, <1>b, <2>1
  <2>3. OwnRows(ve.plan)'
    BY <1>a, <2>2 DEF OwnRows
  <2> QED BY <1>3, <1>b, <1>d, <2>2, <2>3 DEF VerifyHash
<1>4. CASE VerifyRead
  <2>1. ve' = [ve EXCEPT !.pc = "lookup", !.plan = plan, !.left = Tasks(ve.mode, plan.bindings)]
    BY <1>4 DEF VerifyRead
  <2>2. Tasks(ve.mode, plan.bindings) \subseteq Task
    BY <1>a, <1>b, TaskFacts
  <2>3. ve' \in VeType /\ ve'.plan = plan /\ ve'.hash = ve.hash
    BY <1>a, <1>b, <2>1, <2>2
  <2>4. OwnRows(ve.plan)'
    BY <1>a, <2>3 DEF OwnRows
  <2> QED BY <1>4, <1>a, <1>d, <2>3, <2>4 DEF VerifyRead, VersionsPast
<1>5. CASE VerifyWrite
  <2>1. /\ UNCHANGED <<kafka, mds, acls, plan, planSum, script, rollback, log, removed>>
        /\ UNCHANGED <<pl, de, sc>>
        /\ verified' = [plan |-> ve.hash, results |-> {Downgrade(res) : res \in ve.results},
                        vouched |-> ve.vouched \cup Waived]
        /\ ve' = IdleVerify
    BY <1>5 DEF VerifyWrite
  <2>2. \A res \in ve.results : Downgrade(res) \in Results
    BY <1>a DEF Downgrade, Results, Status
  <2>3. Waived \subseteq Row
    BY <1>a, ListingFacts DEF Waived
  <2>4. verified' \in VerifyFile /\ verified'.plan = ve.hash
    BY <1>a, <1>b, <2>1, <2>2, <2>3 DEF VerifyFile
  <2>5. FilesTyped' /\ LocalsTyped'
    BY <1>a, <1>c, <2>1, <2>4 DEF FilesTyped, LocalsTyped
  <2>6. VersionsPast'
    BY <1>a, <1>b, <1>c, <2>1, <2>4 DEF VersionsPast
  <2> QED BY <1>a, <1>c, <2>1, <2>5, <2>6 DEF AnyInv, Logged, LogIsTruthful, OwnRows
<1>6. ASSUME NEW t \in ve.left, Lookup(t) \/ Exists(t) \/ Unknown(t)
      PROVE  AnyInv'
  <2>1. \E status \in Status, rows \in SUBSET Row : Record(t, status, rows)
    <3>1. CASE Lookup(t)
      <4>1. ve.rows[t.id] \in Row
        BY <1>a, <3>1, ListingFacts DEF Lookup
      <4> QED BY <3>1, <4>1 DEF Lookup, Status
    <3>2. CASE Exists(t)
      <4> DEFINE rows == UNION {{ve.plan.rows[i] : i \in b.ids} :
                                  b \in {x \in ve.plan.bindings : x.grant = t.grant}}
      <4>1. ve.plan.rows \in Listing
        BY <1>a DEF PlanFile
      <4>2. \A b \in ve.plan.bindings : \A i \in b.ids : ve.plan.rows[i] \in Row
        BY <1>a, <4>1, ListingFacts DEF OwnRows
      <4>3. rows \in SUBSET Row
        BY <4>2
      <4>4. Record(t, "BINDING_EXISTS", rows) \/ Record(t, "BINDING_MISSING", {})
        BY <3>2 DEF Exists
      <4> QED BY <4>3, <4>4 DEF Status
    <3>3. CASE Unknown(t)
      BY <3>3 DEF Unknown, Status
    <3> QED BY <1>6, <3>1, <3>2, <3>3
  <2>2. PICK status \in Status : \E rows \in SUBSET Row : Record(t, status, rows)
    BY <2>1
  <2>3. PICK rows \in SUBSET Row : Record(t, status, rows)
    BY <2>2
  <2>4. Result(t, status) \in Results
    BY <1>a DEF Result, Results, Task
  <2>5. ve' = [ve EXCEPT !.left = ve.left \ {t}, !.results = ve.results \cup {Result(t, status)},
                         !.vouched = ve.vouched \cup rows]
    BY <2>3 DEF Record
  <2>6. ve' \in VeType /\ ve'.plan = ve.plan /\ ve'.hash = ve.hash
    BY <1>a, <2>4, <2>5
  <2>7. OwnRows(ve.plan)'
    BY <1>a, <2>6 DEF OwnRows
  <2>8. /\ UNCHANGED <<kafka, mds, acls, plan, planSum, verified, script, rollback, log, removed>>
        /\ UNCHANGED <<pl, de, sc>>
    BY <1>6 DEF Lookup, Exists, Unknown
  <2> QED BY <1>a, <1>d, <2>6, <2>7, <2>8 DEF VersionsPast
<1> QED BY <1>1, <1>2, <1>3, <1>4, <1>5, <1>6

\* delete-acls keeps the types: it picks rows of a listing.
LEMMA DeleteTypes ==
  ASSUME RemovalAssumption, AnyInv,
         \/ DeleteStart \/ DeleteBound \/ DeleteCheck \/ DeleteReadPlan \/ DeleteReadAcls
         \/ DeleteSelect \/ WriteScript \/ WriteRollback
  PROVE  AnyInv'
<1> USE DEF world, files, count
<1> DEFINE DeType == [pc : {"idle", "bound", "check", "read", "acls", "stamp", "script", "rollback"},
             filter : SUBSET Holder, verified : VerifyFile, plan : PlanFile,
             rows : Listing, picked : SUBSET Row]
<1>a. /\ FilesTyped /\ LocalsTyped /\ VersionsPast
      /\ OwnRows(plan) /\ OwnRows(ve.plan) /\ Logged /\ de \in DeType
  BY DEF AnyInv, LocalsTyped
<1>b. /\ plan.v \in 0..MaxFiles /\ plan \in PlanFile /\ acls.rows \in Listing
      /\ verified \in VerifyFile /\ verified.plan \in 0..MaxFiles /\ ve.hash \in 0..MaxFiles
  BY <1>a DEF FilesTyped, LocalsTyped, PlanFile, VerifyFile
<1>c. IdleDelete \in DeType
  BY NoFiles DEF IdleDelete
<1>d. ASSUME /\ UNCHANGED <<kafka, mds, acls, plan, planSum, verified, log, removed>>
             /\ UNCHANGED <<pl, ve, sc>>,
             de' \in DeType,
             UNCHANGED <<script, rollback>>
      PROVE  AnyInv'
  BY <1>a, <1>d DEF AnyInv, FilesTyped, LocalsTyped, VersionsPast, Logged, LogIsTruthful, OwnRows
<1>1. CASE DeleteStart
  <2>1. PICK filter \in SUBSET Holder :
          de' = [IdleDelete EXCEPT !.pc = "bound", !.filter = filter, !.verified = verified]
    BY <1>1 DEF DeleteStart
  <2>2. de' \in DeType
    BY <1>b, <1>c, <2>1
  <2> QED BY <1>1, <1>d, <2>2 DEF DeleteStart
<1>2. CASE DeleteBound
  <2>1. de' \in DeType
    BY <1>2, <1>a, <1>c DEF DeleteBound
  <2> QED BY <1>2, <1>d, <2>1 DEF DeleteBound, DeleteGoes, Keeps
<1>3. CASE DeleteCheck
  <2>1. de' \in DeType
    BY <1>3, <1>a, <1>c DEF DeleteCheck
  <2> QED BY <1>3, <1>d, <2>1 DEF DeleteCheck, DeleteGoes, Keeps
<1>4. CASE DeleteReadPlan
  <2>1. de' \in DeType
    BY <1>4, <1>a, <1>b DEF DeleteReadPlan
  <2> QED BY <1>4, <1>d, <2>1 DEF DeleteReadPlan, DeleteGoes, Keeps
<1>5. CASE DeleteReadAcls
  <2>1. de' \in DeType
    BY <1>5, <1>a, <1>b DEF DeleteReadAcls
  <2> QED BY <1>5, <1>d, <2>1 DEF DeleteReadAcls, DeleteGoes, Keeps
<1>6. CASE DeleteSelect
  <2>1. Selected \in DeType
    <3> DEFINE picked == {de.rows[i] : i \in EligibleACLs \cap DOMAIN de.rows}
    <3>1. picked \in SUBSET Row
      BY <1>a, ListingFacts
    <3>2. Selected = [IdleDelete EXCEPT !.pc = "script", !.verified = de.verified,
                                        !.picked = picked]
      BY DEF Selected
    <3> HIDE DEF picked
    <3> QED BY <1>a, <1>c, <3>1, <3>2
  <2>2. de' \in DeType
    BY <1>6, <1>c, <2>1 DEF DeleteSelect
  <2> QED BY <1>6, <1>d, <2>2 DEF DeleteSelect, DeleteGoes, Keeps
<1>7. CASE WriteScript
  <2>1. /\ UNCHANGED <<kafka, mds, acls, plan, planSum, verified, rollback, log, removed>>
        /\ UNCHANGED <<pl, ve, sc>>
        /\ script' = [plan |-> plan.v, rows |-> de.picked, vouched |-> de.verified.vouched]
        /\ de' = [de EXCEPT !.pc = "rollback"]
    BY <1>7 DEF WriteScript, DeleteGoes
  <2>2. script' \in ScriptFile /\ script'.plan = plan.v /\ de' \in DeType
    BY <1>a, <1>b, <2>1 DEF ScriptFile, VerifyFile
  <2>3. FilesTyped' /\ LocalsTyped'
    BY <1>a, <2>1, <2>2 DEF FilesTyped, LocalsTyped
  <2>4. VersionsPast'
    BY <1>a, <1>b, <2>1, <2>2 DEF VersionsPast
  <2> QED BY <1>a, <2>1, <2>3, <2>4 DEF AnyInv, Logged, LogIsTruthful, OwnRows
<1>8. CASE WriteRollback
  <2>1. /\ UNCHANGED <<kafka, mds, acls, plan, planSum, verified, script, log, removed>>
        /\ UNCHANGED <<pl, ve, sc>>
        /\ rollback' = de.picked /\ de' = IdleDelete
    BY <1>8 DEF WriteRollback, DeleteGoes
  <2>2. FilesTyped' /\ LocalsTyped'
    BY <1>a, <1>c, <2>1 DEF FilesTyped, LocalsTyped
  <2>3. VersionsPast'
    BY <1>a, <2>1 DEF VersionsPast
  <2> QED BY <1>a, <2>1, <2>2, <2>3 DEF AnyInv, Logged, LogIsTruthful, OwnRows
<1> QED BY <1>1, <1>2, <1>3, <1>4, <1>5, <1>6, <1>7, <1>8

\* The script, a death and the world around keep the types; the script logs what it
\* has removed.
LEMMA OtherTypes ==
  ASSUME RemovalAssumption, AnyInv,
         \/ RunScript \/ LogRemoved \/ ScriptEnds \/ \E r \in sc.left : Remove(r)
         \/ Crash \/ AddAcl \/ ChangeMds
  PROVE  AnyInv'
<1> USE DEF world, files, count
<1>a. /\ FilesTyped /\ LocalsTyped /\ VersionsPast
      /\ OwnRows(plan) /\ OwnRows(ve.plan) /\ Logged
      /\ sc \in [pc : {"idle", "next", "log"}, left : SUBSET Row, done : SUBSET Row]
      /\ script \in ScriptFile
  BY DEF AnyInv, LocalsTyped, FilesTyped
<1>b. IdleScript \in [pc : {"idle", "next", "log"}, left : SUBSET Row, done : SUBSET Row]
  BY DEF IdleScript
<1>1. ASSUME /\ UNCHANGED <<acls, plan, planSum, verified, script, rollback>>
             /\ UNCHANGED <<pl, ve, de>>,
             kafka' \subseteq Row, mds' \subseteq Grant,
             log' \subseteq Row, removed' \subseteq Row,
             sc' \in [pc : {"idle", "next", "log"}, left : SUBSET Row, done : SUBSET Row],
             sc'.done \subseteq removed', log' \subseteq removed'
      PROVE  AnyInv'
  BY <1>1, <1>a DEF AnyInv, FilesTyped, LocalsTyped, VersionsPast, Logged, LogIsTruthful, OwnRows
<1>2. CASE RunScript
  <2>1. script.rows \subseteq Row /\ sc' = [sc EXCEPT !.pc = "next", !.left = script.rows]
    BY <1>2, <1>a DEF RunScript, ScriptFile
  <2> QED BY <1>1, <1>2, <1>a, <2>1 DEF RunScript, FilesTyped, Logged, LogIsTruthful
<1>3. CASE LogRemoved
  BY <1>1, <1>3, <1>a DEF LogRemoved, FilesTyped, Logged, LogIsTruthful
<1>4. CASE ScriptEnds
  BY <1>1, <1>4, <1>a, <1>b DEF ScriptEnds, FilesTyped, Logged, LogIsTruthful, IdleScript
<1>5. ASSUME NEW r \in sc.left, Remove(r) PROVE AnyInv'
  <2>1. r \in Row
    BY <1>a
  <2> QED BY <1>1, <1>5, <1>a, <2>1 DEF Remove, FilesTyped, Logged, LogIsTruthful
<1>6. CASE Crash
  <2>1. /\ UNCHANGED <<kafka, mds, acls, plan, planSum, verified, script, rollback, log, removed>>
        /\ pl' \in {pl, IdlePlan} /\ ve' \in {ve, IdleVerify}
        /\ de' \in {de, IdleDelete} /\ sc' \in {sc, IdleScript}
    BY <1>6 DEF Crash
  <2>2. LocalsTyped'
    <3>1. IdlePlan \in [pc : {"idle", "stamp", "write", "sum"},
                        read : [v : 0..MaxFiles, rows : Listing], stamp : 0..MaxFiles]
      BY NoFiles DEF IdlePlan, NoAcls, NoFile
    <3>2. IdleVerify \in
            [pc : {"idle", "check", "hash", "read", "lookup"},
             mode : {"effective", "bindings-exist"}, accept : BOOLEAN, rows : Listing,
             hash : 0..MaxFiles, plan : PlanFile, left : SUBSET Task,
             results : SUBSET Results, vouched : SUBSET Row]
      BY NoFiles DEF IdleVerify, NoFile
    <3>3. IdleDelete \in
            [pc : {"idle", "bound", "check", "read", "acls", "stamp", "script", "rollback"},
             filter : SUBSET Holder, verified : VerifyFile, plan : PlanFile,
             rows : Listing, picked : SUBSET Row]
      BY NoFiles DEF IdleDelete
    <3> QED BY <1>a, <1>b, <2>1, <3>1, <3>2, <3>3 DEF LocalsTyped
  <2>3. VersionsPast'
    <3>1. /\ plan.v \in 0..MaxFiles /\ acls.v \in 1..MaxFiles /\ MaxFiles \in Nat
          /\ pl'.stamp \in {pl.stamp, 0} /\ ve'.hash \in {ve.hash, 0}
          /\ pl'.pc \in {pl.pc, "idle"}
      BY <1>a, <2>1 DEF FilesTyped, PlanFile, IdlePlan, IdleVerify, NoFile, RemovalAssumption
    <3> QED BY <1>a, <2>1, <3>1 DEF VersionsPast
  <2>4. OwnRows(plan)' /\ OwnRows(ve.plan)'
    BY <1>a, <2>1, NoFiles DEF OwnRows, IdleVerify
  <2>5. FilesTyped' /\ Logged'
    BY <1>a, <2>1 DEF FilesTyped, Logged, LogIsTruthful, IdleScript
  <2> QED BY <2>2, <2>3, <2>4, <2>5 DEF AnyInv
<1>7. CASE AddAcl
  BY <1>1, <1>7, <1>a DEF AddAcl, FilesTyped, Logged, LogIsTruthful
<1>8. CASE ChangeMds
  BY <1>1, <1>8, <1>a DEF ChangeMds, FilesTyped, Logged, LogIsTruthful
<1> QED BY <1>2, <1>3, <1>4, <1>5, <1>6, <1>7, <1>8

\* Nothing changes.
LEMMA AnyInvStutter ==
  ASSUME AnyInv, UNCHANGED vars
  PROVE  AnyInv'
BY DEF AnyInv, vars, world, files, count, FilesTyped, LocalsTyped, VersionsPast, OwnRows,
       Logged, LogIsTruthful

\* The types and versions of files and commands, and the log, whatever runs when.
THEOREM AnyInvariant ==
  ASSUME RemovalAssumption PROVE Spec => []AnyInv
<1>1. Init => AnyInv
  BY AnyInvInit
<1>2. AnyInv /\ [Next]_vars => AnyInv'
  BY PlanTypes, VerifyTypes, DeleteTypes, OtherTypes, AnyInvStutter DEF Next
<1> QED BY <1>1, <1>2, PTL DEF Spec

\* Files and commands have their types, and speak only of versions of plan.json and
\* acls.json that there have been.
THEOREM TypeCorrect ==
  ASSUME RemovalAssumption PROVE Spec => []TypeOK
<1>1. AnyInv => TypeOK
  <2> SUFFICES ASSUME AnyInv PROVE TypeOK
    OBVIOUS
  <2>1. FilesTyped /\ LocalsTyped /\ VersionsPast
    BY DEF AnyInv
  <2>2. /\ acls.v \in 1..MaxFiles /\ acls.rows \in Seq(Row)
        /\ plan.v \in 0..MaxFiles /\ plan.acls \in 0..MaxFiles
        /\ verified.plan \in 0..MaxFiles /\ script.plan \in 0..MaxFiles
    BY <2>1 DEF FilesTyped, Listing, PlanFile, VerifyFile, ScriptFile
  <2>3. plan.acls \in 0..acls.v /\ verified.plan \in 0..plan.v /\ script.plan \in 0..plan.v
    BY <2>1, <2>2 DEF VersionsPast, RemovalAssumption
  <2>4. \A b \in plan.bindings : b.grant \in Grant /\ b.ids \subseteq 1..Cardinality(Row)
    BY <2>1 DEF FilesTyped, PlanFile, Number
  <2>5. \A res \in verified.results :
          res.grant \in Grant /\ res.id \in 0..Cardinality(Row) /\ res.status \in Status
    <3>1. Cardinality(Row) \in Nat
      BY FS_CardinalityType DEF RemovalAssumption
    <3>2. {0} \cup Number \subseteq 0..Cardinality(Row)
      BY <3>1 DEF Number
    <3> QED BY <2>1, <3>2 DEF FilesTyped, VerifyFile, Results
  <2>6. script.rows \subseteq Row
    BY <2>1 DEF FilesTyped, ScriptFile
  <2> QED BY <2>1, <2>2, <2>3, <2>4, <2>5, <2>6 DEF TypeOK, FilesTyped, LocalsTyped
<1> QED BY <1>1, AnyInvariant, PTL

\* delete.log never claims a removal that has not happened, wherever the script dies
\* and whatever runs at the same time.
THEOREM LogIsTruthfulHolds ==
  ASSUME RemovalAssumption PROVE Spec => []LogIsTruthful
<1>1. AnyInv => LogIsTruthful
  BY DEF AnyInv, Logged
<1> QED BY <1>1, AnyInvariant, PTL

-----------------------------------------------------------------------------
(***************************************************************************)
(* One command at a time on the run directory: then the numbers in         *)
(* plan.json, verify.json and the script stand for the same rows.          *)
(***************************************************************************)

\* A command starts only while none runs.
LEMMA OneCommandStep ==
  ASSUME RemovalAssumption, ~Overlap, AnyInv, OneCommand, [Next]_vars
  PROVE  OneCommand'
<1> USE DEF world, files, count
<1>a. ve \in [pc : {"idle", "check", "hash", "read", "lookup"},
             mode : {"effective", "bindings-exist"}, accept : BOOLEAN, rows : Listing,
             hash : 0..MaxFiles, plan : PlanFile, left : SUBSET Task,
             results : SUBSET Results, vouched : SUBSET Row]
  BY DEF AnyInv, LocalsTyped
<1>1. CASE PlanRead \/ VerifyStart \/ DeleteStart
  <2>1. pl.pc = "idle" /\ ve.pc = "idle" /\ de.pc = "idle"
    BY <1>1 DEF PlanRead, VerifyStart, DeleteStart, MayStart
  <2>2. \/ UNCHANGED <<pl, ve>> \/ UNCHANGED <<pl, de>> \/ UNCHANGED <<ve, de>>
    BY <1>1 DEF PlanRead, VerifyStart, DeleteStart
  <2> QED BY <2>1, <2>2 DEF OneCommand
<1>2. ASSUME /\ pl.pc = "idle" => pl'.pc = "idle"
             /\ ve.pc = "idle" => ve'.pc = "idle"
             /\ de.pc = "idle" => de'.pc = "idle"
      PROVE  OneCommand'
  BY <1>2 DEF OneCommand
<1>3. CASE PlanStamp \/ PlanWrite \/ PlanChecksum
  <2>1. UNCHANGED <<ve, de>> /\ pl.pc # "idle"
    BY <1>3 DEF PlanStamp, PlanWrite, PlanChecksum
  <2> QED BY <1>2, <2>1
<1>4. CASE VerifyCheck \/ VerifyHash \/ VerifyRead \/ VerifyWrite
           \/ \E t \in ve.left : Lookup(t) \/ Exists(t) \/ Unknown(t)
  <2>1. UNCHANGED <<pl, de>> /\ ve.pc # "idle"
    BY <1>4 DEF VerifyCheck, VerifyHash, VerifyRead, VerifyWrite, Lookup, Exists, Unknown
  <2> QED BY <1>2, <2>1
<1>5. CASE DeleteBound \/ DeleteCheck \/ DeleteReadPlan \/ DeleteReadAcls
           \/ DeleteSelect \/ WriteScript \/ WriteRollback
  <2>1. UNCHANGED <<pl, ve>> /\ de.pc # "idle"
    BY <1>5 DEF DeleteBound, DeleteCheck, DeleteReadPlan, DeleteReadAcls, DeleteSelect,
                WriteScript, WriteRollback, DeleteGoes
  <2> QED BY <1>2, <2>1
<1>6. CASE Crash
  <2>1. pl' \in {pl, IdlePlan} /\ ve' \in {ve, IdleVerify} /\ de' \in {de, IdleDelete}
    BY <1>6 DEF Crash
  <2> QED BY <1>2, <2>1 DEF IdlePlan, IdleVerify, IdleDelete
<1>7. CASE UNCHANGED <<pl, ve, de>>
  BY <1>2, <1>7
<1>8. CASE Extract \/ RunScript \/ LogRemoved \/ ScriptEnds \/ (\E r \in sc.left : Remove(r))
           \/ AddAcl \/ ChangeMds
  BY <1>7, <1>8 DEF Extract, RunScript, LogRemoved, ScriptEnds, Remove, AddAcl, ChangeMds
<1> QED BY <1>1, <1>3, <1>4, <1>5, <1>6, <1>7, <1>8 DEF Next, vars

\* The rows plan.json numbers are those of the acls.json it is stamped with.
LEMMA NumbersStep ==
  ASSUME RemovalAssumption, ~Overlap, AnyInv, NumbersFit, [Next]_vars
  PROVE  NumbersFit'
<1> USE DEF world, files, count
<1>a. /\ plan.acls <= acls.v /\ plan.acls \in Nat /\ acls.v \in Nat
      /\ pl \in [pc : {"idle", "stamp", "write", "sum"},
                 read : [v : 0..MaxFiles, rows : Listing], stamp : 0..MaxFiles]
  BY DEF AnyInv, FilesTyped, LocalsTyped, VersionsPast, PlanFile, RemovalAssumption
<1>1. CASE Extract
  <2>1. pl.pc = "idle" /\ UNCHANGED <<plan, pl>> /\ acls'.v = acls.v + 1
    BY <1>1 DEF Extract, MayStart
  <2>2. plan.acls # acls'.v
    BY <1>a, <2>1
  <2> QED BY <2>1, <2>2 DEF NumbersFit
<1>2. CASE PlanRead
  <2>1. pl'.pc = "stamp" /\ pl'.read = acls /\ UNCHANGED <<acls, plan>>
    BY <1>2, <1>a DEF PlanRead
  <2> QED BY <2>1 DEF NumbersFit
<1>3. CASE PlanStamp
  <2>1. /\ pl'.pc = "write" /\ pl'.read = pl.read /\ pl'.stamp = acls.v
        /\ UNCHANGED <<acls, plan>> /\ pl.pc = "stamp"
    BY <1>3, <1>a DEF PlanStamp
  <2> QED BY <2>1 DEF NumbersFit
<1>4. CASE PlanWrite
  <2>1. /\ pl'.pc = "sum" /\ plan'.acls = pl.stamp /\ plan'.rows = pl.read.rows
        /\ UNCHANGED acls /\ pl.pc = "write"
    BY <1>4 DEF PlanWrite, IdlePlan
  <2> QED BY <2>1 DEF NumbersFit
<1>5. CASE pl' \in {pl, IdlePlan} /\ UNCHANGED <<acls, plan>>
  BY <1>5 DEF NumbersFit, IdlePlan
<1>6. CASE PlanChecksum \/ Crash
  BY <1>5, <1>6 DEF PlanChecksum, Crash
<1>7. CASE \/ VerifyStart \/ VerifyCheck \/ VerifyHash \/ VerifyRead \/ VerifyWrite
           \/ \E t \in ve.left : Lookup(t) \/ Exists(t) \/ Unknown(t)
  BY <1>5, <1>7 DEF VerifyStart, VerifyCheck, VerifyHash, VerifyRead, VerifyWrite,
                    Lookup, Exists, Unknown
<1>8. CASE \/ DeleteStart \/ DeleteBound \/ DeleteCheck \/ DeleteReadPlan \/ DeleteReadAcls
           \/ DeleteSelect \/ WriteScript \/ WriteRollback
  BY <1>5, <1>8 DEF DeleteStart, DeleteBound, DeleteCheck, DeleteReadPlan, DeleteReadAcls,
                    DeleteSelect, WriteScript, WriteRollback, DeleteGoes
<1>9. CASE \/ RunScript \/ LogRemoved \/ ScriptEnds \/ (\E r \in sc.left : Remove(r))
           \/ AddAcl \/ ChangeMds
  BY <1>5, <1>9 DEF RunScript, LogRemoved, ScriptEnds, Remove, AddAcl, ChangeMds
<1> QED BY <1>1, <1>2, <1>3, <1>4, <1>5, <1>6, <1>7, <1>8, <1>9 DEF Next, vars

\* A task is about the rows behind it; the rows of the plan are those of the listing
\* verify read, so an OK vouches for the very row.
LEMMA EffectiveBacked ==
  ASSUME RemovalAssumption, AnyInv, plan.rows = ve.rows,
         NEW t \in Tasks("effective", plan.bindings)
  PROVE  /\ t.id \in DOMAIN ve.rows
         /\ Behind(t.grant, t.id) = {ve.rows[t.id]}
         /\ Owner[ve.rows[t.id]] = HolderOf[t.grant]
<1>1. plan \in PlanFile /\ OwnRows(plan)
  BY DEF AnyInv, FilesTyped
<1>2. PICK b \in plan.bindings : t.grant = b.grant /\ t.id \in b.ids
  BY <1>1, TaskFacts
<1>3. t.id \in DOMAIN plan.rows /\ Owner[plan.rows[t.id]] = HolderOf[t.grant]
  BY <1>1, <1>2 DEF OwnRows
<1>4. t.id # 0
  <2>1. b.ids \subseteq Number
    BY <1>1 DEF PlanFile
  <2> QED BY <1>2, <2>1 DEF Number
<1> QED BY <1>3, <1>4 DEF Behind

\* An answer recorded keeps the results of verify about the plan, and backed.
LEMMA RecordBacked ==
  ASSUME RemovalAssumption, AnyInv, NumbersFit, VerifyFits,
         NEW t \in ve.left, Lookup(t) \/ Exists(t) \/ Unknown(t)
  PROVE  VerifyFits'
<1> USE DEF world, files, count
<1>a. /\ ve \in [pc : {"idle", "check", "hash", "read", "lookup"},
             mode : {"effective", "bindings-exist"}, accept : BOOLEAN, rows : Listing,
             hash : 0..MaxFiles, plan : PlanFile, left : SUBSET Task,
             results : SUBSET Results, vouched : SUBSET Row]
      /\ plan \in PlanFile
  BY DEF AnyInv, LocalsTyped, FilesTyped
<1>b. /\ ve.pc = "lookup" /\ ve.plan = plan /\ t \in Tasks(ve.mode, plan.bindings)
      /\ ve.left \subseteq Tasks(ve.mode, plan.bindings)
      /\ \A res \in ve.results :
            /\ [grant |-> res.grant, id |-> res.id] \in Tasks(ve.mode, plan.bindings)
            /\ res.status = "EFFECTIVE_UNKNOWN" => ve.mode = "effective"
  BY DEF Lookup, Exists, Unknown, VerifyFits
<1>c. UNCHANGED <<acls, plan, verified>>
  BY DEF Lookup, Exists, Unknown
<1>d. t = [grant |-> t.grant, id |-> t.id]
  BY <1>a DEF Task
<1>1. ASSUME NEW status \in Status, NEW rows, Record(t, status, rows),
             status = "EFFECTIVE_UNKNOWN" => ve.mode = "effective",
             plan.acls = acls.v /\ status \in Acceptable => Behind(t.grant, t.id) \subseteq rows
      PROVE  VerifyFits'
  <2>1. ve' = [ve EXCEPT !.left = ve.left \ {t}, !.results = ve.results \cup {Result(t, status)},
                         !.vouched = ve.vouched \cup rows]
    BY <1>1 DEF Record
  <2>2. /\ ve'.pc = "lookup" /\ ve'.mode = ve.mode /\ ve'.rows = ve.rows /\ ve'.hash = ve.hash
        /\ ve'.plan = ve.plan /\ ve'.left = ve.left \ {t}
        /\ ve'.results = ve.results \cup {Result(t, status)}
        /\ ve'.vouched = ve.vouched \cup rows
    BY <1>a, <1>b, <2>1
  <2>3. Result(t, status).grant = t.grant /\ Result(t, status).id = t.id
        /\ Result(t, status).status = status
    BY DEF Result
  <2>4. ASSUME NEW res \in ve'.results
        PROVE  /\ [grant |-> res.grant, id |-> res.id] \in Tasks(ve'.mode, plan'.bindings)
               /\ res.status = "EFFECTIVE_UNKNOWN" => ve'.mode = "effective"
    <3>1. CASE res \in ve.results
      BY <1>b, <1>c, <2>2, <3>1
    <3>2. CASE res = Result(t, status)
      BY <1>1, <1>b, <1>c, <1>d, <2>2, <2>3, <3>2
    <3> QED BY <2>2, <2>4, <3>1, <3>2
  <2>5. plan'.acls = acls'.v => Backed(ve.results, ve.vouched)'
    <3> SUFFICES ASSUME plan'.acls = acls'.v PROVE Backed(ve.results, ve.vouched)'
      OBVIOUS
    <3>1. Backed(ve.results, ve.vouched)
      BY <1>b, <1>c DEF VerifyFits
    <3>2. \A g, id : Behind(g, id)' = Behind(g, id)
      BY <1>c DEF Behind
    <3> QED BY <1>1, <1>c, <2>2, <2>3, <3>1, <3>2 DEF Backed
  <2>6. ve'.left \subseteq Tasks(ve'.mode, plan'.bindings)
    BY <1>b, <1>c, <2>2
  <2>7. verified'.plan = plan'.v /\ plan'.acls = acls'.v
          => Backed(verified.results, verified.vouched)'
    BY <1>c DEF VerifyFits, Backed, Behind
  <2>8. /\ ve'.mode = "effective" => ve'.rows = acls'.rows
        /\ ve'.hash = plan'.v /\ ve'.plan = plan'
    BY <1>b, <1>c, <2>2 DEF VerifyFits
  <2> QED BY <2>2, <2>4, <2>5, <2>6, <2>7, <2>8 DEF VerifyFits
<1>2. CASE Lookup(t)
  <2>1. ve.mode = "effective"
    BY <1>2 DEF Lookup
  <2> DEFINE r == ve.rows[t.id]
  <2>2. CASE ~Allowed(HolderOf[t.grant], r)
    <3>1. Record(t, "EFFECTIVE_MISSING", {})
      BY <1>2, <2>2 DEF Lookup
    <3>2. "EFFECTIVE_MISSING" \in Status \ Acceptable /\ "EFFECTIVE_MISSING" # "EFFECTIVE_UNKNOWN"
      BY DEF Status, Acceptable
    <3> QED BY <1>1, <3>1, <3>2
  <2>3. CASE Allowed(HolderOf[t.grant], r)
    <3> DEFINE rows == IF Owner[r] = HolderOf[t.grant] THEN {r} ELSE {}
    <3>1. Record(t, "EFFECTIVE_OK", rows)
      BY <1>2, <2>3 DEF Lookup
    <3>2. plan.acls = acls.v => Behind(t.grant, t.id) \subseteq rows
      <4> SUFFICES ASSUME plan.acls = acls.v PROVE Behind(t.grant, t.id) \subseteq rows
        OBVIOUS
      <4>1. plan.rows = ve.rows
        BY <1>b, <2>1 DEF NumbersFit, VerifyFits
      <4> QED BY <1>b, <2>1, <4>1, EffectiveBacked
    <3>3. "EFFECTIVE_OK" \in Status /\ "EFFECTIVE_OK" # "EFFECTIVE_UNKNOWN"
      BY DEF Status
    <3> HIDE DEF rows
    <3> QED BY <1>1, <3>1, <3>2, <3>3
  <2> QED BY <2>2, <2>3
<1>3. CASE Exists(t)
  <2>1. CASE t.grant \notin mds
    <3>1. Record(t, "BINDING_MISSING", {})
      BY <1>3, <2>1 DEF Exists
    <3>2. "BINDING_MISSING" \in Status \ Acceptable /\ "BINDING_MISSING" # "EFFECTIVE_UNKNOWN"
      BY DEF Status, Acceptable
    <3> QED BY <1>1, <3>1, <3>2
  <2>2. CASE t.grant \in mds
    <3> DEFINE rows == UNION {{ve.plan.rows[i] : i \in b.ids} :
                                b \in {x \in ve.plan.bindings : x.grant = t.grant}}
    <3>1. Record(t, "BINDING_EXISTS", rows)
      BY <1>3, <2>2 DEF Exists
    <3>2. t.id = 0
      BY <1>3, <1>a, <1>b, TaskFacts DEF Exists
    <3>3. Behind(t.grant, t.id) \subseteq rows
      BY <1>b, <3>2 DEF Behind
    <3>4. "BINDING_EXISTS" \in Status /\ "BINDING_EXISTS" # "EFFECTIVE_UNKNOWN"
      BY DEF Status
    <3> HIDE DEF rows
    <3> QED BY <1>1, <3>1, <3>3, <3>4
  <2> QED BY <2>1, <2>2
<1>4. CASE Unknown(t)
  <2> DEFINE status == IF ve.mode = "effective" THEN "EFFECTIVE_UNKNOWN" ELSE "BINDING_UNKNOWN"
  <2>1. Record(t, status, {})
    BY <1>4 DEF Unknown
  <2>2. /\ status \in Status /\ status \notin Acceptable
        /\ status = "EFFECTIVE_UNKNOWN" => ve.mode = "effective"
    BY DEF Status, Acceptable
  <2> HIDE DEF status
  <2> QED BY <1>1, <2>1, <2>2
<1> QED BY <1>2, <1>3, <1>4

\* verify.json is backed when it is written: what was waived is vouched for, and the
\* rest stays as it was.
LEMMA WrittenBacked ==
  ASSUME RemovalAssumption, AnyInv, NumbersFit, VerifyFits, VerifyWrite,
         plan.acls = acls.v
  PROVE  Backed(verified'.results, verified'.vouched)
<1>1. /\ ve.pc = "lookup" /\ Backed(ve.results, ve.vouched)
      /\ \A res \in ve.results :
            /\ [grant |-> res.grant, id |-> res.id] \in Tasks(ve.mode, plan.bindings)
            /\ res.status = "EFFECTIVE_UNKNOWN" => ve.mode = "effective"
  BY DEF VerifyWrite, VerifyFits
<1>2. verified' = [plan |-> ve.hash, results |-> {Downgrade(res) : res \in ve.results},
                   vouched |-> ve.vouched \cup Waived]
  BY DEF VerifyWrite
<1>3. ASSUME NEW res \in ve.results, Downgrade(res).status \in Acceptable
      PROVE  Behind(Downgrade(res).grant, Downgrade(res).id) \subseteq ve.vouched \cup Waived
  <2>1. CASE Downgrade(res) = res
    BY <1>1, <1>3, <2>1 DEF Backed
  <2>2. CASE Downgrade(res) # res
    <3>1. /\ ve.accept /\ res.status = "EFFECTIVE_UNKNOWN"
          /\ Downgrade(res) = [res EXCEPT !.status = "EFFECTIVE_OK"]
      BY <2>2 DEF Downgrade
    <3>2. res \in Results
      BY DEF AnyInv, LocalsTyped
    <3>3. Downgrade(res).grant = res.grant /\ Downgrade(res).id = res.id
      BY <3>1, <3>2 DEF Results
    <3>4. plan.rows = ve.rows
      BY <1>1, <3>1 DEF NumbersFit, VerifyFits
    <3>5. [grant |-> res.grant, id |-> res.id] \in Tasks("effective", plan.bindings)
      BY <1>1, <3>1
    <3>6. res.id \in DOMAIN ve.rows /\ Behind(res.grant, res.id) = {ve.rows[res.id]}
      BY <3>4, <3>5, EffectiveBacked
    <3>7. ve.rows[res.id] \in Waived
      BY <3>1, <3>6 DEF Waived
    <3> QED BY <3>3, <3>6, <3>7
  <2> QED BY <2>1, <2>2
<1> QED BY <1>2, <1>3 DEF Backed

\* What verify holds and has written stays about the plan and acls.json at hand.
LEMMA VerifyStep ==
  ASSUME RemovalAssumption, ~Overlap, AnyInv, OneCommand, NumbersFit, VerifyFits, [Next]_vars
  PROVE  VerifyFits'
<1> USE DEF world, files, count
<1>a. /\ ve \in [pc : {"idle", "check", "hash", "read", "lookup"},
             mode : {"effective", "bindings-exist"}, accept : BOOLEAN, rows : Listing,
             hash : 0..MaxFiles, plan : PlanFile, left : SUBSET Task,
             results : SUBSET Results, vouched : SUBSET Row]
      /\ plan.acls <= acls.v /\ verified.plan <= plan.v
      /\ plan.acls \in Nat /\ acls.v \in Nat /\ verified.plan \in Nat /\ plan.v \in Nat
  BY DEF AnyInv, FilesTyped, LocalsTyped, VersionsPast, PlanFile, VerifyFile, RemovalAssumption
<1>1. ASSUME ve'.pc = "idle",
             verified'.plan = plan'.v /\ plan'.acls = acls'.v
               => Backed(verified.results, verified.vouched)'
      PROVE  VerifyFits'
  BY <1>1 DEF VerifyFits
<1>2. CASE Extract
  <2>1. ve'.pc = "idle" /\ UNCHANGED plan /\ acls'.v = acls.v + 1
    BY <1>2 DEF Extract, MayStart
  <2>2. plan'.acls # acls'.v
    BY <1>a, <2>1
  <2> QED BY <1>1, <2>1, <2>2
<1>3. CASE PlanWrite
  <2>1. ve'.pc = "idle" /\ UNCHANGED verified /\ plan'.v = plan.v + 1
    BY <1>3 DEF PlanWrite, OneCommand
  <2>2. verified'.plan # plan'.v
    BY <1>a, <2>1
  <2> QED BY <1>1, <2>1, <2>2
<1>4. CASE ve' = IdleVerify /\ UNCHANGED <<acls, plan, verified>>
  <2>1. ve'.pc = "idle"
    BY <1>4 DEF IdleVerify
  <2> QED BY <1>1, <1>4, <2>1 DEF VerifyFits, Backed, Behind
<1>5. CASE UNCHANGED <<ve, acls, plan, verified>>
  BY <1>5 DEF VerifyFits, Backed, Behind
<1>6. ASSUME UNCHANGED <<acls, plan, verified>>,
             ve'.pc \in {"check", "hash", "read"}, ve'.results = {},
             ve'.mode = "effective" => ve'.rows = acls.rows,
             ve'.pc = "read" => ve'.hash = plan.v
      PROVE  VerifyFits'
  BY <1>6 DEF VerifyFits, Backed, Behind
<1>7. CASE VerifyStart
  <2>1. PICK mode \in {"effective", "bindings-exist"}, accept \in BOOLEAN :
          ve' = [IdleVerify EXCEPT !.pc = "check", !.mode = mode, !.accept = accept,
                   !.rows = IF mode = "effective" THEN acls.rows ELSE <<>>]
    BY <1>7 DEF VerifyStart
  <2>2. ve'.pc = "check" /\ ve'.results = {} /\ (ve'.mode = "effective" => ve'.rows = acls.rows)
    BY <2>1 DEF IdleVerify
  <2>3. UNCHANGED <<acls, plan, verified>>
    BY <1>7 DEF VerifyStart
  <2> QED BY <1>6, <2>2, <2>3
<1>8. CASE VerifyCheck
  <2>1. CASE ve' = [ve EXCEPT !.pc = "hash"]
    BY <1>6, <1>8, <1>a, <2>1 DEF VerifyCheck, VerifyFits
  <2> QED BY <1>4, <1>8, <2>1 DEF VerifyCheck
<1>9. CASE VerifyHash
  BY <1>6, <1>9, <1>a DEF VerifyHash, VerifyFits
<1>10. CASE VerifyRead
  <2>1. /\ ve' = [ve EXCEPT !.pc = "lookup", !.plan = plan, !.left = Tasks(ve.mode, plan.bindings)]
        /\ ve.pc = "read" /\ UNCHANGED <<acls, plan, verified>>
    BY <1>10 DEF VerifyRead
  <2>2. /\ ve'.pc = "lookup" /\ ve'.plan = plan /\ ve'.left = Tasks(ve.mode, plan.bindings)
        /\ ve'.mode = ve.mode /\ ve'.rows = ve.rows /\ ve'.hash = ve.hash
        /\ ve'.results = ve.results
    BY <1>a, <2>1
  <2>3. ve.results = {} /\ ve.hash = plan.v /\ (ve.mode = "effective" => ve.rows = acls.rows)
    BY <2>1 DEF VerifyFits
  <2>4. verified'.plan = plan'.v /\ plan'.acls = acls'.v
          => Backed(verified.results, verified.vouched)'
    BY <2>1 DEF VerifyFits, Backed, Behind
  <2>5. Backed(ve.results, ve.vouched)'
    BY <2>2, <2>3 DEF Backed
  <2> QED BY <2>1, <2>2, <2>3, <2>4, <2>5 DEF VerifyFits
<1>11. CASE VerifyWrite
  <2>1. UNCHANGED <<acls, plan>> /\ ve' = IdleVerify
    BY <1>11 DEF VerifyWrite
  <2>2. plan'.acls = acls'.v => Backed(verified.results, verified.vouched)'
    <3>1. \A g, id : Behind(g, id)' = Behind(g, id)
      BY <2>1 DEF Behind
    <3> QED BY <1>11, <2>1, <3>1, WrittenBacked DEF Backed
  <2> QED BY <1>1, <2>1, <2>2 DEF IdleVerify
<1>12. ASSUME NEW t \in ve.left, Lookup(t) \/ Exists(t) \/ Unknown(t)
       PROVE  VerifyFits'
  BY <1>12, RecordBacked
<1>13. CASE PlanRead \/ PlanStamp \/ PlanChecksum
  BY <1>5, <1>13 DEF PlanRead, PlanStamp, PlanChecksum
<1>14. CASE \/ DeleteStart \/ DeleteBound \/ DeleteCheck \/ DeleteReadPlan \/ DeleteReadAcls
            \/ DeleteSelect \/ WriteScript \/ WriteRollback
  BY <1>5, <1>14 DEF DeleteStart, DeleteBound, DeleteCheck, DeleteReadPlan, DeleteReadAcls,
                     DeleteSelect, WriteScript, WriteRollback, DeleteGoes
<1>15. CASE \/ RunScript \/ LogRemoved \/ ScriptEnds \/ (\E r \in sc.left : Remove(r))
            \/ AddAcl \/ ChangeMds
  BY <1>5, <1>15 DEF RunScript, LogRemoved, ScriptEnds, Remove, AddAcl, ChangeMds
<1>16. CASE Crash
  BY <1>4, <1>5, <1>16 DEF Crash
<1> QED BY <1>2, <1>3, <1>5, <1>7, <1>8, <1>9, <1>10, <1>11, <1>12, <1>13, <1>14, <1>15, <1>16
        DEF Next, vars

\* What delete-acls picks, verify.json vouches for and the plan binds.
LEMMA SelectedFits ==
  ASSUME RemovalAssumption, AnyInv, NumbersFit, VerifyFits, DeleteFits,
         de.pc = "stamp", plan.acls = acls.v,
         NEW i \in EligibleACLs, i \in DOMAIN de.rows
  PROVE  de.rows[i] \in verified.vouched /\ de.rows[i] \in RowsBound(plan)
<1>1. /\ de.verified = verified /\ verified.plan = plan.v
      /\ de.plan = plan /\ de.rows = acls.rows /\ plan.rows = acls.rows
  BY DEF DeleteFits, NumbersFit
<1>2. Backed(verified.results, verified.vouched)
  BY <1>1 DEF VerifyFits
<1>3. PICK b \in plan.bindings : i \in b.ids /\ Vouched(verified.results, b.grant, i)
  BY <1>1 DEF EligibleACLs
<1>4. de.rows[i] \in RowsBound(plan)
  BY <1>1, <1>3 DEF RowsBound
<1>5. PICK res \in verified.results :
        /\ res.grant = b.grant /\ res.id \in {i, 0}
        /\ res.status \in Acceptable
  BY <1>3 DEF Vouched, ResultsFor
<1>6. plan.rows[i] \in Behind(res.grant, res.id)
  BY <1>3, <1>5 DEF Behind
<1> QED BY <1>1, <1>2, <1>4, <1>5, <1>6 DEF Backed

\* While delete-acls runs, the plan and verify.json are those it read.
LEMMA DeleteStep ==
  ASSUME RemovalAssumption, ~Overlap, AnyInv, OneCommand, NumbersFit, VerifyFits, DeleteFits,
         [Next]_vars
  PROVE  DeleteFits'
<1> USE DEF world, files, count
<1>a. de \in [pc : {"idle", "bound", "check", "read", "acls", "stamp", "script", "rollback"},
              filter : SUBSET Holder, verified : VerifyFile, plan : PlanFile,
              rows : Listing, picked : SUBSET Row]
  BY DEF AnyInv, LocalsTyped
<1>1. ASSUME de'.pc = "idle" PROVE DeleteFits'
  BY <1>1 DEF DeleteFits
<1>2. CASE UNCHANGED <<de, acls, plan, verified>>
  BY <1>2 DEF DeleteFits, RowsBound
<1>3. CASE Extract \/ PlanRead \/ PlanStamp \/ PlanWrite \/ PlanChecksum
  <2>1. UNCHANGED de /\ (UNCHANGED <<acls, plan, verified>> \/ de.pc = "idle")
    BY <1>3 DEF Extract, PlanRead, PlanStamp, PlanWrite, PlanChecksum, MayStart, OneCommand
  <2> QED BY <1>1, <1>2, <2>1
<1>4. CASE \/ VerifyStart \/ VerifyCheck \/ VerifyHash \/ VerifyRead \/ VerifyWrite
           \/ \E t \in ve.left : Lookup(t) \/ Exists(t) \/ Unknown(t)
  <2>1. UNCHANGED de /\ (UNCHANGED <<acls, plan, verified>> \/ de.pc = "idle")
    BY <1>4 DEF VerifyStart, VerifyCheck, VerifyHash, VerifyRead, VerifyWrite,
                Lookup, Exists, Unknown, OneCommand
  <2> QED BY <1>1, <1>2, <2>1
<1>5. CASE DeleteStart
  <2>1. PICK filter \in SUBSET Holder :
          de' = [IdleDelete EXCEPT !.pc = "bound", !.filter = filter, !.verified = verified]
    BY <1>5 DEF DeleteStart
  <2>2. de'.pc = "bound" /\ de'.verified = verified /\ UNCHANGED verified
    BY <1>5, <2>1 DEF DeleteStart, IdleDelete
  <2> QED BY <2>2 DEF DeleteFits
<1>6. CASE DeleteBound
  <2>1. CASE de.verified.plan = plan.v
    <3>1. /\ de'.pc = "check" /\ de'.verified = de.verified
          /\ UNCHANGED <<verified, plan, acls>> /\ de.pc = "bound"
      BY <1>6, <1>a, <2>1 DEF DeleteBound, DeleteGoes
    <3> QED BY <2>1, <3>1 DEF DeleteFits
  <2>2. CASE de.verified.plan # plan.v
    BY <1>1, <1>6, <2>2 DEF DeleteBound, IdleDelete
  <2> QED BY <2>1, <2>2
<1>7. CASE DeleteCheck
  <2>1. CASE ChecksumOk
    <3>1. /\ de'.pc = "read" /\ de'.verified = de.verified
          /\ UNCHANGED <<verified, plan, acls>> /\ de.pc = "check"
      BY <1>7, <1>a, <2>1 DEF DeleteCheck, DeleteGoes
    <3> QED BY <3>1 DEF DeleteFits
  <2>2. CASE ~ChecksumOk
    BY <1>1, <1>7, <2>2 DEF DeleteCheck, IdleDelete
  <2> QED BY <2>1, <2>2
<1>8. CASE DeleteReadPlan
  <2>1. /\ de'.pc = "acls" /\ de'.verified = de.verified /\ de'.plan = plan
        /\ UNCHANGED <<verified, plan, acls>> /\ de.pc = "read"
    BY <1>8, <1>a DEF DeleteReadPlan, DeleteGoes
  <2> QED BY <2>1 DEF DeleteFits
<1>9. CASE DeleteReadAcls
  <2>1. /\ de'.pc = "stamp" /\ de'.verified = de.verified /\ de'.plan = de.plan
        /\ de'.rows = acls.rows
        /\ UNCHANGED <<verified, plan, acls>> /\ de.pc = "acls"
    BY <1>9, <1>a DEF DeleteReadAcls, DeleteGoes
  <2> QED BY <2>1 DEF DeleteFits
<1>10. CASE DeleteSelect
  <2>1. de.pc = "stamp" /\ UNCHANGED <<verified, plan, acls>>
    BY <1>10 DEF DeleteSelect, DeleteGoes
  <2>2. CASE de.plan.acls = acls.v /\ EligibleACLs # {}
    <3> DEFINE picked == {de.rows[i] : i \in EligibleACLs \cap DOMAIN de.rows}
    <3>1. de' = Selected
      BY <1>10, <2>2 DEF DeleteSelect
    <3>2. de'.pc = "script" /\ de'.verified = de.verified /\ de'.picked = picked
      BY <3>1 DEF Selected, IdleDelete
    <3>3. plan.acls = acls.v /\ de.verified = verified /\ verified.plan = plan.v
      BY <2>1, <2>2 DEF DeleteFits
    <3>4. picked \subseteq verified.vouched /\ picked \subseteq RowsBound(plan)
      BY <2>1, <3>3, SelectedFits
    <3>5. RowsBound(plan)' = RowsBound(plan)
      BY <2>1 DEF RowsBound
    <3> HIDE DEF picked
    <3> QED BY <2>1, <3>2, <3>3, <3>4, <3>5 DEF DeleteFits
  <2>3. CASE ~(de.plan.acls = acls.v /\ EligibleACLs # {})
    <3>1. de' = IdleDelete
      BY <1>10, <2>3 DEF DeleteSelect
    <3> QED BY <1>1, <3>1 DEF IdleDelete
  <2> QED BY <2>2, <2>3
<1>11. CASE WriteScript
  <2>1. /\ de'.pc = "rollback" /\ de'.verified = de.verified /\ de'.picked = de.picked
        /\ UNCHANGED <<verified, plan, acls>> /\ de.pc = "script"
    BY <1>11, <1>a DEF WriteScript, DeleteGoes
  <2>2. RowsBound(plan)' = RowsBound(plan)
    BY <2>1 DEF RowsBound
  <2> QED BY <2>1, <2>2 DEF DeleteFits
<1>12. CASE WriteRollback
  BY <1>1, <1>12 DEF WriteRollback, IdleDelete
<1>13. CASE \/ RunScript \/ LogRemoved \/ ScriptEnds \/ (\E r \in sc.left : Remove(r))
            \/ AddAcl \/ ChangeMds
  BY <1>2, <1>13 DEF RunScript, LogRemoved, ScriptEnds, Remove, AddAcl, ChangeMds
<1>14. CASE Crash
  <2>1. UNCHANGED <<acls, plan, verified>> /\ de' \in {de, IdleDelete}
    BY <1>14 DEF Crash
  <2> QED BY <1>1, <1>2, <2>1 DEF IdleDelete
<1> QED BY <1>2, <1>3, <1>4, <1>5, <1>6, <1>7, <1>8, <1>9, <1>10, <1>11, <1>12, <1>13, <1>14
        DEF Next, vars

\* The script is written from rows vouched for and bound, and a plan written later has
\* another version.
LEMMA ScriptStep ==
  ASSUME RemovalAssumption, AnyInv, DeleteFits, ScriptFits, [Next]_vars
  PROVE  ScriptFits'
<1> USE DEF world, files, count
<1>a. script.plan <= plan.v /\ script.plan \in Nat /\ plan.v \in Nat
  BY DEF AnyInv, FilesTyped, VersionsPast, PlanFile, ScriptFile, RemovalAssumption
<1>1. CASE PlanWrite
  <2>1. UNCHANGED script /\ plan'.v = plan.v + 1
    BY <1>1 DEF PlanWrite
  <2>2. script'.plan # plan'.v
    BY <1>a, <2>1
  <2> QED BY <2>1, <2>2 DEF ScriptFits, ScriptedIsVouched
<1>2. CASE WriteScript
  <2>1. /\ script' = [plan |-> plan.v, rows |-> de.picked, vouched |-> de.verified.vouched]
        /\ UNCHANGED plan /\ de.pc = "script"
    BY <1>2 DEF WriteScript, DeleteGoes
  <2>2. de.picked \subseteq de.verified.vouched /\ de.picked \subseteq RowsBound(plan)
    BY <2>1 DEF DeleteFits
  <2> QED BY <2>1, <2>2 DEF ScriptFits, ScriptedIsVouched, RowsBound
<1>3. CASE UNCHANGED <<script, plan>>
  BY <1>3 DEF ScriptFits, ScriptedIsVouched, RowsBound
<1>4. CASE Extract \/ PlanRead \/ PlanStamp \/ PlanChecksum
  BY <1>3, <1>4 DEF Extract, PlanRead, PlanStamp, PlanChecksum
<1>5. CASE \/ VerifyStart \/ VerifyCheck \/ VerifyHash \/ VerifyRead \/ VerifyWrite
           \/ \E t \in ve.left : Lookup(t) \/ Exists(t) \/ Unknown(t)
  BY <1>3, <1>5 DEF VerifyStart, VerifyCheck, VerifyHash, VerifyRead, VerifyWrite,
                    Lookup, Exists, Unknown
<1>6. CASE \/ DeleteStart \/ DeleteBound \/ DeleteCheck \/ DeleteReadPlan \/ DeleteReadAcls
           \/ DeleteSelect \/ WriteRollback
  BY <1>3, <1>6 DEF DeleteStart, DeleteBound, DeleteCheck, DeleteReadPlan, DeleteReadAcls,
                    DeleteSelect, WriteRollback, DeleteGoes, Keeps
<1>7. CASE \/ RunScript \/ LogRemoved \/ ScriptEnds \/ (\E r \in sc.left : Remove(r))
           \/ Crash \/ AddAcl \/ ChangeMds
  BY <1>3, <1>7 DEF RunScript, LogRemoved, ScriptEnds, Remove, Crash, AddAcl, ChangeMds
<1> QED BY <1>1, <1>2, <1>3, <1>4, <1>5, <1>6, <1>7 DEF Next, vars

\* The invariant of a run directory that one command at a time works in, whatever the
\* operator runs in which order and whatever others do to Kafka and the MDS.
THEOREM RemovalInvariant ==
  ASSUME RemovalAssumption, ~Overlap PROVE Spec => []RemovalInv
<1>1. Init => RemovalInv
  <2> SUFFICES ASSUME Init PROVE RemovalInv
    OBVIOUS
  <2>1. AnyInv
    BY AnyInvInit
  <2>2. /\ pl.pc = "idle" /\ ve.pc = "idle" /\ de.pc = "idle"
        /\ plan.acls = 0 /\ acls.v = 1
        /\ verified.results = {} /\ script.rows = {}
    BY DEF Init, IdlePlan, IdleVerify, IdleDelete, NoPlan, NoVerify, NoScript, NoFile
  <2> QED BY <2>1, <2>2 DEF RemovalInv, OneCommand, NumbersFit, VerifyFits, DeleteFits,
                            ScriptFits, ScriptedIsVouched, Backed
<1>2. RemovalInv /\ AnyInv' /\ [Next]_vars => RemovalInv'
  BY OneCommandStep, NumbersStep, VerifyStep, DeleteStep, ScriptStep DEF RemovalInv
<1> QED BY <1>1, <1>2, AnyInvariant, PTL DEF Spec

\* No row is scripted for deletion that verify, or the operator, has not vouched for,
\* as long as one command at a time runs on the directory.
THEOREM ScriptedIsVouchedHolds ==
  ASSUME RemovalAssumption, ~Overlap PROVE Spec => []ScriptedIsVouched
<1>1. RemovalInv => ScriptedIsVouched
  BY DEF RemovalInv, ScriptFits
<1> QED BY <1>1, RemovalInvariant, PTL

\* A script that would run removes only rows which the plan at hand binds, as long as
\* one command at a time runs on the directory.
THEOREM ScriptFollowsPlanHolds ==
  ASSUME RemovalAssumption, ~Overlap PROVE Spec => []ScriptFollowsPlan
<1>1. RemovalInv => ScriptFollowsPlan
  BY DEF RemovalInv, ScriptFits, ScriptFollowsPlan
<1> QED BY <1>1, RemovalInvariant, PTL
=============================================================================
