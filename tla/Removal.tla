------------------------------- MODULE Removal -------------------------------
(***************************************************************************)
(* From acls.json to deleted ACLs: `extract`, `plan`, `verify` and         *)
(* `delete-acls` as they meet in the run directory, the script the last    *)
(* one writes, and what other people do to Kafka and to the MDS meanwhile. *)
(* Every read, write and hash of a file is a step; a command may die       *)
(* between any two.                                                        *)
(*                                                                         *)
(* acls.json and plan.json carry the time they were generated, so their    *)
(* bytes and hashes are told apart by a version number.  acls.json numbers *)
(* its rows; plan.json and verify.json speak of rows by that number only.  *)
(* What the planner makes of a set of rows is a constant here: see Planner.*)
(***************************************************************************)
EXTENDS Naturals, Sequences, FiniteSets, Functions

CONSTANTS
  Row,          \* ACL rows
  Grant,        \* role bindings: principal, role, scope and pattern
  Holder,       \* the (mapped) principals
  HolderOf,     \* the principal of each grant,
  Owner,        \*   and the one each row is about once it is mapped
  Covers,       \* <<g, r>>: the role of g allows the operation of r on its resource
  PlanOf,       \* what plan makes of a set of rows: a set of [grant, source]
  Overlap,      \* may commands run at the same time on the run directory?
  MaxFiles,     \* bound: versions of acls.json, and of plan.json
  MaxVerifies,  \* bound: invocations of verify
  MaxDeletes    \* bound: invocations of delete-acls

Binding == [grant : Grant, source : SUBSET Row]

ASSUME RemovalAssumption ==
  /\ HolderOf \in [Grant -> Holder]
  /\ Owner \in [Row -> Holder]
  /\ Covers \subseteq Grant \X Row
  /\ PlanOf \in [SUBSET Row -> SUBSET Binding]
  /\ \A rows \in SUBSET Row : \A b \in PlanOf[rows] :
       b.source \subseteq rows /\ \A r \in b.source : Owner[r] = HolderOf[b.grant]
  /\ IsFiniteSet(Row)
  /\ Overlap \in BOOLEAN
  /\ MaxFiles \in Nat \ {0} /\ MaxVerifies \in Nat /\ MaxDeletes \in Nat

VARIABLES
  kafka,        \* the ACLs in Kafka
  mds,          \* the role bindings in the MDS
  acls,         \* acls.json: [v, rows]
  plan,         \* plan.json: [v, acls, bindings], a binding being [grant, ids]; rows is
                \*   history: what the numbers in it stand for
  planSum,      \* plan.json.sha256
  verified,     \* verify.json: [plan, results, vouched]
  script,       \* delete-acls.sh: [plan, rows, vouched]
  rollback,     \* the rows rollback.sh adds
  log,          \* the rows delete.log has an OK for
  pl, ve, de, sc,     \* the commands' local variables; pc is "idle" when not running
  verifies, deletes,  \* invocations so far
  removed       \* history: the rows scripts have removed

files == <<acls, plan, planSum, verified, script, rollback, log>>
world == <<kafka, mds>>
count == <<verifies, deletes>>
vars  == <<world, files, pl, ve, de, sc, count, removed>>

NoFile   == 0
NoAcls   == [v |-> NoFile, rows |-> <<>>]
NoPlan   == [v |-> NoFile, acls |-> NoFile, bindings |-> {}, rows |-> <<>>]
NoVerify == [plan |-> NoFile, results |-> {}, vouched |-> {}]
NoScript == [plan |-> NoFile, rows |-> {}, vouched |-> {}]

IdlePlan   == [pc |-> "idle", read |-> NoAcls, stamp |-> NoFile]
IdleVerify == [pc |-> "idle", mode |-> "effective", accept |-> FALSE, rows |-> <<>>,
               hash |-> NoFile, plan |-> NoPlan, left |-> {}, results |-> {}, vouched |-> {}]
IdleDelete == [pc |-> "idle", filter |-> {}, verified |-> NoVerify, plan |-> NoPlan,
               rows |-> <<>>, picked |-> {}]
IdleScript == [pc |-> "idle", left |-> {}, done |-> {}]

Status == {"EFFECTIVE_OK", "EFFECTIVE_MISSING", "EFFECTIVE_UNKNOWN",
           "BINDING_EXISTS", "BINDING_MISSING", "BINDING_UNKNOWN"}

\* Types, and that what the commands hold comes from files there have been.
TypeOK ==
  /\ kafka \subseteq Row /\ mds \subseteq Grant
  /\ acls.v \in 1..MaxFiles /\ acls.rows \in Seq(Row)
  /\ plan.v \in 0..MaxFiles /\ planSum \in 0..MaxFiles /\ plan.acls \in 0..acls.v
  /\ \A b \in plan.bindings : b.grant \in Grant /\ b.ids \subseteq 1..Cardinality(Row)
  /\ verified.plan \in 0..plan.v /\ script.plan \in 0..plan.v
  /\ \A res \in verified.results :
       res.grant \in Grant /\ res.id \in 0..Cardinality(Row) /\ res.status \in Status
  /\ script.rows \subseteq Row /\ rollback \subseteq Row
  /\ log \subseteq Row /\ removed \subseteq Row
  /\ pl.pc \in {"idle", "stamp", "write", "sum"}
  /\ ve.pc \in {"idle", "check", "hash", "read", "lookup"}
  /\ de.pc \in {"idle", "bound", "check", "read", "acls", "stamp", "script", "rollback"}
  /\ sc.pc \in {"idle", "next", "log"}

\* The rows of the cluster in any order: the order of `extract` is its source's.
Numberings(rows) == Bijection(1..Cardinality(rows), rows)

Init ==
  /\ kafka \in SUBSET Row /\ mds \in SUBSET Grant
  /\ \E s \in Numberings(kafka) : acls = [v |-> 1, rows |-> s]
  /\ plan = NoPlan /\ planSum = NoFile
  /\ verified = NoVerify /\ script = NoScript /\ rollback = {} /\ log = {}
  /\ pl = IdlePlan /\ ve = IdleVerify /\ de = IdleDelete /\ sc = IdleScript
  /\ verifies = 0 /\ deletes = 0
  /\ removed = {}

-----------------------------------------------------------------------------
(* extract, plan *)

\* None of these commands takes the lock (README.md:746): whether they overlap is up
\* to the operator.  The script may run at any time.
MayStart == Overlap \/ (pl.pc = "idle" /\ ve.pc = "idle" /\ de.pc = "idle")

Extract ==
  /\ MayStart
  /\ acls.v < MaxFiles
  /\ \E s \in Numberings(kafka) : acls' = [v |-> acls.v + 1, rows |-> s]
  /\ UNCHANGED <<world, plan, planSum, verified, script, rollback, log, pl, ve, de, sc, count, removed>>

PlanRead ==
  /\ pl.pc = "idle" /\ MayStart
  /\ plan.v < MaxFiles
  /\ pl' = [pl EXCEPT !.pc = "stamp", !.read = acls]
  /\ UNCHANGED <<world, files, ve, de, sc, count, removed>>

\* The plan is stamped with the hash of acls.json, read once more.
PlanStamp ==
  /\ pl.pc = "stamp"
  /\ pl' = [pl EXCEPT !.pc = "write", !.stamp = acls.v]
  /\ UNCHANGED <<world, files, ve, de, sc, count, removed>>

\* Mutant: rows are numbered from 0.
NumberedFromZero(b, rows) ==
  [grant |-> b.grant, ids |-> {i - 1 : i \in {j \in DOMAIN rows : rows[j] \in b.source}}]

Numbered(b, rows) ==
  [grant |-> b.grant, ids |-> {i \in DOMAIN rows : rows[i] \in b.source}]

PlanWrite ==
  /\ pl.pc = "write"
  /\ plan' = [v |-> plan.v + 1, acls |-> pl.stamp, rows |-> pl.read.rows,
              bindings |-> {Numbered(b, pl.read.rows) : b \in PlanOf[Range(pl.read.rows)]}]
  /\ pl' = [IdlePlan EXCEPT !.pc = "sum"]
  /\ UNCHANGED <<world, acls, planSum, verified, script, rollback, log, ve, de, sc, count, removed>>

\* WriteChecksum hashes the file, not what was written.
PlanChecksum ==
  /\ pl.pc = "sum"
  /\ planSum' = plan.v
  /\ pl' = IdlePlan
  /\ UNCHANGED <<world, acls, plan, verified, script, rollback, log, ve, de, sc, count, removed>>

\* VerifyChecksum
ChecksumOk == plan # NoPlan /\ planSum = plan.v

-----------------------------------------------------------------------------
(* verify *)

\* acls.json is read for the operations and resources of the rows, whether or not
\* the plan was made from it.
VerifyStart ==
  /\ ve.pc = "idle" /\ MayStart /\ verifies < MaxVerifies
  /\ \E mode \in {"effective", "bindings-exist"}, accept \in BOOLEAN :
       ve' = [IdleVerify EXCEPT !.pc = "check", !.mode = mode, !.accept = accept,
                !.rows = IF mode = "effective" THEN acls.rows ELSE <<>>]
  /\ verifies' = verifies + 1
  /\ UNCHANGED <<world, files, pl, de, sc, deletes, removed>>

VerifyCheck ==
  /\ ve.pc = "check"
  /\ ve' = IF ChecksumOk THEN [ve EXCEPT !.pc = "hash"] ELSE IdleVerify
  /\ UNCHANGED <<world, files, pl, de, sc, count, removed>>

VerifyHash ==
  /\ ve.pc = "hash"
  /\ ve' = [ve EXCEPT !.pc = "read", !.hash = plan.v]
  /\ UNCHANGED <<world, files, pl, de, sc, count, removed>>

Tasks(mode, bindings) ==
  IF mode = "effective"
    THEN UNION {{[grant |-> b.grant, id |-> i] : i \in b.ids} : b \in bindings}
    ELSE {[grant |-> b.grant, id |-> 0] : b \in bindings}

VerifyRead ==
  /\ ve.pc = "read"
  /\ ve' = [ve EXCEPT !.pc = "lookup", !.plan = plan, !.left = Tasks(ve.mode, plan.bindings)]
  /\ UNCHANGED <<world, files, pl, de, sc, count, removed>>

\* LookupAllowed: some binding of the same principal covers the row.
Allowed(holder, r) == \E g \in mds : HolderOf[g] = holder /\ <<g, r>> \in Covers

Result(t, status) == [grant |-> t.grant, id |-> t.id, status |-> status]

Record(t, status, rows) ==
  ve' = [ve EXCEPT !.left = @ \ {t}, !.results = @ \cup {Result(t, status)},
                   !.vouched = @ \cup rows]

\* One goroutine's question to the MDS, answered.
Lookup(t) ==
  /\ ve.pc = "lookup" /\ t \in ve.left /\ ve.mode = "effective"
  /\ t.id \in DOMAIN ve.rows
  /\ LET r == ve.rows[t.id]
     IN  IF Allowed(HolderOf[t.grant], r)
           THEN Record(t, "EFFECTIVE_OK", IF Owner[r] = HolderOf[t.grant] THEN {r} ELSE {})
           ELSE Record(t, "EFFECTIVE_MISSING", {})
  /\ UNCHANGED <<world, files, pl, de, sc, count, removed>>

Exists(t) ==
  /\ ve.pc = "lookup" /\ t \in ve.left /\ ve.mode = "bindings-exist"
  /\ IF t.grant \in mds
       THEN Record(t, "BINDING_EXISTS",
              UNION {{ve.plan.rows[i] : i \in b.ids} :
                       b \in {x \in ve.plan.bindings : x.grant = t.grant}})
       ELSE Record(t, "BINDING_MISSING", {})
  /\ UNCHANGED <<world, files, pl, de, sc, count, removed>>

\* Not answered, or asked about a number acls.json does not have.
Unknown(t) ==
  /\ ve.pc = "lookup" /\ t \in ve.left
  /\ Record(t, IF ve.mode = "effective" THEN "EFFECTIVE_UNKNOWN" ELSE "BINDING_UNKNOWN", {})
  /\ UNCHANGED <<world, files, pl, de, sc, count, removed>>

\* Mutant: --accept-unknown-verify accepts what is missing, too.
DowngradeAll(res) ==
  IF ve.accept THEN [res EXCEPT !.status = "EFFECTIVE_OK"] ELSE res

Downgrade(res) ==
  IF ve.accept /\ res.status = "EFFECTIVE_UNKNOWN"
    THEN [res EXCEPT !.status = "EFFECTIVE_OK"] ELSE res

\* The rows the operator vouches for with --accept-unknown-verify.
Waived ==
  IF ~ve.accept THEN {}
  ELSE {ve.rows[res.id] : res \in {x \in ve.results :
          x.status = "EFFECTIVE_UNKNOWN" /\ x.id \in DOMAIN ve.rows}}

VerifyWrite ==
  /\ ve.pc = "lookup" /\ ve.left = {}
  /\ verified' = [plan |-> ve.hash, results |-> {Downgrade(res) : res \in ve.results},
                  vouched |-> ve.vouched \cup Waived]
  /\ ve' = IdleVerify
  /\ UNCHANGED <<world, acls, plan, planSum, script, rollback, log, pl, de, sc, count, removed>>

-----------------------------------------------------------------------------
(* delete-acls *)

\* verify.json is read whole; the filter is empty for every principal.
DeleteStart ==
  /\ de.pc = "idle" /\ MayStart /\ deletes < MaxDeletes
  /\ verified # NoVerify
  /\ \E filter \in SUBSET Holder :
       de' = [IdleDelete EXCEPT !.pc = "bound", !.filter = filter, !.verified = verified]
  /\ deletes' = deletes + 1
  /\ UNCHANGED <<world, files, pl, ve, sc, verifies, removed>>

DeleteGoes(from, to) ==
  /\ de.pc = from
  /\ UNCHANGED <<world, acls, plan, planSum, verified, log, pl, ve, sc, count, removed>>

Keeps == UNCHANGED <<script, rollback>>

\* Mutant: any verify.json will do.
DeleteUnbound ==
  /\ DeleteGoes("bound", "check") /\ Keeps
  /\ de' = [de EXCEPT !.pc = "check"]

\* checkVerifyBoundToPlan
DeleteBound ==
  /\ DeleteGoes("bound", "check") /\ Keeps
  /\ de' = IF de.verified.plan = plan.v THEN [de EXCEPT !.pc = "check"] ELSE IdleDelete

DeleteCheck ==
  /\ DeleteGoes("check", "read") /\ Keeps
  /\ de' = IF ChecksumOk THEN [de EXCEPT !.pc = "read"] ELSE IdleDelete

DeleteReadPlan ==
  /\ DeleteGoes("read", "acls") /\ Keeps
  /\ de' = [de EXCEPT !.pc = "acls", !.plan = plan]

DeleteReadAcls ==
  /\ DeleteGoes("acls", "stamp") /\ Keeps
  /\ de' = [de EXCEPT !.pc = "stamp", !.rows = acls.rows]

Acceptable == {"EFFECTIVE_OK", "BINDING_EXISTS"}

\* Mutant: an acceptable result of the binding is enough for each of its rows.
AnyResult(results, g, id) ==
  \E res \in results : res.grant = g /\ res.status \in Acceptable

ResultsFor(results, g, id) == {res \in results : res.grant = g /\ res.id = id}

\* The results for the pair or, if there are none, for the binding; one that is not
\* acceptable wins.
Vouched(results, g, id) ==
  LET own  == ResultsFor(results, g, id)
      used == IF own # {} THEN own ELSE ResultsFor(results, g, 0)
  IN  used # {} /\ \A res \in used : res.status \in Acceptable

EligibleACLs ==
  UNION {{i \in b.ids : Vouched(de.verified.results, b.grant, i)} :
           b \in {x \in de.plan.bindings : de.filter = {} \/ HolderOf[x.grant] \in de.filter}}

\* Nothing else is used any more.
Selected == [IdleDelete EXCEPT !.pc = "script", !.verified = de.verified,
                               !.picked = {de.rows[i] : i \in EligibleACLs \cap DOMAIN de.rows}]

\* Mutant: acls.json is not compared with the plan's stamp.
SelectAnyway ==
  /\ DeleteGoes("stamp", "script") /\ Keeps
  /\ de' = IF EligibleACLs # {} THEN Selected ELSE IdleDelete

\* VerifyACLsSHA; no eligible row is an error; deleted-acls.json is written.
DeleteSelect ==
  /\ DeleteGoes("stamp", "script") /\ Keeps
  /\ de' = IF de.plan.acls = acls.v /\ EligibleACLs # {}
             THEN Selected ELSE IdleDelete

\* The header carries the hash plan.json has by now.
WriteScript ==
  /\ DeleteGoes("script", "rollback")
  /\ script' = [plan |-> plan.v, rows |-> de.picked, vouched |-> de.verified.vouched]
  /\ de' = [de EXCEPT !.pc = "rollback"]
  /\ UNCHANGED rollback

WriteRollback ==
  /\ DeleteGoes("rollback", "idle")
  /\ rollback' = de.picked
  /\ de' = IdleDelete
  /\ UNCHANGED script

-----------------------------------------------------------------------------
(* delete-acls.sh *)

RunScript ==
  /\ sc.pc = "idle" /\ script # NoScript
  /\ script.plan = plan.v
  /\ sc' = [sc EXCEPT !.pc = "next", !.left = script.rows]
  /\ UNCHANGED <<world, files, pl, ve, de, count, removed>>

\* Mutant: nobody looks at the exit status of kafka-acls.
RemoveUnchecked(r) ==
  /\ sc.pc = "next" /\ r \in sc.left
  /\ sc' = [pc |-> "log", left |-> sc.left \ {r}, done |-> {r}]
  /\ UNCHANGED <<world, files, pl, ve, de, count, removed>>

\* kafka-acls --remove succeeds, for a row that is no longer there too.
Remove(r) ==
  /\ sc.pc = "next" /\ r \in sc.left
  /\ kafka' = kafka \ {r}
  /\ removed' = removed \cup {r}
  /\ sc' = [pc |-> "log", left |-> sc.left \ {r}, done |-> {r}]
  /\ UNCHANGED <<mds, files, pl, ve, de, count>>

LogRemoved ==
  /\ sc.pc = "log"
  /\ log' = log \cup sc.done
  /\ sc' = [sc EXCEPT !.pc = "next", !.done = {}]
  /\ UNCHANGED <<world, acls, plan, planSum, verified, script, rollback, pl, ve, de, count, removed>>

\* The last row is done, or a removal fails: FAIL is logged and the script exits.
ScriptEnds ==
  /\ sc.pc = "next"
  /\ sc' = IdleScript
  /\ UNCHANGED <<world, files, pl, ve, de, count, removed>>

-----------------------------------------------------------------------------
(* Around the commands *)

\* A command is killed, or fails on a file.
Crash ==
  /\ \/ pl.pc # "idle" /\ pl' = IdlePlan /\ UNCHANGED <<ve, de, sc>>
     \/ ve.pc # "idle" /\ ve' = IdleVerify /\ UNCHANGED <<pl, de, sc>>
     \/ de.pc # "idle" /\ de' = IdleDelete /\ UNCHANGED <<pl, ve, sc>>
     \/ sc.pc # "idle" /\ sc' = IdleScript /\ UNCHANGED <<pl, ve, de>>
  /\ UNCHANGED <<world, files, count, removed>>

\* Somebody adds an ACL to Kafka; `apply`, or somebody else, changes the MDS.
AddAcl ==
  /\ \E r \in Row \ kafka : kafka' = kafka \cup {r}
  /\ UNCHANGED <<mds, files, pl, ve, de, sc, count, removed>>

ChangeMds ==
  /\ \E g \in Grant : mds' \in {mds \cup {g}, mds \ {g}} \ {mds}
  /\ UNCHANGED <<kafka, files, pl, ve, de, sc, count, removed>>

Next ==
  \/ Extract
  \/ PlanRead \/ PlanStamp \/ PlanWrite \/ PlanChecksum
  \/ VerifyStart \/ VerifyCheck \/ VerifyHash \/ VerifyRead \/ VerifyWrite
  \/ \E t \in ve.left : Lookup(t) \/ Exists(t) \/ Unknown(t)
  \/ DeleteStart \/ DeleteBound \/ DeleteCheck \/ DeleteReadPlan \/ DeleteReadAcls
  \/ DeleteSelect \/ WriteScript \/ WriteRollback
  \/ RunScript \/ LogRemoved \/ ScriptEnds
  \/ \E r \in sc.left : Remove(r)
  \/ Crash
  \/ AddAcl
  \/ ChangeMds

Spec == Init /\ [][Next]_vars

-----------------------------------------------------------------------------
(* Properties *)

\* README.md:747 and verify.go: no ACL is scripted for deletion unless the verify
\* run the script rests on found the access of that very row, or a binding of it,
\* in the MDS, or the operator accepted not to know.  A verify.json of another plan,
\* another acls.json and another row of the same binding do not count.
ScriptedIsVouched == script.rows \subseteq script.vouched

RowsBound(p) == UNION {{p.rows[i] : i \in b.ids} : b \in p.bindings}

\* A script whose guard would let it run removes only rows that the plan in the run
\* directory binds.
ScriptFollowsPlan ==
  script # NoScript /\ script.plan = plan.v => script.rows \subseteq RowsBound(plan)

\* README.md:804: delete.log says OK of a row only once it has been removed, even if
\* the script is killed in between.
LogIsTruthful == log \subseteq removed

-----------------------------------------------------------------------------
(* The inductive strengthening of the four invariants *)

\* The files and the local variables field by field.
Number  == 1..Cardinality(Row)
Listing == {s \in Seq(Row) : Len(s) <= Cardinality(Row)}
Task    == [grant : Grant, id : {0} \cup Number]
Results == [grant : Grant, id : {0} \cup Number, status : Status]
PlanFile ==
  [v : 0..MaxFiles, acls : 0..MaxFiles, bindings : SUBSET [grant : Grant, ids : SUBSET Number],
   rows : Listing]
VerifyFile == [plan : 0..MaxFiles, results : SUBSET Results, vouched : SUBSET Row]
ScriptFile == [plan : 0..MaxFiles, rows : SUBSET Row, vouched : SUBSET Row]

FilesTyped ==
  /\ kafka \subseteq Row /\ mds \subseteq Grant
  /\ acls \in [v : 1..MaxFiles, rows : Listing]
  /\ plan \in PlanFile /\ planSum \in 0..MaxFiles
  /\ verified \in VerifyFile /\ script \in ScriptFile
  /\ rollback \subseteq Row /\ log \subseteq Row /\ removed \subseteq Row

LocalsTyped ==
  /\ pl \in [pc : {"idle", "stamp", "write", "sum"},
             read : [v : 0..MaxFiles, rows : Listing], stamp : 0..MaxFiles]
  /\ ve \in [pc : {"idle", "check", "hash", "read", "lookup"},
             mode : {"effective", "bindings-exist"}, accept : BOOLEAN, rows : Listing,
             hash : 0..MaxFiles, plan : PlanFile, left : SUBSET Task,
             results : SUBSET Results, vouched : SUBSET Row]
  /\ de \in [pc : {"idle", "bound", "check", "read", "acls", "stamp", "script", "rollback"},
             filter : SUBSET Holder, verified : VerifyFile, plan : PlanFile,
             rows : Listing, picked : SUBSET Row]
  /\ sc \in [pc : {"idle", "next", "log"}, left : SUBSET Row, done : SUBSET Row]

\* What speaks of a version speaks of one there has been.
VersionsPast ==
  /\ plan.acls <= acls.v /\ pl.stamp <= acls.v
  /\ verified.plan <= plan.v /\ ve.hash <= plan.v /\ script.plan <= plan.v
  /\ pl.pc \in {"stamp", "write"} => plan.v < MaxFiles

\* The numbers of a binding are those of rows of its own principal.
OwnRows(p) ==
  \A b \in p.bindings : \A i \in b.ids :
    i \in DOMAIN p.rows /\ Owner[p.rows[i]] = HolderOf[b.grant]

Logged == sc.done \subseteq removed /\ LogIsTruthful

\* This much holds however the commands overlap.
AnyInv ==
  /\ FilesTyped /\ LocalsTyped /\ VersionsPast
  /\ OwnRows(plan) /\ OwnRows(ve.plan)
  /\ Logged

\* One command at a time runs on the directory ...
OneCommand ==
  \/ pl.pc = "idle" /\ ve.pc = "idle"
  \/ pl.pc = "idle" /\ de.pc = "idle"
  \/ ve.pc = "idle" /\ de.pc = "idle"

\* ... so a plan that is stamped with the acls.json at hand numbers its rows.
NumbersFit ==
  /\ pl.pc \in {"stamp", "write"} => pl.read = acls
  /\ pl.pc = "write" => pl.stamp = acls.v
  /\ plan.acls = acls.v => plan.rows = acls.rows

\* The rows a result is about: the one it names, or all of its binding.
Behind(g, id) ==
  IF id = 0 THEN UNION {{plan.rows[i] : i \in b.ids} : b \in {x \in plan.bindings : x.grant = g}}
            ELSE {plan.rows[id]}

Backed(results, rows) ==
  \A res \in results : res.status \in Acceptable => Behind(res.grant, res.id) \subseteq rows

\* As long as plan and acls.json are those verify found, an acceptable result stands
\* for rows it vouched for.
VerifyFits ==
  /\ ve.pc # "idle" /\ ve.mode = "effective" => ve.rows = acls.rows
  /\ ve.pc \in {"check", "hash", "read"} => ve.results = {}
  /\ ve.pc \in {"read", "lookup"} => ve.hash = plan.v
  /\ ve.pc = "lookup" =>
       /\ ve.plan = plan
       /\ ve.left \subseteq Tasks(ve.mode, plan.bindings)
       /\ \A res \in ve.results :
            /\ [grant |-> res.grant, id |-> res.id] \in Tasks(ve.mode, plan.bindings)
            /\ res.status = "EFFECTIVE_UNKNOWN" => ve.mode = "effective"
       /\ plan.acls = acls.v => Backed(ve.results, ve.vouched)
  /\ verified.plan = plan.v /\ plan.acls = acls.v => Backed(verified.results, verified.vouched)

\* From the moment delete-acls has found verify.json bound to the plan, both stay.
DeleteFits ==
  /\ de.pc # "idle" => de.verified = verified
  /\ de.pc \in {"check", "read", "acls", "stamp", "script", "rollback"} => verified.plan = plan.v
  /\ de.pc \in {"acls", "stamp"} => de.plan = plan
  /\ de.pc = "stamp" => de.rows = acls.rows
  /\ de.pc \in {"script", "rollback"} =>
       de.picked \subseteq verified.vouched /\ de.picked \subseteq RowsBound(plan)

ScriptFits ==
  /\ ScriptedIsVouched
  /\ script.plan = plan.v => script.rows \subseteq RowsBound(plan)

RemovalInv ==
  /\ AnyInv
  /\ OneCommand /\ NumbersFit /\ VerifyFits /\ DeleteFits /\ ScriptFits
=============================================================================
