# A formal model of monedula-acl-rbac

`monedula-acl-rbac` turns Kafka ACLs into Confluent RBAC role bindings.  It works as a
pipeline over a *run directory*:

    extract -> acls.json -> plan -> plan.json (+ .sha256) -> apply  -> MDS, apply.log
                                                          -> verify -> verify.json
                                       delete-acls      -> delete-acls.sh, rollback.sh
                                       delete-deny-acls -> delete-deny-acls.sh, runtime.env

The operator runs the commands by hand or in CI, perhaps days apart, perhaps two at once;
the scripts run later still, while others change Kafka and the MDS (the Confluent Metadata
Service).  What makes the tool hard to test is what lies *between* the steps.  The TLA+
modules here model those steps, the TLC runs check them on small instances, and the
`*Proofs` modules prove the main results for every instance.

Paths below are relative to `src/pkg/aclrbac/` unless they start with `README.md`, which is
the tool's own.

## Inventory

| component | state | operations | what is hard | what makes it correct |
|---|---|---|---|---|
| run-directory lock, `rundir/lockfile.go` | `.lock`: PID, host, token | Acquire, AcquireForceUnlock, Release | each system call is a step other processes run between; owners die | one holder; only the owner, or force, frees it |
| apply, `apply/apply.go` | goroutine per binding, `errCh`, `sem`, `apply.log`, summary | Run | concurrent recording, lost answers, retries, kills, re-runs | the log is true, exit 0 is earned, it ends |
| MDS client, `mds/client.go` | token under `tokenMu` | do, attempt, refreshToken | many requests meet an expired token; a mutex held over the network | no deadlock, no older token, no denial without a refresh |
| planner, `plan/`, `normalize/` | the plan under construction | Run | greedy rules, overlap of patterns, `All` and implied operations | no row lost, no pattern widened, no DENY called safe that hides an Allow row |
| verify, `verify/` | answers so far; verify.json | Run, two modes | four separate reads of three files; partial answers | its verdicts are about the plan it names |
| delete-acls, `delete/acls`, `delete/common` | two scripts, delete.log | Generate; the script | rows are numbers; files change between reads; kills | only rows found allowed are scripted, only rows of the plan removed |
| delete-deny-acls, `delete/deny` | runtime.env, script, log | Generate, RunOne per ACL | hours between the calls; edited plans; live grants | only rows judged safe go, a live grant stops it |
| run-directory files, `rundir/{atomic,checksum,io}.go` | files, temporary files | WriteAtomic, WriteChecksum, VerifyChecksum | results spread over two files; overlapping commands; kills, power losses; Windows | a file is whole or absent; nothing unchecked is vouched for |
| extract, `extract/` | rows so far, counter, log; for text the current resource | nine readers, WriteExtractedSet | drifting formats, implied operations, filters over a changing cluster, several parsers' numbers | nothing invented, nothing lost unlogged, numbers identify rows |
| configuration, exit codes, report, emit, convert, diff, ... | none | | | |

They meet in three places.  *Files*: every command reads what earlier ones wrote and guards
itself with hashes (plan.json against its `.sha256`, verify.json's `plan_sha256`, the plan's
`acls_sha256`, the script's copy of the plan's hash).  Only `apply` takes the lock.  *The
MDS*: apply, verify and `delete-deny-one` share the client.  *Row numbers*: plan.json and
verify.json name rows of acls.json by position only.

`PROJECT.json` lists every component, also those not modelled, and every hazard with its line.

## Modules

| module | models | promise / MC module / proofs |
|---|---|---|
| `RunDirLock` | the `.lock` protocol | `ExclusiveRun`, `MCRunDirLock`, `RunDirLockProofs` |
| `Apply` | apply's goroutines, the MDS as it sees them, kills and re-runs | `AppliedPlan`, `MCApply`, `ApplyProofs` |
| `MdsClient` | requests, retries and token refresh of one client | `MCMdsClient`, `MdsClientProofs` |
| `Acl` | ACL rows, pattern overlap, implied operations, grouping | used by `Planner` and `Deny` |
| `Planner` | `plan.Run` | `MCPlanner`, `PlannerProofs` |
| `Removal` | extract, plan, verify, delete-acls and its script over the files | `MCRemoval`, `RemovalProofs` |
| `Deny` | delete-deny-acls, its script and delete-deny-one | `MCDeny`, `DenyProofs` |
| `ExtractSources` | what each source makes of one item of its input; the rollback lines | used by `Extract` |
| `Extract` | the readers' loops, numbering, validation, the log | `MCExtract`, `ExtractProofs` |
| `RunDirFiles` | the files by which extract, plan, --revalidate, apply and status hand over results | `AtomicFiles`, `MCRunDirFiles`, `RunDirFilesProofs` |

**RunDirLock.**  One action per system call of `acquire` and `Release`.  The lockfile is the
invocation whose `O_EXCL` create made it and whether its body has been written.  What an
invocation concludes from the body (`Verdicts`) is any of the outcomes `parseLock` and
`pidAliveOnHost` can have: a half-written body is nobody's, another host's PID counts as
gone; on the same host either answer may come, since a PID may be in use again, and the signal
that is sent to find out fails for a live process of another user.  `ForcePolicy` says when operators use `--force-unlock`.  The code cannot enforce it,
so it is a constant: *alone* (nobody else runs), *gone* (the process named in the file is
gone, which is what the message asks the operator to make sure of), or *never*.

**Apply.**  A binding is its position in the plan; principal, role and scope are one key,
because the MDS aggregates the patterns of a role under exactly that.  A goroutine goes
through list, send, sent, answered, log, sum, release; `log` and `sum` are the two halves of
`record`.  A POST may be executed and its answer lost, or executed after the client gave up
(`stray`).  `MdsClient` has the client's detail; here a refreshed token is a second round of
attempts.

**MdsClient.**  A worker is one request in `do`.  `Resolve` takes `tokenMu` for as long as
`tokenSource` takes; `Issue` and `Reread` are its answers, `Expire` may happen at any time.
The client is modelled with a token source and without: then a 401 is final at once.  (The
commands always give it one.)

**Acl, Planner.**  Names are model values with a prefix relation, so a pattern is a pair of
type and name and never a string.  Run's loop over groups and the scan over rules are steps;
a plan is a set of entries.  Rules, role definitions, principal mapping and scopes are
constants.  `RulesAssumption` says what `ruleCoveredOps` takes for granted, that the role of
a rule grants the rule's operations; of the properties only `NoGrantLost` depends on it.
The verdicts on DENYs are about Allow *rows*, which is all that `analyzeDenies` is given
(`DenyVerdicts`); what the plan's own bindings grant beside them is another question, and has a
property of its own that fails (`SafeBesideBindings`, below).

**Removal.**  Files are told apart by version numbers, which is what hashes do, since
acls.json and plan.json contain the time they were made.  Every read and write of a file by
plan, verify and delete-acls is a step, `Crash` may come between any two, and the script's
lines are interleaved with everything.  What the planner makes of a set of rows is the
constant `PlanOf`, constrained by what `Planner` shows.  `vouched` (in verify.json and in the
script) and `plan.rows` are history: the rows as such behind the numbers.

**Deny.**  The same files, but here extract, plan and verify are single steps, because the
question is what they do between two calls of the helper.  `EditPlan` and `Revalidate` let
an operator change the verdicts; an edit may also take out the plan's `acls_sha256`, and a plan
without one goes with any acls.json (`VerifyACLsSHA`).  `RemovedWasJudged` is therefore about
rows removed under a stamped plan.  In `Removal` nobody edits, so every plan is stamped there.
`one.live` is what the MDS granted at the time of the re-check.

**ExtractSources, Extract.**  An input is a sequence of items: a line of a listing, a statement
of a script, a record, a YAML document, the answer to one `DescribeACLs`.  Splitting text into
items and fields is left out; what becomes of the words in the fields is not: tables of
spellings (`Upper` is the case folding), the operations `--producer` and `--consumer` imply,
defaults, deprecated fields.  The loops, with what they remember from item to item, are the
steps of `Extract`; for live extract, Kafka's ACLs change between two answers.  At the end
stand references that say what an item states *whatever stands around it*: what kafka-acls would
have granted, or what the code's comments say of the format.  Rows are compared with those.

**RunDirFiles.**  A command is the sequence of files it opens (`Programs`), an access is a step,
and a write is WriteAtomic's own steps.  A hash is the content it is a hash of.  `past` is what
a file may be again after a power loss: WriteAtomic syncs the file and not the directory, so
any content since the last loss.  Without the sync the list would have `Torn` in it.  On Windows
a file that is open is not replaced, and one that cannot be replaced may be removed first.
`checked`, `loose`, `disturbed` and `whole` are history, for the properties only.

## Runs

| run | bounds | states | shows |
|---|---|---|---|
| `lock` | 3 invocations, 2 hosts, force only when alone | 16,000 | mutual exclusion; a live owner keeps its lock; a stale one needs force; `ExclusiveRun` is implemented |
| `lock_force_gone` | force when the named process is gone | violation | two forced acquires hold the lock together |
| `apply` | 3 bindings (one SKIP_EXISTS, two under one key), 2 at a time, 1 retry, 2 runs | 303,775 | log and summary agree, lines are true, exit 0 is earned, it ends, `AppliedPlan` is implemented |
| `planner` | all sets of up to 3 of 26 rows, with and without existing bindings, 7 rules | 166,884 | nothing lost, no pattern widened, DENY verdicts exact as far as Allow rows go |
| `planner_deny_bindings` | the same, no principal mapping | violation | a DENY called safe although a binding of the plan grants what it denies |
| `mds_client` | 3 requests, 1 retry, 2 new tokens; with a token source and without | 2,070,724 | tokens only get newer; no denial without a refresh where one is possible; every request ends |
| `removal` | 2 rows, 2 roles, 2 versions of acls.json and plan.json, 1 verify, 1 delete-acls, one command at a time | 3,434,416 | scripted rows are vouched for and bound by the plan; delete.log is true |
| `removal_overlap` | commands may overlap | violation | verify's verdicts are about other rows than its plan's |
| `deny` | 3 DENYs (prefixed, literal, wildcard), 1 grant, 2 versions, 1 generation | 1,581,584 | under a stamped plan only judged rows go; never a wildcard's, and not under a live grant |
| `deny_all` | one DENY of All | violation | the re-check does not see it |
| `extract` | up to 4 lines, 2 calls, 3 records or documents; 4 ACLs in Kafka, 1 change | 62,189 | nothing invented, nothing lost unlogged, numbers identify rows, rollback lines restore |
| `files` | 2 processes; 3 commands on POSIX, 2 on Windows; 1 edit; 1 kill or power loss | 1,673,942 | `AtomicFiles` is implemented; what is vouched for was written or checked by somebody; a plan has its own extract's inventory |

*Are the bounds enough?*  The lock's hard cases need a holder, a forced acquirer and a third
process.  In apply, two bindings of one key are the smallest aggregated role, a limit of two
makes the third wait, a second run meets what the first left.  Three requests are a holder of
`tokenMu`, one it overtakes and one that waits; the second new token lets a refresh be
overtaken.  For the planner, a DENY, an ALLOW and a third row that joins a group or blocks it
interact; the proofs cover the rest.  Two versions of a file are a stale and a fresh one; with
one verify and one delete-acls every order of them and two plans occurs.

Four lines are a header, an ACL, a header that has drifted and an ACL under it; two calls are
one before and one after; three documents are one of each kind that k8s concatenates.
Calls without `--operation` and calls with two transactional ids, which lose rows (see below),
are among the inputs, and the exception in `NothingLost` (`PassedOver`) is for them alone.  For
`files`, three commands are an extract or an edit's
revalidation, a plan and a reader; on Windows an open is a step more, and two commands are a
writer and a reader.  One loss is enough, since nothing but files outlives it.

*Fairness.*  `Apply!FairSpec` and `MdsClient!FairSpec` assume weak fairness of their progress
actions as a whole: the Go scheduler runs some goroutine that can run, and an HTTP call ends
because the client has a timeout.  Nothing is assumed of kills, refused runs, late requests
or expiring tokens.  `Removal` and `Deny` have safety properties only: a script runs when its
operator likes.

*Deadlock* is not checked in these runs, since all of them may stop: commands end, bounds are
reached.  That nobody is left waiting is checked as `Terminates` and `RequestsEnd` instead.

*Mutants.*  Next to the definitions stand mutated forms, commented "Mutant:", which a plausible
bug would amount to: a mutex not taken, an early return that forgets to unlock, a hash not
compared, an error buffer too small.  Each property is violated by the mutant that
`PROJECT.json` pairs it with, under the very run that it otherwise passes.

## What the violation runs found

1. **Two `--force-unlock` runs** (`lock_force_gone`): `acquire` removes by path what it looked at
   earlier, so the second caller removes the first one's new lock.
2. **A safe DENY beside a binding** (`planner_deny_bindings`): deny.go:14-15 has DENYs judged
   against the bindings too, but `analyzeDenies` is handed none.  A role grants more than the
   Allow row it stands for: with Allow AlterConfigs and Deny Describe the plan binds
   ResourceOwner, which grants Describe, and calls the DENY SAFE_TO_REMOVE.  `delete-deny-one` asks
   the MDS again, so the DENY stays once the plan has been applied.
3. **verify's acls.json** (`removal_overlap`): read first and not compared with the plan's
   `acls_sha256`.  Commands one at a time are safe (`removal`).
4. **DENY of All** (`deny_all`): `PrincipalGrantOverlaps` compares operations by equality; the
   planner's static analysis does not.

Also met while modelling, without a run of its own:

* A principal filter drops hosts: `AllowHosts("*")` (extract/live/filter.go:61) is the literal
  host, not any host as filter.go:12-14 has it, so of a principal's ACLs those for one host vanish
  without a line in the log.  `NothingLost` holds with exactly this exception.
* Release looks at the lock's token and then removes by path (lockfile.go:28-44), so a forced lock
  that gets there in between goes with it, against lockfile.go:24-26.  No force policy of the runs
  lets a force meet an owner that is releasing, unless a live lock was removed before
  (`lock_force_gone`).
* apply.go:195-199 relies on the lock to keep a plan from being regenerated between
  VerifyChecksum and ReadPlan, but plan takes no lock.  `VouchedIsChecked` holds because what
  plan writes counts as checked, and a plan edited under the reader is excepted.
* A second apply posts again what exists: `alreadyHas` wants set equality, but the MDS lists
  the union of a role's patterns (README.md:463).  Harmless, as POSTs are additive.
* A row can be in bindings[] and in unmapped[], when a group needs two roles and one is blocked
  (README.md:741 has "exactly one").
* `refreshToken(c.getToken())` names the token of the moment, not the one that failed, so a
  needless second refresh is possible (mds/client.go:225, 241).
* A plan started between another extract's acls.json and its existing-bindings.json has the
  inventory of an earlier extract; so has one whose extract found no bindings, because the
  old file stays.  `PlanFitsExtract` is about the other cases.
* After a power loss WriteAtomic may give back an earlier file (atomic.go:16-18 calls the content
  durable); two automatic run directories chosen in one second may coincide (rundir.go:65).
* `kafka-acls --add` without `--operation` yields no row and no log line (kafka-acls takes All);
  of several `--transactional-id` under `--producer` one is used (`PassedOver` has these two);
  `--topic=foo` is ignored.
* Sources whose input has no ACL write nothing but fail, as `"acls": null` is not valid: a cluster
  with role bindings only cannot be extracted.  A text listing with an operation the
  representation lacks fails as a whole, while live extract logs the row and goes on.
* The ids in CSV and JSON input are taken as they are, duplicates included.

## Proofs

The proof system checks these theorems for every value of the constants; the only assumptions
are the modules' named ASSUMEs and the ones mentioned.

* `RunDirLockProofs`, with `ForcePolicy # "gone"` where the lock must be held: `TypeCorrect`,
  `LockInvariant`, `MutualExclusionHolds`, `OnlyOwnerFreesLiveLockHolds`,
  `StaleLockNeedsForceHolds`, `ExclusiveSpecHolds`.  Mutual exclusion alone is not inductive:
  `LockInv` adds that whoever created the lockfile and has not ended still finds it there
  (`CreatorOwns`), that nobody owns it before its create (`OwnerCreated`), that only forced
  invocations remove (`RemoverForces`) and that these are alone (`ForcedAlone`).  The
  refinement then maps each step to a step of `ExclusiveRun` or a stutter.
* `ApplyProofs`: `TypeCorrect`, `ApplyInvariant`, `LogMatchesSummaryHolds`,
  `TruthfulLinesHold`, `ExitZeroIsEarnedHolds`, and `PromiseKept`: apply, with kills and
  re-runs, implements `AppliedPlan`.  `ApplyInv` adds that between the halves of
  `record` the log is one line ahead and one goroutine at most is there (`OneLineAhead`), that
  what a goroutine is about to say is backed by the MDS or by `errCh` (`Decided`), that rows
  are written once, at the end (`Rows`), that bindings not yet dispatched have not started, and
  that a binding reported FAILED is in `errCh` until the run ends (`FailuresBuffered`).  The
  refinement needs the last one: the run may only end ok when nothing has failed.
* `MdsClientProofs`: `TypeCorrect`, `ClientInvariant`, `DeniedOnlyAfterRefreshHolds` (of clients
  with a token source), `TokenNeverGoesBackHolds`.  `ClientInv` says that `tokenMu`'s holder is the one worker
  between `tokenSource` and the assignment, and counts resolutions against what each request
  can have seen.
* `PlannerProofs`: `OverlapIsIntersection` (the code's `PatternsOverlap` is exactly that two
  patterns share a name), `PlanInvariant`, `NoRowLostHolds`, `NeverWidenedHolds` (of resource
  patterns; a role may grant more operations), `DenyVerdictsHold` (with respect to Allow rows).
  `PlanInv` adds that the groups still to do and the entries made so far
  hold every row, and that the group under the rules may be converted.  From `RulesAssumption`,
  on top of it: `TypeCorrect`, `NoGrantLostHolds`, `WarnsOnlyUncoverableHolds`.  `GrantInv` adds
  that `remaining` is what no selected rule covers and no rule already passed would (`Scan`), and
  that each grant of a group done with is accounted for (`Settled`).
* `RemovalProofs`: `TypeCorrect` and `LogIsTruthfulHolds` however the commands overlap;
  `ScriptedIsVouchedHolds` and `ScriptFollowsPlanHolds` for one command at a time (`~Overlap`),
  any number of files, rows, roles and crashes.  (`removal_overlap` shows why: overlapping
  commands mix versions.)  The two say nothing of versions, but hold because of
  them: `RemovalInv` relates each command's local copies to the files of the same version.  plan
  and acls.json number the same rows if their hashes agree (`NumbersFit`); an acceptable result
  stands for rows that verify vouched for as long as plan and acls.json are those it found
  (`VerifyFits`); from delete-acls' first gate to its scripts both stay (`DeleteFits`); and a
  script of the current plan has rows bound by it (`ScriptFits`).
* `DenyProofs`: `TypeCorrect`, `DenyInvariant`, `RemovedWasJudgedHolds`, `NeverWildcardHolds`,
  `RecheckSeesOperationHolds`.  `DenyInv` adds that the rows plan.json calls safe have been
  judged as long as it is about the acls.json there is (`SafeWasJudged`; an editor may rewrite
  the verdicts at any time), that the row the helper has in hand is one of them and has a
  definite principal (`RowInHand`; that it has been judged, if the plan is stamped), and that the
  lookup saw no grant that overlaps it (`Unseen`).  `RemovedWasJudged` and `NeverWildcard` are about the step by
  which a row leaves Kafka, which is the helper's and takes the row in hand (`RemovedInHand`).
* `RunDirFilesProofs`: all five properties of the run `files`, from three invariants, each on top
  of the one before.  `FilesInv`: a command is somewhere in its program and what it has read is
  of use to it; this gives `TypeCorrect` and the refinement `AtomicSpecHolds`.  `StampInv`
  (`StampInvariant`): a checksum, also one that a power loss may bring back, is of a plan that was
  checked or stamped under an edit (`SumsKnown`), and a command nobody has interfered with has
  read what is there *now* (`UpToDate`), which is why hashing plan.json after writing it is as good
  as hashing what was written; this gives `VouchedIsCheckedHolds` and `UsableOnceStampedHolds`.
  `FitInv`: numbers of commands are new (`Numbered`), and an extract under way has left nothing
  that an undisturbed plan could have found (`Apart`); this gives `PlanFitsExtractHolds`.
* `ExtractProofs`: all six properties of the run `extract`, for inputs of any length in any words,
  any filters and any ACLs that come and go: `TypeCorrect`, `ExtractInvariant`,
  `NothingInventedHolds`, `NothingLostHolds`, `IdsIdentifyHolds`, `LiveRowsDifferHolds`,
  `RollbackRestoresHolds`.  The properties are about acls.json at the end, and `ExtractInv` says
  what is true on the way: each row goes back to an item already read, or to an ACL that was in
  Kafka (`Stated`); for the text listing, the current resource is that of the nearest header, or of
  none if something like a header came after it (`UnderResource`), without which `Stated` is not
  inductive; the counter is one ahead of the rows (`Counted`); acls.json has all rows or none
  (`AllOrNothing`).  `KeptInv`, on top of it, has what became of each item behind the reader
  (`AllKept`, `AllDescribed`) and gives `NothingLost`.
  Most of the module is about what the readers make of one item.  They are built from `ForEach`,
  nested up to three deep.  The library's induction theorems take an operator, which the provers
  cannot instantiate, so induction here is on a *set*: that a nonempty set of naturals has a least
  element (`LeastNatural`) gives `SetInduction`, and that gives the function behind `FlattenSeq`
  (`FlatUnfolds`) and its elements (`FlattenRange`, `EachRange`).  With these,
  `ExpandStates` says that the rows of a kafka-acls call are what its options grant, and
  `StrimziStates` and `KafkaStates` the same of documents; `AddRestores` and `AddDenyRestores` read
  the lines of the rollback scripts back.  Assumed of strings is only the spelling of twelve words
  in capitals (`Capitals`) and that the empty string is no name, host or word
  (`SourcesAssumption`); `ExtractAssumption` has the types of what the items hold.

Only model-checked are the liveness properties (`Terminates`, `RequestsEnd`), since fairness and
ENABLED are beyond the proof system.  No module has a RECURSIVE operator.

## Not modelled

* Parsing and printing as such: lines, words, shell quoting, CSV, YAML and JSON syntax; emit,
  report, diff, convert, and status but for its look at plan.json.
* Connections: keystores, SASL and TLS properties of live extract, the Kubernetes client.
* rundir.Resolve, the choice of the run directory.
* Delays: back-off, Retry-After, timeouts other than "the call failed".
* `Removal` and `Deny` replace files whole; that they may is what `files` shows.
* `MONEDULA_SKIP_PLAN_HASH_CHECK`, an override that waives the guard it names.
* The kafka-acls flags: that `writeRemove` has none for Subject rows, nor for hosts, is a hazard.
* Exit codes, except apply's 0.
* A failing write of apply.log: the error is ignored (apply/apply.go:91), so the log may lack lines
  of a run that succeeds.  The properties about the log suppose that writes to it succeed.

## Plan

Done, in this order: the lock, apply, the planner, the client, removal, deny, extract and its
sources, the run directory's files; each with its run.

Next, extending the model:

1. rollback.sh against delete-acls.sh when delete-acls is killed or run again (README.md:740, 805).
2. `Guardrails`: which error gets which exit code (MapError), verify's exit status, against the
   table at README.md:818.
3. Configuration: MergeRules' override order, principal mapping and fallback.
4. emit and diff as functions of a plan, against what apply does with the same plan.

Then, proving more.  No safety property of a passing run is open; what is left is between the
modules: that what `Removal` assumes of `PlanOf` follows from `Planner`, and that a client's
`do` (`MdsClient`) is what `Apply` takes a request to be.
