------------------------------- MODULE Apply -------------------------------
(***************************************************************************)
(* `apply` (pkg/aclrbac/apply/apply.go): one goroutine per binding of the  *)
(* plan under a counting semaphore, a look at the MDS, an additive POST    *)
(* with the client's retries (pkg/aclrbac/mds/client.go), and a record of  *)
(* each outcome in apply.log and in the summary.  The process may be       *)
(* killed anywhere and apply run again over the same plan; the run-dir     *)
(* lock (RunDirLock) is why at most one run is under way.                  *)
(*                                                                         *)
(* A binding is its position in plan.Bindings.  Principal, role and scope  *)
(* are one key, because the MDS aggregates the patterns of a role under    *)
(* exactly that key and alreadyHas compares all three.                     *)
(***************************************************************************)
EXTENDS Integers, Sequences, FiniteSets

CONSTANTS
  Plan,         \* number of bindings in the plan
  Skips,        \* those the planner marked SKIP_EXISTS; the others are CREATE
  Key,          \* (principal, role, scope) triples
  Pattern,      \* resource patterns
  KeyOf,        \* the key of each binding
  PatternsOf,   \* the resource patterns of each binding, never none
  Preexisting,  \* what the MDS may hold at first: functions from key to patterns
  Requested,    \* --apply-parallelism
  MaxRetries,   \* --max-retries of the MDS client
  MaxRuns       \* bound: invocations of apply on this plan

Binding == 1..Plan

ASSUME ApplyAssumption ==
  /\ Plan \in Nat
  /\ Skips \subseteq Binding
  /\ KeyOf \in [Binding -> Key]
  /\ PatternsOf \in [Binding -> (SUBSET Pattern) \ {{}}]
  /\ Preexisting \subseteq [Key -> SUBSET Pattern]
  /\ Requested \in Int
  /\ MaxRetries \in Nat
  /\ MaxRuns \in Nat

VARIABLES
  phase,        \* of the current run, or of the last one
  next,         \* the binding the main loop turns to next
  w,            \* where the goroutine of each binding is
  tries,        \* attempts of its POST given up so far; a refreshed token starts
                \* a second round, numbered from MaxRetries + 1
  outcome,      \* what it is about to record
  errors,       \* the bindings whose error is buffered in errCh
  log,          \* apply.log lines of this run
  results,      \* the summary rows of this run
  past,         \* apply.log lines of earlier runs
  grants,       \* the patterns the MDS holds for each key
  stray,        \* abandoned POSTs the MDS may still execute
  runs          \* invocations so far

vars == <<phase, next, w, tries, outcome, errors, log, results, past, grants, stray, runs>>
mds  == <<grants, stray>>

\* applyMaxParallelism and the default of 4
Parallelism == IF Requested <= 0 THEN 4 ELSE IF Requested > 64 THEN 64 ELSE Requested

\* Mutant: room for the first error only.
FirstErrorOnly == 1

ErrCapacity == Plan     \* make(chan error, len(plan.Bindings))

LastAttempt == 2 * MaxRetries + 1

Calling   == {"list", "send", "sent", "answered", "fail"}
Recording == {"log", "sum"}
Stage     == {"none"} \cup Calling \cup Recording \cup {"release", "done"}
Outcome   == {"SKIP_EXISTS", "VERIFIED", "CREATED", "FAILED"}
Line      == [binding : Binding, status : Outcome]

TypeOK ==
  /\ phase \in {"idle", "running", "ok", "failed", "crashed"}
  /\ next \in 1..(Plan + 1)
  /\ w \in [Binding -> Stage]
  /\ tries \in [Binding -> 0..LastAttempt]
  /\ outcome \in [Binding -> Outcome]
  /\ errors \in SUBSET Binding
  /\ log \in Seq(Line)
  /\ results \in Seq(Line)
  /\ past \in SUBSET Line
  /\ grants \in [Key -> SUBSET Pattern]
  /\ stray \in SUBSET Binding
  /\ runs \in 0..MaxRuns

LinesOf(s) == {s[i] : i \in DOMAIN s}

-----------------------------------------------------------------------------
\* The variables of Run and of its goroutines start afresh; so do those here that
\* hold what this run has written.
LocalsFresh ==
  /\ next' = 1
  /\ w' = [b \in Binding |-> "none"]
  /\ tries' = [b \in Binding |-> 0]
  /\ outcome' = [b \in Binding |-> "FAILED"]
  /\ errors' = {}

Fresh ==
  /\ past' = past \cup LinesOf(log)
  /\ log' = <<>> /\ results' = <<>>
  /\ LocalsFresh

Init ==
  /\ phase = "idle" /\ runs = 0
  /\ next = 1
  /\ w = [b \in Binding |-> "none"]
  /\ tries = [b \in Binding |-> 0]
  /\ outcome = [b \in Binding |-> "FAILED"]
  /\ errors = {} /\ log = <<>> /\ results = <<>> /\ past = {}
  /\ grants \in Preexisting
  /\ stray = {}

Granted(b) == PatternsOf[b] \subseteq grants[KeyOf[b]]

\* Mutant: the role is enough, whatever its patterns.
RoleIsEnough(b) == grants[KeyOf[b]] # {}

\* ListBindings reports one entry per role, with all the patterns the principal
\* holds for it, and alreadyHas wants that entry to have the binding's patterns
\* and no others.
AlreadyHas(b) == grants[KeyOf[b]] = PatternsOf[b]

-----------------------------------------------------------------------------
(* The run and its main loop *)

\* prepare took the lock and read the plan; apply.log is opened for appending.
StartRun ==
  /\ phase # "running" /\ runs < MaxRuns
  /\ phase' = "running" /\ runs' = runs + 1
  /\ Fresh
  /\ UNCHANGED mds

\* The lock is held, the plan is stale or unreadable, or apply.log cannot be
\* opened: Run returns before the loop.
RefuseRun ==
  /\ phase # "running" /\ runs < MaxRuns
  /\ phase' = "failed" /\ runs' = runs + 1
  /\ Fresh
  /\ UNCHANGED mds

\* sem holds one token for each goroutine between its start and its return.
Started == {b \in Binding \ Skips : w[b] \notin {"none", "done"}}

\* The main goroutine records a SKIP_EXISTS itself before it goes on.
MainFree == \A b \in Skips : w[b] \in {"none", "done"}

Dispatch ==
  /\ phase = "running" /\ next <= Plan /\ MainFree
  /\ next \notin Skips
  /\ Cardinality(Started) < Parallelism
  /\ w' = [w EXCEPT ![next] = "list"]
  /\ next' = next + 1
  /\ UNCHANGED <<phase, tries, outcome, errors, log, results, past, mds, runs>>

DispatchSkip ==
  /\ phase = "running" /\ next <= Plan /\ MainFree
  /\ next \in Skips
  /\ w' = [w EXCEPT ![next] = "log"]
  /\ outcome' = [outcome EXCEPT ![next] = "SKIP_EXISTS"]
  /\ next' = next + 1
  /\ UNCHANGED <<phase, tries, errors, log, results, past, mds, runs>>

\* Mutant: the main goroutine does not wait for the others.
FinishEarly ==
  /\ phase = "running" /\ next = Plan + 1 /\ MainFree
  /\ phase' \in {"failed"} \cup (IF errors = {} THEN {"ok"} ELSE {})
  /\ UNCHANGED <<next, w, tries, outcome, errors, log, results, past, mds, runs>>

\* wg.Wait, the first buffered error, the summary: Run returns nil only without
\* an error, and not even then if the summary cannot be written.
Finish ==
  /\ phase = "running" /\ next = Plan + 1
  /\ \A b \in Binding : w[b] = "done"
  /\ phase' \in {"failed"} \cup (IF errors = {} THEN {"ok"} ELSE {})
  /\ UNCHANGED <<next, w, tries, outcome, errors, log, results, past, mds, runs>>

-----------------------------------------------------------------------------
(* The goroutine of binding b *)

Step(b, from, to) ==
  /\ phase = "running"
  /\ w[b] = from
  /\ w' = [w EXCEPT ![b] = to]

\* ListBindings answers, and alreadyHas decides on that answer alone.
ListAnswers(b) ==
  /\ IF AlreadyHas(b)
       THEN Step(b, "list", "log") /\ outcome' = [outcome EXCEPT ![b] = "VERIFIED"]
       ELSE Step(b, "list", "send") /\ UNCHANGED outcome
  /\ UNCHANGED <<phase, next, tries, errors, log, results, past, mds, runs>>

\* ListBindings fails, its retries included.
ListFails(b) ==
  /\ Step(b, "list", "fail")
  /\ UNCHANGED <<phase, next, tries, outcome, errors, log, results, past, mds, runs>>

\* One attempt of the POST leaves.
Send(b) ==
  /\ Step(b, "send", "sent")
  /\ UNCHANGED <<phase, next, tries, outcome, errors, log, results, past, mds, runs>>

AddGrant(b) == grants' = [grants EXCEPT ![KeyOf[b]] = @ \cup PatternsOf[b]]

\* The MDS executes the attempt; its answer is on the way.
Serve(b) ==
  /\ Step(b, "sent", "answered")
  /\ AddGrant(b)
  /\ UNCHANGED <<phase, next, tries, outcome, errors, log, results, past, stray, runs>>

\* 2xx arrives.
Created(b) ==
  /\ Step(b, "answered", "log")
  /\ outcome' = [outcome EXCEPT ![b] = "CREATED"]
  /\ UNCHANGED <<phase, next, tries, errors, log, results, past, mds, runs>>

\* An attempt given up on before it was executed may still be executed.
Abandon(b) == stray' = IF w[b] = "sent" THEN stray \cup {b} ELSE stray

RoundOver(b) == tries[b] \in {MaxRetries, LastAttempt}

\* Mutant: the attempts after a refresh are not counted.
OneTooMany(b) ==
  /\ \E from \in {"sent", "answered"} :
       IF tries[b] # MaxRetries
         THEN /\ Step(b, from, "send")
              /\ tries' = [tries EXCEPT ![b] = @ + 1]
         ELSE /\ Step(b, from, "fail")
              /\ UNCHANGED tries
  /\ Abandon(b)
  /\ UNCHANGED <<phase, next, outcome, errors, log, results, past, grants, runs>>

\* Mutant: an exhausted POST is taken to have gone through.
TransientIsFine(b) ==
  /\ \E from \in {"sent", "answered"} :
       IF ~RoundOver(b)
         THEN /\ Step(b, from, "send")
              /\ tries' = [tries EXCEPT ![b] = @ + 1]
              /\ UNCHANGED outcome
         ELSE /\ Step(b, from, "log")
              /\ outcome' = [outcome EXCEPT ![b] = "CREATED"]
              /\ UNCHANGED tries
  /\ Abandon(b)
  /\ UNCHANGED <<phase, next, errors, log, results, past, grants, runs>>

\* A lost answer, a reset connection, 429 or 5xx: shouldRetry sends the same
\* request again until the attempts of the round are used up.
Transient(b) ==
  /\ \E from \in {"sent", "answered"} :
       IF ~RoundOver(b)
         THEN /\ Step(b, from, "send")
              /\ tries' = [tries EXCEPT ![b] = @ + 1]
         ELSE /\ Step(b, from, "fail")
              /\ UNCHANGED tries
  /\ Abandon(b)
  /\ UNCHANGED <<phase, next, outcome, errors, log, results, past, grants, runs>>

\* 401, so the MDS did not execute the attempt: with a new token (MdsClient) the
\* whole request starts over, once.
Reauthenticate(b) ==
  /\ tries[b] <= MaxRetries
  /\ Step(b, "sent", "send")
  /\ tries' = [tries EXCEPT ![b] = MaxRetries + 1]
  /\ UNCHANGED <<phase, next, outcome, errors, log, results, past, mds, runs>>

\* An answer or an error that shouldRetry does not retry: 4xx (a second 401, or one
\* for which no token could be had, included), or the client's timeout, after which
\* the MDS may yet execute the request.
Rejected(b) ==
  /\ \E from \in {"sent", "answered"} : Step(b, from, "fail")
  /\ Abandon(b)
  /\ UNCHANGED <<phase, next, tries, outcome, errors, log, results, past, grants, runs>>

\* errCh <- err, which nobody receives before wg.Wait returns.
PushError(b) ==
  /\ Cardinality(errors) < ErrCapacity
  /\ Step(b, "fail", "log")
  /\ errors' = errors \cup {b}
  /\ outcome' = [outcome EXCEPT ![b] = "FAILED"]
  /\ UNCHANGED <<phase, next, tries, log, results, past, mds, runs>>

Entry(b) == [binding |-> b, status |-> outcome[b]]

\* Mutant: record without its mutex.
LogUnlocked(b) ==
  /\ Step(b, "log", "sum")
  /\ log' = Append(log, Entry(b))
  /\ UNCHANGED <<phase, next, tries, outcome, errors, results, past, mds, runs>>

\* record: under mu, first the line of apply.log ...
RecordLine(b) ==
  /\ \A c \in Binding : w[c] # "sum"
  /\ Step(b, "log", "sum")
  /\ log' = Append(log, Entry(b))
  /\ UNCHANGED <<phase, next, tries, outcome, errors, results, past, mds, runs>>

\* ... then the summary row.  The main goroutine goes on, a worker returns.
RecordRow(b) ==
  /\ Step(b, "sum", IF b \in Skips THEN "done" ELSE "release")
  /\ results' = Append(results, Entry(b))
  /\ UNCHANGED <<phase, next, tries, outcome, errors, log, past, mds, runs>>

\* <-sem and wg.Done.
Return(b) ==
  /\ Step(b, "release", "done")
  /\ UNCHANGED <<phase, next, tries, outcome, errors, log, results, past, mds, runs>>

-----------------------------------------------------------------------------
(* Around the process *)

\* The process is killed, the summary with it.  apply.log and the MDS keep what they
\* have, and a POST on the wire may still be executed.
Crash ==
  /\ phase = "running"
  /\ phase' = "crashed"
  /\ stray' = stray \cup {b \in Binding : w[b] = "sent"}
  /\ LocalsFresh
  /\ results' = <<>>
  /\ UNCHANGED <<log, past, grants, runs>>

\* The MDS executes an abandoned POST late.
ServeStray(b) ==
  /\ b \in stray
  /\ stray' = stray \ {b}
  /\ AddGrant(b)
  /\ UNCHANGED <<phase, next, w, tries, outcome, errors, log, results, past, runs>>

Worker(b) ==
  \/ ListAnswers(b)
  \/ ListFails(b)
  \/ Send(b)
  \/ Serve(b)
  \/ Created(b)
  \/ Transient(b)
  \/ Reauthenticate(b)
  \/ Rejected(b)
  \/ PushError(b)
  \/ RecordLine(b)
  \/ RecordRow(b)
  \/ Return(b)

Progress ==
  \/ Dispatch
  \/ DispatchSkip
  \/ Finish
  \/ \E b \in Binding : Worker(b)

Next ==
  \/ StartRun
  \/ RefuseRun
  \/ Progress
  \/ Crash
  \/ \E b \in Binding : ServeStray(b)

Spec == Init /\ [][Next]_vars

\* The Go scheduler runs a goroutine that can run, and an MDS call ends: the
\* HTTP client has a timeout.
FairSpec == Spec /\ WF_vars(Progress)

-----------------------------------------------------------------------------
(* Properties *)

\* While nobody is inside record, apply.log and the summary tell the same story
\* in the same order (the comment on record: "every line in apply.log has a
\* matching row in the summary").
LogMatchesSummary ==
  phase # "crashed" /\ (\A b \in Binding : w[b] # "sum") => log = results

\* A line CREATED or "already exists (verified)" is true, in the apply.log of a
\* killed run too: the MDS holds the binding's patterns.
TruthfulLines ==
  \A line \in past \cup LinesOf(log) :
    line.status \in {"CREATED", "VERIFIED"} => Granted(line.binding)

RowsOf(b) == {i \in DOMAIN results : results[i].binding = b}
ReportedOnce(b) == \E i \in RowsOf(b) : RowsOf(b) = {i}

\* Exit 0 means that every binding was reported once, and that each one that was
\* to be created is in the MDS.
ExitZeroIsEarned ==
  phase = "ok" =>
    /\ \A b \in Binding : ReportedOnce(b)
    /\ \A b \in Binding \ Skips : Granted(b)

\* Every run comes to an end: no goroutine is left waiting on errCh, on sem or on
\* mu, whatever fails.
Terminates == phase = "running" ~> phase # "running"

\* apply implements its promise (AppliedPlan).
Goods(lines) == {line.binding : line \in {l \in lines : l.status \in {"CREATED", "VERIFIED"}}}

Promise == INSTANCE AppliedPlan WITH
  Wanted   <- [b \in Binding |-> {KeyOf[b]} \X PatternsOf[b]],
  granted  <- {kp \in Key \X Pattern : kp[2] \in grants[kp[1]]},
  good     <- Goods(past \cup LinesOf(log)),
  reported <- {line.binding : line \in LinesOf(log)},
  bad      <- {line.binding : line \in {l \in LinesOf(log) : l.status = "FAILED"}},
  verdict  <- IF phase \in {"ok", "failed"} THEN phase ELSE "none"
PromiseSpec == Promise!Spec

\* The inductive strengthening of the three invariants, from which the refinement
\* follows too.  Between the two halves of
\* record the log is one line ahead, and one goroutine at most is between them.
OneLineAhead ==
  phase = "running" => \A b \in Binding : w[b] = "sum" =>
    /\ log = Append(results, Entry(b))
    /\ \A c \in Binding : w[c] = "sum" => c = b

\* What a goroutine is about to say, or has said, is backed by the MDS or errCh.
Decided ==
  \A b \in Binding :
    /\ w[b] = "answered" => Granted(b)
    /\ w[b] \in Recording \cup {"release", "done"} =>
         /\ outcome[b] \in {"CREATED", "VERIFIED"} => Granted(b)
         /\ outcome[b] = "FAILED" => b \in errors
         /\ outcome[b] = "SKIP_EXISTS" => b \in Skips

Rows ==
  \A b \in Binding :
    IF w[b] \in {"release", "done"} THEN ReportedOnce(b) ELSE RowsOf(b) = {}

NotStarted ==
  phase = "running" => \A b \in Binding : b >= next => w[b] = "none"

\* What the run has reported FAILED is still in errCh, for nobody receives before the end.
FailuresBuffered ==
  phase = "running" =>
    \A line \in LinesOf(log) : line.status = "FAILED" => line.binding \in errors

OkIsFinal == phase = "ok" => errors = {} /\ \A b \in Binding : w[b] = "done"

ApplyInv ==
  /\ TypeOK
  /\ LogMatchesSummary /\ OneLineAhead
  /\ Decided /\ TruthfulLines
  /\ NotStarted /\ Rows /\ FailuresBuffered /\ OkIsFinal
=============================================================================
