---------------------------- MODULE ApplyProofs ----------------------------
(* Proofs about Apply, for every plan, parallelism and number of retries.    *)
EXTENDS Apply, TLAPS

\* Every summary row and log line is one.
LEMMA EntryIsLine ==
  ASSUME TypeOK, NEW b \in Binding
  PROVE  Entry(b) \in Line
BY DEF TypeOK, Entry, Line

\* The variables of a run that starts have their types.
LEMMA FreshTypes ==
  ASSUME ApplyAssumption, TypeOK, Fresh
  PROVE  /\ next' \in 1..(Plan + 1)
         /\ w' \in [Binding -> Stage]
         /\ tries' \in [Binding -> 0..LastAttempt]
         /\ outcome' \in [Binding -> Outcome]
         /\ errors' \in SUBSET Binding
         /\ log' \in Seq(Line) /\ results' \in Seq(Line)
         /\ past' \in SUBSET Line
<1>1. next' \in 1..(Plan + 1) /\ errors' \in SUBSET Binding
  BY DEF Fresh, LocalsFresh, ApplyAssumption
<1>2. w' \in [Binding -> Stage]
  BY DEF Fresh, LocalsFresh, Stage
<1>3. tries' \in [Binding -> 0..LastAttempt]
  BY DEF Fresh, LocalsFresh, LastAttempt, ApplyAssumption
<1>4. outcome' \in [Binding -> Outcome]
  BY DEF Fresh, LocalsFresh, Outcome
<1>5. log' \in Seq(Line) /\ results' \in Seq(Line)
  BY DEF Fresh
<1>6. past' \in SUBSET Line
  BY DEF Fresh, LinesOf, TypeOK
<1> QED BY <1>1, <1>2, <1>3, <1>4, <1>5, <1>6

\* A POST adds patterns to one key and takes none away.
LEMMA AddGrantTypes ==
  ASSUME ApplyAssumption, TypeOK, NEW b \in Binding, AddGrant(b)
  PROVE  /\ grants' \in [Key -> SUBSET Pattern]
         /\ \A k \in Key : grants[k] \subseteq grants'[k]
         /\ PatternsOf[b] \subseteq grants'[KeyOf[b]]
BY DEF ApplyAssumption, TypeOK, AddGrant

\* Every step keeps the types.
LEMMA TypeStep ==
  ASSUME ApplyAssumption, TypeOK, [Next]_vars
  PROVE  TypeOK'
<1> USE DEF Stage, Calling, Recording
<1>1. CASE StartRun
  BY <1>1, FreshTypes DEF StartRun, TypeOK, mds
<1>2. CASE RefuseRun
  BY <1>2, FreshTypes DEF RefuseRun, TypeOK, mds
<1>3. CASE Dispatch
  BY <1>3 DEF Dispatch, TypeOK, Binding, mds, ApplyAssumption
<1>4. CASE DispatchSkip
  BY <1>4 DEF DispatchSkip, TypeOK, Binding, mds, Outcome, ApplyAssumption
<1>5. CASE Finish
  BY <1>5 DEF Finish, TypeOK, mds
<1>6. ASSUME NEW b \in Binding, Worker(b)
      PROVE  TypeOK'
  <2>1. CASE ListAnswers(b)
    BY <2>1 DEF ListAnswers, Step, TypeOK, mds, Outcome
  <2>2. CASE ListFails(b)
    BY <2>2 DEF ListFails, Step, TypeOK, mds
  <2>3. CASE Send(b)
    BY <2>3 DEF Send, Step, TypeOK, mds
  <2>4. CASE Serve(b)
    BY <2>4, AddGrantTypes DEF Serve, Step, TypeOK
  <2>5. CASE Created(b)
    BY <2>5 DEF Created, Step, TypeOK, mds, Outcome
  <2>6. CASE Transient(b)
    <3>1. tries' \in [Binding -> 0..LastAttempt]
      <4>1. MaxRetries \in Nat /\ LastAttempt \in Nat /\ tries[b] \in 0..LastAttempt
        BY DEF LastAttempt, TypeOK, ApplyAssumption
      <4>2. \/ tries' = tries
            \/ tries[b] # LastAttempt /\ tries' = [tries EXCEPT ![b] = @ + 1]
        BY <2>6 DEF Transient, RoundOver
      <4> QED BY <4>1, <4>2 DEF TypeOK
    <3> QED BY <2>6, <3>1 DEF Transient, Step, Abandon, TypeOK
  <2>7. CASE Rejected(b)
    BY <2>7 DEF Rejected, Step, Abandon, TypeOK
  <2>8. CASE PushError(b)
    BY <2>8 DEF PushError, Step, TypeOK, mds, Outcome
  <2>9. CASE RecordLine(b)
    BY <2>9, EntryIsLine DEF RecordLine, Step, TypeOK, mds
  <2>10. CASE RecordRow(b)
    BY <2>10, EntryIsLine DEF RecordRow, Step, TypeOK, mds
  <2>11. CASE Return(b)
    BY <2>11 DEF Return, Step, TypeOK, mds
  <2>12. CASE Reauthenticate(b)
    <3>1. tries' \in [Binding -> 0..LastAttempt]
      BY <2>12 DEF Reauthenticate, TypeOK, LastAttempt, ApplyAssumption
    <3> QED BY <2>12, <3>1 DEF Reauthenticate, Step, TypeOK, mds
  <2> QED BY <1>6, <2>1, <2>2, <2>3, <2>4, <2>5, <2>6, <2>7, <2>8, <2>9, <2>10, <2>11,
            <2>12 DEF Worker
<1>7. CASE Crash
  BY <1>7 DEF Crash, LocalsFresh, TypeOK, LastAttempt, Outcome, ApplyAssumption
<1>8. ASSUME NEW b \in Binding, ServeStray(b)
      PROVE  TypeOK'
  BY <1>8, AddGrantTypes DEF ServeStray, TypeOK
<1>9. CASE UNCHANGED vars
  BY <1>9 DEF vars, TypeOK
<1> QED BY <1>1, <1>2, <1>3, <1>4, <1>5, <1>6, <1>7, <1>8, <1>9 DEF Next, Progress

\* The variables of apply always have their types: in particular no POST is tried
\* more often than the retries allow.
THEOREM TypeCorrect ==
  ASSUME ApplyAssumption PROVE Spec => []TypeOK
<1>1. Init => TypeOK
  BY DEF Init, TypeOK, Stage, Outcome, LastAttempt, ApplyAssumption
<1>2. TypeOK /\ [Next]_vars => TypeOK'
  BY TypeStep
<1> QED BY <1>1, <1>2, PTL DEF Spec

-----------------------------------------------------------------------------
(***************************************************************************)
(* The inductive invariant.  TruthfulLines alone is not inductive: a line  *)
(* is true because the goroutine that writes it has decided so on grounds  *)
(* that stay (Decided, with the MDS only ever gaining patterns), and the   *)
(* summary has exactly one row of each goroutine that is past record       *)
(* (Rows), one line behind the log at most (OneLineAhead).                 *)
(***************************************************************************)

\* What has been granted stays granted.
LEMMA GrantsGrow ==
  ASSUME ApplyAssumption, TypeOK, [Next]_vars, NEW b \in Binding, Granted(b)
  PROVE  Granted(b)'
<1>1. KeyOf[b] \in Key
  BY DEF ApplyAssumption
<1>2. grants' = grants \/ \E c \in Binding : AddGrant(c)
  BY DEF Next, Progress, Worker, StartRun, RefuseRun, Dispatch, DispatchSkip, Finish, Crash,
         ServeStray, ListAnswers, ListFails, Send, Serve, Created, Transient,
         Reauthenticate, Rejected, PushError, RecordLine, RecordRow, Return, mds, vars
<1>3. CASE grants' = grants
  BY <1>3 DEF Granted
<1>4. ASSUME NEW c \in Binding, AddGrant(c) PROVE Granted(b)'
  BY <1>1, <1>4, AddGrantTypes DEF Granted
<1> QED BY <1>2, <1>3, <1>4

\* A goroutine that says CREATED or VERIFIED has grounds for it, and one that says
\* FAILED has put its error into errCh.
LEMMA DecidedStep ==
  ASSUME ApplyAssumption, TypeOK, Decided, [Next]_vars
  PROVE  Decided'
<1> USE DEF Recording
<1>1. \A b \in Binding : Granted(b) => Granted(b)'
  BY GrantsGrow
<1>2. CASE StartRun \/ RefuseRun \/ Crash
  <2>1. \A b \in Binding : w'[b] = "none"
    BY <1>2 DEF StartRun, RefuseRun, Crash, Fresh, LocalsFresh
  <2> QED BY <2>1 DEF Decided
<1>3. CASE Dispatch
  BY <1>1, <1>3 DEF Dispatch, Decided, TypeOK, Granted
<1>4. CASE DispatchSkip
  BY <1>1, <1>4 DEF DispatchSkip, Decided, TypeOK, Granted, mds
<1>5. CASE Finish
  BY <1>5 DEF Finish, Decided, Granted, mds
<1>6. ASSUME NEW b \in Binding, Worker(b)
      PROVE  Decided'
  <2>1. CASE ListAnswers(b)
    <3>1. AlreadyHas(b) => Granted(b)
      BY DEF AlreadyHas, Granted
    <3> QED BY <1>1, <2>1, <3>1 DEF ListAnswers, Step, Decided, TypeOK, mds
  <2>2. CASE ListFails(b)
    BY <1>1, <2>2 DEF ListFails, Step, Decided, TypeOK, mds
  <2>3. CASE Send(b)
    BY <1>1, <2>3 DEF Send, Step, Decided, TypeOK, mds
  <2>4. CASE Serve(b)
    <3>1. Granted(b)'
      BY <2>4, AddGrantTypes DEF Serve, Granted
    <3> QED BY <1>1, <2>4, <3>1 DEF Serve, Step, Decided, TypeOK
  <2>5. CASE Created(b)
    BY <1>1, <2>5 DEF Created, Step, Decided, TypeOK, mds
  <2>6. CASE Transient(b)
    BY <1>1, <2>6 DEF Transient, Step, Decided, TypeOK
  <2>12. CASE Reauthenticate(b)
    BY <1>1, <2>12 DEF Reauthenticate, Step, Decided, TypeOK, mds
  <2>7. CASE Rejected(b)
    BY <1>1, <2>7 DEF Rejected, Step, Decided, TypeOK
  <2>8. CASE PushError(b)
    BY <1>1, <2>8 DEF PushError, Step, Decided, TypeOK, mds
  <2>9. CASE RecordLine(b)
    BY <1>1, <2>9 DEF RecordLine, Step, Decided, TypeOK, mds
  <2>10. CASE RecordRow(b)
    BY <1>1, <2>10 DEF RecordRow, Step, Decided, TypeOK, mds
  <2>11. CASE Return(b)
    BY <1>1, <2>11 DEF Return, Step, Decided, TypeOK, mds
  <2> QED BY <1>6, <2>1, <2>2, <2>3, <2>4, <2>5, <2>6, <2>7, <2>8, <2>9, <2>10, <2>11,
            <2>12 DEF Worker
<1>7. ASSUME NEW b \in Binding, ServeStray(b)
      PROVE  Decided'
  BY <1>1, <1>7 DEF ServeStray, Decided
<1>8. CASE UNCHANGED vars
  BY <1>8 DEF vars, Decided, Granted
<1> QED BY <1>2, <1>3, <1>4, <1>5, <1>6, <1>7, <1>8 DEF Next, Progress

\* The lines of an appended log.
LEMMA LinesOfAppend ==
  ASSUME NEW s \in Seq(Line), NEW e
  PROVE  LinesOf(Append(s, e)) = LinesOf(s) \cup {e}
<1>1. DOMAIN s = 1..Len(s) /\ DOMAIN Append(s, e) = 1..(Len(s) + 1) /\ Len(s) \in Nat
  OBVIOUS
<1>2. \A i \in 1..Len(s) : Append(s, e)[i] = s[i]
  OBVIOUS
<1>3. Append(s, e)[Len(s) + 1] = e
  OBVIOUS
<1> QED BY <1>1, <1>2, <1>3, 1..(Len(s) + 1) = 1..Len(s) \cup {Len(s) + 1} DEF LinesOf

\* Nothing that is in apply.log ceases to be true, and RecordLine adds only lines
\* its goroutine has grounds for.
LEMMA TruthfulStep ==
  ASSUME ApplyAssumption, TypeOK, Decided, TruthfulLines, [Next]_vars
  PROVE  TruthfulLines'
<1> DEFINE Lines == past \cup LinesOf(log)
<1>1. \A line \in Lines : line.binding \in Binding
  <2>1. Lines \subseteq Line
    BY DEF TypeOK, LinesOf
  <2> QED BY <2>1 DEF Line
<1>2. \A b \in Binding : Granted(b) => Granted(b)'
  BY GrantsGrow
<1>3. \/ Lines' \subseteq Lines
      \/ \E b \in Binding : RecordLine(b)
  <2>1. CASE StartRun \/ RefuseRun
    BY <2>1 DEF StartRun, RefuseRun, Fresh, LinesOf
  <2>2. CASE UNCHANGED <<log, past>> \/ \E b \in Binding : RecordLine(b)
    BY <2>2 DEF LinesOf
  <2> QED BY <2>1, <2>2 DEF Next, Progress, Worker, Dispatch, DispatchSkip, Finish, Crash,
         ServeStray, ListAnswers, ListFails, Send, Serve, Created, Transient,
         Reauthenticate, Rejected, PushError, RecordRow, Return, vars
<1>4. CASE Lines' \subseteq Lines
  BY <1>1, <1>2, <1>4 DEF TruthfulLines
<1>5. ASSUME NEW b \in Binding, RecordLine(b)
      PROVE  TruthfulLines'
  <2>1. Lines' = Lines \cup {Entry(b)}
    BY <1>5, LinesOfAppend DEF RecordLine, TypeOK
  <2>2. Entry(b).status \in {"CREATED", "VERIFIED"} => Granted(b)
    BY <1>5 DEF RecordLine, Step, Decided, Recording, Entry
  <2>3. Entry(b).binding = b
    BY DEF Entry
  <2> QED BY <1>1, <1>2, <2>1, <2>2, <2>3 DEF TruthfulLines
<1> QED BY <1>3, <1>4, <1>5

\* record's critical section keeps the log and the summary in step.
LEMMA RecordStep ==
  ASSUME ApplyAssumption, TypeOK, LogMatchesSummary, OneLineAhead, NotStarted, [Next]_vars
  PROVE  LogMatchesSummary' /\ OneLineAhead'
<1>1. CASE StartRun \/ RefuseRun \/ Crash
  BY <1>1 DEF StartRun, RefuseRun, Crash, Fresh, LocalsFresh, LogMatchesSummary, OneLineAhead
<1>2. CASE Finish
  BY <1>2 DEF Finish, LogMatchesSummary, OneLineAhead
<1>3. ASSUME NEW b \in Binding, RecordLine(b)
      PROVE  LogMatchesSummary' /\ OneLineAhead'
  <2>1. phase = "running" /\ \A c \in Binding : w[c] # "sum"
    BY <1>3 DEF RecordLine, Step
  <2>2. log' = Append(results', Entry(b)') /\ Entry(b)' = Entry(b)
    BY <1>3, <2>1 DEF RecordLine, LogMatchesSummary, Entry
  <2>3. \A c \in Binding : w'[c] = "sum" <=> c = b
    BY <1>3, <2>1 DEF RecordLine, Step, TypeOK
  <2> QED BY <2>2, <2>3 DEF LogMatchesSummary, OneLineAhead
<1>4. ASSUME NEW b \in Binding, RecordRow(b)
      PROVE  LogMatchesSummary' /\ OneLineAhead'
  <2>1. log' = results'
    BY <1>4 DEF RecordRow, Step, OneLineAhead
  <2>2. \A c \in Binding : w'[c] # "sum"
    BY <1>4 DEF RecordRow, Step, TypeOK, OneLineAhead
  <2> QED BY <2>1, <2>2 DEF LogMatchesSummary, OneLineAhead
<1>5. CASE Dispatch \/ DispatchSkip
  <2>1. next \in Binding /\ w[next] = "none"
    BY <1>5 DEF Dispatch, DispatchSkip, NotStarted, TypeOK, Binding, ApplyAssumption
  <2>2. /\ w'[next] # "sum"
        /\ \A c \in Binding \ {next} : w'[c] = w[c] /\ outcome'[c] = outcome[c]
        /\ UNCHANGED <<phase, log, results>>
    BY <1>5, <2>1 DEF Dispatch, DispatchSkip, TypeOK
  <2> QED BY <2>1, <2>2 DEF LogMatchesSummary, OneLineAhead, Entry
<1>6. ASSUME NEW b \in Binding, Worker(b), ~RecordLine(b), ~RecordRow(b)
      PROVE  LogMatchesSummary' /\ OneLineAhead'
  <2>1. /\ w[b] # "sum" /\ w'[b] # "sum"
        /\ \A c \in Binding \ {b} : w'[c] = w[c] /\ outcome'[c] = outcome[c]
        /\ UNCHANGED <<phase, log, results>>
    BY <1>6 DEF Worker, ListAnswers, ListFails, Send, Serve, Created, Transient,
                Reauthenticate, Rejected, PushError, Return, Step, TypeOK
  <2> QED BY <2>1 DEF LogMatchesSummary, OneLineAhead, Entry
<1>7. CASE UNCHANGED <<phase, w, outcome, log, results>>
  BY <1>7 DEF LogMatchesSummary, OneLineAhead, Entry
<1> QED BY <1>1, <1>2, <1>3, <1>4, <1>5, <1>6, <1>7 DEF Next, Progress, ServeStray, vars

\* A new row belongs to its binding alone.
LEMMA RowsOfAppend ==
  ASSUME TypeOK, NEW b \in Binding, results' = Append(results, Entry(b))
  PROVE  /\ RowsOf(b)' = RowsOf(b) \cup {Len(results) + 1}
         /\ \A c \in Binding \ {b} : RowsOf(c)' = RowsOf(c)
<1>1. results \in Seq(Line)
  BY DEF TypeOK
<1>2. /\ DOMAIN results = 1..Len(results) /\ Len(results) \in Nat
      /\ DOMAIN results' = 1..(Len(results) + 1)
      /\ \A i \in 1..Len(results) : results'[i] = results[i]
      /\ results'[Len(results) + 1] = Entry(b)
  BY <1>1
<1>3. Entry(b).binding = b
  BY DEF Entry
<1>4. 1..(Len(results) + 1) = 1..Len(results) \cup {Len(results) + 1}
  BY <1>2
<1>5. RowsOf(b)' = RowsOf(b) \cup {Len(results) + 1}
  BY <1>2, <1>3, <1>4 DEF RowsOf
<1>6. ASSUME NEW c \in Binding \ {b} PROVE RowsOf(c)' = RowsOf(c)
  BY <1>2, <1>3, <1>4 DEF RowsOf
<1> QED BY <1>5, <1>6

\* The summary has one row of each binding whose goroutine is past record, and
\* none of the others.
LEMMA RowsStep ==
  ASSUME ApplyAssumption, TypeOK, NotStarted, Rows, [Next]_vars
  PROVE  Rows'
<1>1. CASE StartRun \/ RefuseRun \/ Crash
  <2>1. results' = <<>> /\ \A b \in Binding : w'[b] = "none"
    BY <1>1 DEF StartRun, RefuseRun, Crash, Fresh, LocalsFresh
  <2>2. \A b \in Binding : RowsOf(b)' = {}
    BY <2>1 DEF RowsOf
  <2> QED BY <2>1, <2>2 DEF Rows
<1>2. ASSUME NEW b \in Binding, RecordRow(b)
      PROVE  Rows'
  <2>1. RowsOf(b) = {}
    BY <1>2 DEF RecordRow, Step, Rows
  <2>2. RowsOf(b)' = {Len(results) + 1} /\ \A c \in Binding \ {b} : RowsOf(c)' = RowsOf(c)
    BY <1>2, <2>1, RowsOfAppend DEF RecordRow
  <2>3. w'[b] \in {"release", "done"} /\ \A c \in Binding \ {b} : w'[c] = w[c]
    BY <1>2 DEF RecordRow, Step, TypeOK
  <2>4. ReportedOnce(b)'
    BY <2>2 DEF ReportedOnce
  <2> QED BY <2>2, <2>3, <2>4 DEF Rows, ReportedOnce
<1>3. CASE Dispatch \/ DispatchSkip
  <2>1. next \in Binding /\ w[next] = "none"
    BY <1>3 DEF Dispatch, DispatchSkip, NotStarted, TypeOK, Binding, ApplyAssumption
  <2>2. /\ w'[next] \notin {"release", "done"}
        /\ \A c \in Binding \ {next} : w'[c] = w[c]
        /\ results' = results
    BY <1>3, <2>1 DEF Dispatch, DispatchSkip, TypeOK
  <2> QED BY <2>1, <2>2 DEF Rows, ReportedOnce, RowsOf
<1>4. ASSUME NEW b \in Binding, Worker(b), ~RecordRow(b)
      PROVE  Rows'
  <2>1. /\ w[b] \in {"release", "done"} <=> w'[b] \in {"release", "done"}
        /\ \A c \in Binding \ {b} : w'[c] = w[c]
        /\ results' = results
    BY <1>4 DEF Worker, ListAnswers, ListFails, Send, Serve, Created, Transient,
                Reauthenticate, Rejected, PushError, RecordLine, Return, Step, TypeOK
  <2> QED BY <2>1 DEF Rows, ReportedOnce, RowsOf
<1>5. CASE UNCHANGED <<w, results>>
  BY <1>5 DEF Rows, ReportedOnce, RowsOf
<1> QED BY <1>1, <1>2, <1>3, <1>4, <1>5 DEF Next, Progress, Finish, ServeStray, vars

\* The main loop takes the bindings in order, and Run returns nil only when every
\* goroutine has returned and errCh is empty.
LEMMA LoopStep ==
  ASSUME ApplyAssumption, TypeOK, NotStarted, OkIsFinal, [Next]_vars
  PROVE  NotStarted' /\ OkIsFinal'
<1>1. CASE StartRun \/ RefuseRun \/ Crash
  BY <1>1 DEF StartRun, RefuseRun, Crash, Fresh, LocalsFresh, NotStarted, OkIsFinal
<1>2. CASE Dispatch \/ DispatchSkip
  <2>1. next \in Nat /\ next' = next + 1 /\ phase' = "running" /\ phase = "running"
    BY <1>2 DEF Dispatch, DispatchSkip, TypeOK, ApplyAssumption
  <2>2. \A b \in Binding : b >= next + 1 => w'[b] = w[b]
    BY <1>2, <2>1 DEF Dispatch, DispatchSkip, TypeOK, Binding, ApplyAssumption
  <2>3. \A b \in Binding : b >= next + 1 => b >= next
    BY <2>1 DEF Binding, ApplyAssumption
  <2> QED BY <2>1, <2>2, <2>3 DEF NotStarted, OkIsFinal
<1>3. CASE Finish
  BY <1>3 DEF Finish, NotStarted, OkIsFinal
<1>4. ASSUME NEW b \in Binding, Worker(b)
      PROVE  NotStarted' /\ OkIsFinal'
  <2>1. /\ phase = "running" /\ phase' = phase /\ next' = next
        /\ w[b] # "none"
        /\ \A c \in Binding \ {b} : w'[c] = w[c]
    BY <1>4 DEF Worker, ListAnswers, ListFails, Send, Serve, Created, Transient,
                Reauthenticate, Rejected, PushError, RecordLine, RecordRow, Return, Step, TypeOK
  <2> QED BY <2>1 DEF NotStarted, OkIsFinal
<1>5. CASE UNCHANGED <<phase, next, w, errors>>
  BY <1>5 DEF NotStarted, OkIsFinal
<1> QED BY <1>1, <1>2, <1>3, <1>4, <1>5 DEF Next, Progress, ServeStray, vars

\* A line FAILED of the run under way stands for an error that errCh still holds.
LEMMA FailuresStep ==
  ASSUME ApplyAssumption, TypeOK, Decided, FailuresBuffered, [Next]_vars
  PROVE  FailuresBuffered'
<1>1. CASE StartRun \/ RefuseRun \/ Crash
  BY <1>1 DEF StartRun, RefuseRun, Crash, Fresh, LinesOf, FailuresBuffered
<1>2. ASSUME NEW b \in Binding, RecordLine(b)
      PROVE  FailuresBuffered'
  <2>1. LinesOf(log)' = LinesOf(log) \cup {Entry(b)}
    BY <1>2, LinesOfAppend DEF RecordLine, TypeOK
  <2>2. Entry(b).status = "FAILED" => Entry(b).binding \in errors
    BY <1>2 DEF RecordLine, Step, Decided, Recording, Entry
  <2>3. errors' = errors /\ phase = "running"
    BY <1>2 DEF RecordLine, Step
  <2> QED BY <2>1, <2>2, <2>3 DEF FailuresBuffered
<1>3. CASE /\ phase' # "running" \/ phase = "running"
           /\ errors \subseteq errors' /\ log' = log
  BY <1>3 DEF FailuresBuffered, LinesOf
<1>4. CASE Finish
  BY <1>4 DEF Finish, FailuresBuffered
<1>5. ASSUME NEW b \in Binding, Worker(b), ~RecordLine(b)
      PROVE  phase = "running" /\ errors \subseteq errors' /\ log' = log
  BY <1>5 DEF Worker, ListAnswers, ListFails, Send, Serve, Created, Transient,
              Reauthenticate, Rejected, PushError, RecordRow, Return, Step
<1>6. CASE Dispatch \/ DispatchSkip
  BY <1>3, <1>6 DEF Dispatch, DispatchSkip
<1>7. CASE UNCHANGED <<phase, errors, log>>
  BY <1>7 DEF FailuresBuffered, LinesOf
<1> QED BY <1>1, <1>2, <1>3, <1>4, <1>5, <1>6, <1>7 DEF Next, Progress, ServeStray, vars

-----------------------------------------------------------------------------
\* The invariant of apply, whatever the plan, the parallelism, the failures of the
\* MDS and the moments at which the process is killed.
THEOREM ApplyInvariant ==
  ASSUME ApplyAssumption PROVE Spec => []ApplyInv
<1>1. Init => ApplyInv
  <2> SUFFICES ASSUME Init PROVE ApplyInv
    OBVIOUS
  <2>1. TypeOK
    BY DEF Init, TypeOK, Stage, Outcome, LastAttempt, ApplyAssumption
  <2>2. LinesOf(log) = {} /\ \A b \in Binding : RowsOf(b) = {}
    BY DEF Init, LinesOf, RowsOf
  <2> QED BY <2>1, <2>2 DEF Init, ApplyInv, LogMatchesSummary, OneLineAhead, Decided, Recording,
                            TruthfulLines, Rows, NotStarted,
                            FailuresBuffered, OkIsFinal
<1>2. ApplyInv /\ [Next]_vars => ApplyInv'
  BY TypeStep, DecidedStep, TruthfulStep, RecordStep, RowsStep, FailuresStep,
     LoopStep DEF ApplyInv
<1> QED BY <1>1, <1>2, PTL DEF Spec

\* apply.log and the summary agree whenever no goroutine is inside record.
THEOREM LogMatchesSummaryHolds ==
  ASSUME ApplyAssumption PROVE Spec => []LogMatchesSummary
<1>1. ApplyInv => LogMatchesSummary
  BY DEF ApplyInv
<1> QED BY <1>1, ApplyInvariant, PTL

\* No line of any apply.log claims a grant the MDS does not hold.
THEOREM TruthfulLinesHold ==
  ASSUME ApplyAssumption PROVE Spec => []TruthfulLines
<1>1. ApplyInv => TruthfulLines
  BY DEF ApplyInv
<1> QED BY <1>1, ApplyInvariant, PTL

\* Exit 0 is only returned when every binding has exactly one summary row and
\* every binding that was to be created is in the MDS.
THEOREM ExitZeroIsEarnedHolds ==
  ASSUME ApplyAssumption PROVE Spec => []ExitZeroIsEarned
<1>1. ApplyInv => ExitZeroIsEarned
  <2> SUFFICES ASSUME ApplyInv, phase = "ok" PROVE ExitZeroIsEarned
    BY DEF ExitZeroIsEarned
  <2>1. errors = {} /\ \A b \in Binding : w[b] = "done"
    BY DEF ApplyInv, OkIsFinal
  <2>2. \A b \in Binding : ReportedOnce(b)
    BY <2>1 DEF ApplyInv, Rows
  <2>3. \A b \in Binding : outcome[b] \in Outcome
    BY DEF ApplyInv, TypeOK
  <2>4. \A b \in Binding \ Skips : Granted(b)
    BY <2>1, <2>3 DEF ApplyInv, Decided, Outcome
  <2> QED BY <2>2, <2>4 DEF ExitZeroIsEarned
<1> QED BY <1>1, ApplyInvariant, PTL

-----------------------------------------------------------------------------
(***************************************************************************)
(* apply implements its promise: a POST executed is a Grant, a line in     *)
(* apply.log a report, the end of the loop an end, the start of a run a    *)
(* Restart; every other step leaves what the promise speaks of alone.      *)
(***************************************************************************)

\* What the promise calls granted, reported and bad; see Promise.
Held     == {kp \in Key \X Pattern : kp[2] \in grants[kp[1]]}
Asked    == [b \in Binding |-> {KeyOf[b]} \X PatternsOf[b]]
Reported == {line.binding : line \in LinesOf(log)}
Bad      == {line.binding : line \in {l \in LinesOf(log) : l.status = "FAILED"}}

\* A binding is granted when the MDS holds each pair it asks for.
LEMMA GrantedIsHeld ==
  ASSUME ApplyAssumption, TypeOK, NEW b \in Binding, Granted(b)
  PROVE  Asked[b] \subseteq Held
BY DEF Granted, Asked, Held, ApplyAssumption, TypeOK

\* An executed POST grants its binding's pairs and no other.
LEMMA AddGrantIsGrant ==
  ASSUME ApplyAssumption, TypeOK, NEW b \in Binding, AddGrant(b)
  PROVE  Held' = Held \cup Asked[b]
<1>1. KeyOf[b] \in Key /\ PatternsOf[b] \subseteq Pattern
  BY DEF ApplyAssumption
<1>2. grants' = [grants EXCEPT ![KeyOf[b]] = grants[KeyOf[b]] \cup PatternsOf[b]]
  BY DEF AddGrant
<1>3. \A k \in Key : grants'[k] = IF k = KeyOf[b] THEN grants[k] \cup PatternsOf[b] ELSE grants[k]
  BY <1>1, <1>2 DEF TypeOK
<1>4. Asked[b] = {KeyOf[b]} \X PatternsOf[b]
  BY DEF Asked
<1>5. ASSUME NEW k \in Key, NEW p \in Pattern
      PROVE  <<k, p>> \in Held' <=> <<k, p>> \in Held \cup Asked[b]
  BY <1>1, <1>3, <1>4, <1>5 DEF Held
<1>6. Held \subseteq Key \X Pattern /\ Held' \subseteq Key \X Pattern /\ Asked[b] \subseteq Key \X Pattern
  BY <1>1, <1>4 DEF Held
<1> QED BY <1>5, <1>6

\* What a line that RecordLine writes adds to the reports.
LEMMA RecordLineReports ==
  ASSUME ApplyInv, NEW b \in Binding, RecordLine(b)
  PROVE  /\ b \notin Reported
         /\ LinesOf(log)' = LinesOf(log) \cup {Entry(b)}
         /\ Reported' = Reported \cup {b}
         /\ Bad' = Bad \cup (IF outcome[b] = "FAILED" THEN {b} ELSE {})
         /\ Goods(past \cup LinesOf(log))'
              = Goods(past \cup LinesOf(log))
                  \cup (IF outcome[b] \in {"CREATED", "VERIFIED"} THEN {b} ELSE {})
<1>1. LinesOf(log)' = LinesOf(log) \cup {Entry(b)}
  BY LinesOfAppend DEF RecordLine, ApplyInv, TypeOK
<1>2. Entry(b).binding = b /\ Entry(b).status = outcome[b]
  BY DEF Entry
<1>3. log = results
  BY DEF RecordLine, Step, ApplyInv, LogMatchesSummary
<1>4. RowsOf(b) = {}
  BY DEF RecordLine, Step, ApplyInv, Rows
<1>5. b \notin Reported
  BY <1>3, <1>4 DEF Reported, LinesOf, RowsOf
<1>6. Reported' = Reported \cup {b}
  BY <1>1, <1>2 DEF Reported
<1>7. Bad' = Bad \cup (IF outcome[b] = "FAILED" THEN {b} ELSE {})
  BY <1>1, <1>2 DEF Bad
<1>8. past' = past
  BY DEF RecordLine
<1>9. Goods(past \cup LinesOf(log))'
        = Goods(past \cup LinesOf(log))
            \cup (IF outcome[b] \in {"CREATED", "VERIFIED"} THEN {b} ELSE {})
  BY <1>1, <1>2, <1>8 DEF Goods
<1> QED BY <1>1, <1>5, <1>6, <1>7, <1>9

\* When the main loop ends without an error, every binding has been reported and
\* none as FAILED.
LEMMA FinishReports ==
  ASSUME ApplyInv, Finish
  PROVE  /\ Reported = Binding
         /\ phase' = "ok" => Bad = {}
<1>1. log = results
  BY DEF Finish, ApplyInv, LogMatchesSummary
<1>2. \A b \in Binding : ReportedOnce(b)
  BY DEF Finish, ApplyInv, Rows
<1>3. Binding \subseteq Reported
  BY <1>1, <1>2 DEF ReportedOnce, RowsOf, Reported, LinesOf
<1>4. Reported \subseteq Binding
  <2>1. LinesOf(log) \subseteq Line
    BY DEF ApplyInv, TypeOK, LinesOf
  <2> QED BY <2>1 DEF Reported, Line
<1>5. phase' = "ok" => Bad = {}
  <2>1. phase' = "ok" => errors = {}
    BY DEF Finish
  <2> QED BY <2>1 DEF Finish, ApplyInv, FailuresBuffered, Bad
<1> QED BY <1>3, <1>4, <1>5

\* Every step of apply is a step of its promise, or leaves it alone.
LEMMA PromiseStep ==
  ASSUME ApplyAssumption, ApplyInv, ApplyInv', [Next]_vars
  PROVE  [Promise!Next]_(Promise!vars)
<1> DEFINE Good    == Goods(past \cup LinesOf(log))
           Verdict == IF phase \in {"ok", "failed"} THEN phase ELSE "none"
<1> USE DEF Held, Asked, Reported, Bad
<1>0. TypeOK
  BY DEF ApplyInv
<1>1. CASE StartRun \/ RefuseRun
  <2>1. Reported' = {} /\ Bad' = {} /\ LinesOf(log)' = {}
    BY <1>1 DEF StartRun, RefuseRun, Fresh, LinesOf
  <2>2. Good' = Good
    <3>1. past' = past \cup LinesOf(log)
      BY <1>1 DEF StartRun, RefuseRun, Fresh
    <3> QED BY <2>1, <3>1
  <2>3. Held' = Held /\ Verdict' \in {"none", "failed"}
    BY <1>1 DEF StartRun, RefuseRun, mds
  <2> QED BY <2>1, <2>2, <2>3 DEF Promise!Next, Promise!Restart
<1>2. CASE Finish
  <2>1. UNCHANGED <<log, past, grants>> /\ phase' \in {"ok", "failed"}
    BY <1>2 DEF Finish, mds
  <2>2. Reported' = Reported /\ Bad' = Bad /\ Good' = Good /\ Held' = Held
    BY <2>1 DEF LinesOf
  <2>3. Reported = Binding /\ (phase' = "ok" => Bad = {})
    BY <1>2, FinishReports
  <2>4. Verdict' = phase'
    BY <2>1
  <2> QED BY <2>1, <2>2, <2>3, <2>4 DEF Promise!Next, Promise!EndOk, Promise!EndFailed
<1>3. ASSUME NEW b \in Binding, RecordLine(b)
      PROVE  [Promise!Next]_(Promise!vars)
  <2>1. /\ b \notin Reported
        /\ Reported' = Reported \cup {b}
        /\ Bad' = Bad \cup (IF outcome[b] = "FAILED" THEN {b} ELSE {})
        /\ Good' = Good \cup (IF outcome[b] \in {"CREATED", "VERIFIED"} THEN {b} ELSE {})
    BY <1>3, RecordLineReports
  <2>2. Held' = Held /\ Verdict' = Verdict
    BY <1>3 DEF RecordLine, mds
  <2>3. outcome[b] \in {"CREATED", "VERIFIED"} => Asked[b] \subseteq Held
    BY <1>0, <1>3, GrantedIsHeld DEF RecordLine, Step, ApplyInv, Decided, Recording
  <2>4. CASE outcome[b] \in {"CREATED", "VERIFIED"}
    BY <2>1, <2>2, <2>3, <2>4 DEF Promise!Next, Promise!ReportGood
  <2>5. CASE outcome[b] = "FAILED"
    BY <2>1, <2>2, <2>5 DEF Promise!Next, Promise!ReportBad
  <2>6. CASE outcome[b] = "SKIP_EXISTS"
    BY <2>1, <2>2, <2>6 DEF Promise!Next, Promise!ReportUnverified
  <2> QED BY <1>0, <2>4, <2>5, <2>6 DEF TypeOK, Outcome
<1>4. ASSUME NEW b \in Binding, Serve(b) \/ ServeStray(b)
      PROVE  [Promise!Next]_(Promise!vars)
  <2>1. Held' = Held \cup Asked[b]
    BY <1>0, <1>4, AddGrantIsGrant DEF Serve, ServeStray
  <2>2. UNCHANGED <<phase, log, past>>
    BY <1>4 DEF Serve, ServeStray
  <2>3. Reported' = Reported /\ Bad' = Bad /\ Good' = Good /\ Verdict' = Verdict
    BY <2>2 DEF LinesOf
  <2> QED BY <2>1, <2>3 DEF Promise!Next, Promise!Grant
<1>5. CASE /\ UNCHANGED <<log, past, grants>>
           /\ phase' = phase \/ {phase, phase'} \subseteq {"idle", "running", "crashed"}
  <2>1. Reported' = Reported /\ Bad' = Bad /\ Good' = Good /\ Held' = Held
    BY <1>5 DEF LinesOf
  <2>2. Verdict' = Verdict
    BY <1>5
  <2> QED BY <2>1, <2>2 DEF Promise!vars
<1>6. CASE Dispatch \/ DispatchSkip \/ Crash
  BY <1>5, <1>6 DEF Dispatch, DispatchSkip, Crash, mds
<1>7. ASSUME NEW b \in Binding, Worker(b), ~RecordLine(b), ~Serve(b)
      PROVE  UNCHANGED <<phase, log, past, grants>>
  BY <1>7 DEF Worker, ListAnswers, ListFails, Send, Created, Transient,
              Reauthenticate, Rejected, PushError, RecordRow, Return, mds
<1>8. CASE UNCHANGED vars
  BY <1>5, <1>8 DEF vars
<1> QED BY <1>1, <1>2, <1>3, <1>4, <1>5, <1>6, <1>7, <1>8 DEF Next, Progress

\* apply keeps its promise for every plan, parallelism and number of retries, and
\* however often its process is killed.
THEOREM PromiseKept ==
  ASSUME ApplyAssumption PROVE Spec => PromiseSpec
<1>1. Init => Promise!Init
  <2> SUFFICES ASSUME Init PROVE Promise!Init
    OBVIOUS
  <2>1. past \cup LinesOf(log) = {} /\ LinesOf(log) = {} /\ phase = "idle"
    BY DEF Init, LinesOf
  <2> QED BY <2>1 DEF Promise!Init, Goods
<1>2. ApplyInv /\ ApplyInv' /\ [Next]_vars => [Promise!Next]_(Promise!vars)
  BY PromiseStep
<1> QED BY <1>1, <1>2, ApplyInvariant, PTL DEF Spec, PromiseSpec, Promise!Spec
=============================================================================
