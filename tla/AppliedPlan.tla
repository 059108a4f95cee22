---------------------------- MODULE AppliedPlan ----------------------------
(***************************************************************************)
(* What `apply` promises about one run, whatever happens inside it: the    *)
(* MDS only ever gains planned patterns, a binding is reported as there    *)
(* only once it is, and the run exits with success only when every binding *)
(* was reported and none of them failed.                                   *)
(***************************************************************************)
EXTENDS FiniteSets

CONSTANTS
  Binding,      \* the bindings of the plan
  Wanted        \* (key, pattern) pairs each of them asks for

VARIABLES
  granted,      \* (key, pattern) pairs the MDS holds
  good,         \* bindings reported CREATED or verified to exist, in any run
  reported,     \* bindings this run has reported on
  bad,          \* bindings this run has reported FAILED
  verdict       \* "none", "ok" or "failed"

vars == <<granted, good, reported, bad, verdict>>

Init ==
  /\ good = {} /\ reported = {} /\ bad = {}
  /\ verdict = "none"

Grant(b) ==
  /\ granted' = granted \cup Wanted[b]
  /\ UNCHANGED <<good, reported, bad, verdict>>

ReportGood(b) ==
  /\ b \notin reported /\ Wanted[b] \subseteq granted
  /\ good' = good \cup {b}
  /\ reported' = reported \cup {b}
  /\ UNCHANGED <<granted, bad, verdict>>

\* The planner had found the binding in place: reported, but not looked up.
ReportUnverified(b) ==
  /\ b \notin reported
  /\ reported' = reported \cup {b}
  /\ UNCHANGED <<granted, good, bad, verdict>>

ReportBad(b) ==
  /\ b \notin reported
  /\ reported' = reported \cup {b}
  /\ bad' = bad \cup {b}
  /\ UNCHANGED <<granted, good, verdict>>

EndOk ==
  /\ reported = Binding /\ bad = {}
  /\ verdict' = "ok"
  /\ UNCHANGED <<granted, good, reported, bad>>

EndFailed ==
  /\ verdict' = "failed"
  /\ UNCHANGED <<granted, good, reported, bad>>

\* A run ends early or a new one begins: only the MDS and the past survive.
Restart ==
  /\ reported' = {} /\ bad' = {}
  /\ verdict' \in {"none", "failed"}
  /\ UNCHANGED <<granted, good>>

Next ==
  \/ \E b \in Binding :
       Grant(b) \/ ReportGood(b) \/ ReportUnverified(b) \/ ReportBad(b)
  \/ EndOk \/ EndFailed \/ Restart

Spec == Init /\ [][Next]_vars
=============================================================================
