---------------------------- MODULE ExclusiveRun ----------------------------
(***************************************************************************)
(* What the run-directory lock promises its callers, with the lockfile     *)
(* left out.  One process at a time owns the run directory; only the owner *)
(* may be inside the destructive section; ownership is given up only after *)
(* the section has been left (normally, or because the process died).      *)
(* RunDirLock implements this specification as long as nobody forces a     *)
(* lock away from a process that is still running.                         *)
(***************************************************************************)
CONSTANTS Proc,    \* the processes: one per CLI invocation
          None     \* the run directory has no owner; not in Proc

VARIABLES owner,   \* the process owning the run directory, or None
          inside   \* the processes inside the destructive section

vars == <<owner, inside>>

Init == owner = None /\ inside = {}

Take(p) ==
  /\ owner = None
  /\ inside = {}
  /\ owner' = p
  /\ UNCHANGED inside

Enter(p) ==
  /\ owner = p
  /\ inside' = {p}
  /\ UNCHANGED owner

Leave(p) ==
  /\ inside = {p}
  /\ inside' = {}
  /\ UNCHANGED owner

GiveUp ==
  /\ owner # None
  /\ inside = {}
  /\ owner' = None
  /\ UNCHANGED inside

Next ==
  \/ \E p \in Proc : Take(p) \/ Enter(p) \/ Leave(p)
  \/ GiveUp

Spec == Init /\ [][Next]_vars
=============================================================================
