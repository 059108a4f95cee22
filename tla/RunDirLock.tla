----------------------------- MODULE RunDirLock -----------------------------
(***************************************************************************)
(* The `.lock` protocol of pkg/aclrbac/rundir/lockfile.go: acquire,        *)
(* AcquireForceUnlock and Release, as concurrent CLI invocations on one    *)
(* run directory execute them.  Every system call on the lockfile is a     *)
(* step of its own, because another process can run between any two.       *)
(*                                                                         *)
(* The lockfile is modelled by the process whose O_EXCL create made it     *)
(* (its inode) and by whether that process has written the body yet: a     *)
(* process writes through its open descriptor, so once the path has been   *)
(* unlinked its write no longer reaches the file at the path.              *)
(* A process is one invocation and runs acquire once; its random token is  *)
(* as good as its identity.                                                *)
(***************************************************************************)
EXTENDS Naturals

CONSTANTS
  Proc,         \* CLI invocations working on the run directory
  None,         \* no lockfile
  Host,         \* machines the invocations run on
  HostOf,       \* the machine of each invocation
  ForcePolicy   \* when an operator passes --force-unlock:
                \*   "never", "alone" (no other invocation is running), or
                \*   "gone"  (the process named in the lockfile is gone)

ASSUME LockAssumption ==
  /\ None \notin Proc
  /\ HostOf \in [Proc -> Host]
  /\ ForcePolicy \in {"never", "alone", "gone"}

VARIABLES
  pc,           \* where each invocation is
  forced,       \* the invocations started with --force-unlock
  attempt,      \* acquire's loop counter
  lockOwner,    \* the invocation whose create made the lockfile, or None
  lockBody      \* "written" once it holds the pid, hostname and token

vars == <<pc, forced, attempt, lockOwner, lockBody>>

MaxAttempts == 2      \* for attempt := 0; attempt < 2

Acquiring == {"create", "write", "inspect", "remove"}
Working   == {"holding", "releasing"}
Ended     == {"held", "stale", "failed", "done", "crashed"}
Quiet     == {"idle"} \cup Ended

\* Types, and that the loop never starts a third create.
TypeOK ==
  /\ pc \in [Proc -> Quiet \cup Acquiring \cup Working]
  /\ forced \in SUBSET Proc
  /\ attempt \in [Proc -> 0..MaxAttempts]
  /\ \A p \in Proc : pc[p] \in {"idle", "create", "inspect", "remove"} => attempt[p] < MaxAttempts
  /\ lockOwner \in Proc \cup {None}
  /\ lockBody \in {"empty", "written"}

Init ==
  /\ pc = [p \in Proc |-> "idle"]
  /\ forced = {}
  /\ attempt = [p \in Proc |-> 0]
  /\ lockOwner = None
  /\ lockBody = "empty"

Goto(p, from, to) ==
  /\ pc[p] = from
  /\ pc' = [pc EXCEPT ![p] = to]

-----------------------------------------------------------------------------
(* Starting an invocation *)

\* A forced acquire that may still unlink somebody's lockfile.
Unlinking(p) == p \in forced /\ pc[p] \in {"create", "inspect", "remove"}

\* What the operator made sure of before starting p with --force-unlock.
MayForce(p) ==
  \/ /\ ForcePolicy = "alone"
     /\ \A q \in Proc \ {p} : pc[q] \in Quiet
  \/ /\ ForcePolicy = "gone"
     /\ lockOwner # None /\ pc[lockOwner] \in Ended

\* Under "alone" nothing else is started while a forced acquire is under way.
MayStart(p) ==
  ForcePolicy = "alone" => \A q \in Proc \ {p} : ~Unlinking(q)

Begin(p, force) ==
  /\ MayStart(p)
  /\ force => MayForce(p)
  /\ Goto(p, "idle", "create")
  /\ forced' = IF force THEN forced \cup {p} ELSE forced \ {p}
  /\ UNCHANGED <<attempt, lockOwner, lockBody>>

-----------------------------------------------------------------------------
(* acquire *)

\* Mutant: O_EXCL dropped, the create truncates whatever is there.
CreateTruncates(p) ==
  /\ Goto(p, "create", "write")
  /\ lockOwner' = p
  /\ lockBody' = "empty"
  /\ UNCHANGED <<forced, attempt>>

\* os.OpenFile(O_CREATE|O_EXCL) succeeds: the file exists and is empty.
CreateWins(p) ==
  /\ lockOwner = None
  /\ Goto(p, "create", "write")
  /\ lockOwner' = p
  /\ lockBody' = "empty"
  /\ UNCHANGED <<forced, attempt>>

\* ErrExist: go and read what is there.
CreateLoses(p) ==
  /\ lockOwner # None
  /\ Goto(p, "create", "inspect")
  /\ UNCHANGED <<forced, attempt, lockOwner, lockBody>>

\* f.WriteString and f.Close, through the descriptor: acquire returns the lock
\* whether or not the path still leads to this file.
WriteBody(p) ==
  /\ Goto(p, "write", "holding")
  /\ lockBody' = IF lockOwner = p THEN "written" ELSE lockBody
  /\ UNCHANGED <<forced, attempt, lockOwner>>

\* Mutant: the loop no longer gives up.
RetryForever(p, from) ==
  /\ Goto(p, from, "create")
  /\ attempt' = [attempt EXCEPT ![p] = @ + 1]

\* The next turn of the loop, or "could not acquire lock ... after retry".
Retry(p, from) ==
  /\ Goto(p, from, IF attempt[p] + 1 < MaxAttempts THEN "create" ELSE "failed")
  /\ attempt' = [attempt EXCEPT ![p] = @ + 1]

\* os.ReadFile finds the lockfile gone again.
InspectVanished(p) ==
  /\ lockOwner = None
  /\ Retry(p, "inspect")
  /\ UNCHANGED <<forced, lockOwner, lockBody>>

\* pidAliveOnHost: an empty body parses as pid 0 and another host cannot be probed,
\* so both count as dead.  On this host either answer may come: the pid of a process
\* that has ended may belong to a new one, and Unix's signal 0 to a live process of
\* another user fails, so that it counts as dead too (lockfile_unix.go:20).
Verdicts(p) ==
  IF lockBody = "empty" \/ HostOf[lockOwner] # HostOf[p] THEN {"stale"} ELSE {"held", "stale"}

\* Mutant: a stale lockfile is cleaned up without --force-unlock.
InspectReclaims(p) ==
  /\ lockOwner # None
  /\ p \notin forced
  /\ \E verdict \in Verdicts(p) :
       Goto(p, "inspect", IF verdict = "stale" THEN "remove" ELSE "held")
  /\ UNCHANGED <<forced, attempt, lockOwner, lockBody>>

\* Without --force-unlock both verdicts are errors, and the lockfile stays.
InspectRefuses(p) ==
  /\ lockOwner # None
  /\ p \notin forced
  /\ \E verdict \in Verdicts(p) : Goto(p, "inspect", verdict)
  /\ UNCHANGED <<forced, attempt, lockOwner, lockBody>>

InspectForces(p) ==
  /\ lockOwner # None
  /\ p \in forced
  /\ Goto(p, "inspect", "remove")
  /\ UNCHANGED <<forced, attempt, lockOwner, lockBody>>

\* os.Remove(path): whatever is at the path now; ErrNotExist is ignored.
ForceRemove(p) ==
  /\ Retry(p, "remove")
  /\ lockOwner' = None
  /\ lockBody' = "empty"
  /\ UNCHANGED forced

\* Any other error of a file operation ends the invocation where it stands: a
\* failed write of the body leaves the lockfile behind.
AcquireError(p) ==
  /\ \E from \in Acquiring : Goto(p, from, "failed")
  /\ UNCHANGED <<forced, attempt, lockOwner, lockBody>>

-----------------------------------------------------------------------------
(* Release *)

\* ReadFile and the token test: only our own token lets Remove follow.
ReleaseRead(p) ==
  /\ Goto(p, "holding", IF lockOwner = p /\ lockBody = "written" THEN "releasing" ELSE "done")
  /\ UNCHANGED <<forced, attempt, lockOwner, lockBody>>

\* os.Remove(l.path): by path, whoever's file is there now.
ReleaseRemove(p) ==
  /\ Goto(p, "releasing", "done")
  /\ lockOwner' = None
  /\ lockBody' = "empty"
  /\ UNCHANGED <<forced, attempt>>

\* A read or remove error of Release is dropped by the deferred call.
ReleaseError(p) ==
  /\ \E from \in Working : Goto(p, from, "done")
  /\ UNCHANGED <<forced, attempt, lockOwner, lockBody>>

-----------------------------------------------------------------------------
\* The process is killed: nothing it deferred runs, the lockfile stays.
Crash(p) ==
  /\ \E from \in Acquiring \cup Working : Goto(p, from, "crashed")
  /\ UNCHANGED <<forced, attempt, lockOwner, lockBody>>

Next ==
  \E p \in Proc :
    \/ \E force \in BOOLEAN : Begin(p, force)
    \/ CreateWins(p)
    \/ CreateLoses(p)
    \/ WriteBody(p)
    \/ InspectVanished(p)
    \/ InspectRefuses(p)
    \/ InspectForces(p)
    \/ ForceRemove(p)
    \/ AcquireError(p)
    \/ ReleaseRead(p)
    \/ ReleaseRemove(p)
    \/ ReleaseError(p)
    \/ Crash(p)

Spec == Init /\ [][Next]_vars

-----------------------------------------------------------------------------
(* Properties *)

InSection == {p \in Proc : pc[p] = "holding"}

\* At most one invocation believes it holds the run directory: apply's writes to
\* apply.log and to the MDS are serialised (acquire and Release together).
MutualExclusion == \A p, q \in InSection : p = q

\* A lockfile made by a process that is still running goes away only when that
\* process releases it: neither a forced acquire nor another process's Release,
\* whose token test and unlink are two steps, takes it away.
OnlyOwnerFreesLiveLock ==
  [][\A p \in Proc :
       lockOwner = p /\ pc[p] \notin Ended /\ lockOwner' # p
         => pc[p] = "releasing" /\ pc'[p] = "done"]_vars

\* A lockfile left behind by a dead process is never cleaned up on the side: it
\* takes an invocation started with --force-unlock to remove it.
StaleLockNeedsForce ==
  [][\A p \in Proc :
       lockOwner = p /\ pc[p] \in Ended /\ lockOwner' # p
         => \E q \in forced : pc[q] = "remove" /\ pc'[q] # "remove"]_vars

\* The lockfile protocol implements exclusive ownership of the run directory.
Exclusive == INSTANCE ExclusiveRun WITH owner <- lockOwner, inside <- InSection
ExclusiveSpec == Exclusive!Spec

\* The inductive strengthening: whoever created the lockfile and has not ended
\* still finds it there, and a forced acquire runs with nobody else about.
CreatorOwns ==
  \A p \in Proc : pc[p] \in {"write"} \cup Working => lockOwner = p

OwnerCreated ==
  \A p \in Proc : pc[p] \in {"idle", "create", "inspect", "remove"} => lockOwner # p

RemoverForces ==
  \A p \in Proc : pc[p] = "remove" => p \in forced

ForcedAlone ==
  \A p \in Proc : Unlinking(p) =>
    ForcePolicy = "alone" /\ \A q \in Proc \ {p} : pc[q] \in Quiet

LockInv == TypeOK /\ CreatorOwns /\ OwnerCreated /\ RemoverForces /\ ForcedAlone
=============================================================================
