-------------------------- MODULE RunDirLockProofs --------------------------
(***************************************************************************)
(* Proofs about RunDirLock for any number of invocations on any machines.  *)
(* Type correctness needs no assumption on the operators; the rest holds   *)
(* as long as --force-unlock is never used while another invocation runs   *)
(* (ForcePolicy "never" or "alone").  Under "gone" the invariant fails.    *)
(***************************************************************************)
EXTENDS RunDirLock, TLAPS

\* Every step keeps the types and the bound on acquire's retry loop.
LEMMA TypeStep == TypeOK /\ [Next]_vars => TypeOK'
<1> SUFFICES ASSUME TypeOK, [Next]_vars PROVE TypeOK'
  OBVIOUS
<1> USE DEF TypeOK, Quiet, Ended, Acquiring, Working, MaxAttempts, Goto, Retry
<1>1. ASSUME NEW p \in Proc, NEW force \in BOOLEAN, Begin(p, force) PROVE TypeOK'
  BY <1>1 DEF Begin
<1>2. ASSUME NEW p \in Proc, CreateWins(p) PROVE TypeOK'
  BY <1>2 DEF CreateWins
<1>3. ASSUME NEW p \in Proc, CreateLoses(p) PROVE TypeOK'
  BY <1>3 DEF CreateLoses
<1>4. ASSUME NEW p \in Proc, WriteBody(p) PROVE TypeOK'
  BY <1>4 DEF WriteBody
<1>5. ASSUME NEW p \in Proc, InspectVanished(p) PROVE TypeOK'
  BY <1>5 DEF InspectVanished
<1>6. ASSUME NEW p \in Proc, InspectRefuses(p) PROVE TypeOK'
  BY <1>6 DEF InspectRefuses, Verdicts
<1>7. ASSUME NEW p \in Proc, InspectForces(p) PROVE TypeOK'
  BY <1>7 DEF InspectForces
<1>8. ASSUME NEW p \in Proc, ForceRemove(p) PROVE TypeOK'
  BY <1>8 DEF ForceRemove
<1>9. ASSUME NEW p \in Proc, AcquireError(p) PROVE TypeOK'
  BY <1>9 DEF AcquireError
<1>10. ASSUME NEW p \in Proc, ReleaseRead(p) PROVE TypeOK'
  BY <1>10 DEF ReleaseRead
<1>11. ASSUME NEW p \in Proc, ReleaseRemove(p) PROVE TypeOK'
  BY <1>11 DEF ReleaseRemove
<1>12. ASSUME NEW p \in Proc, ReleaseError(p) PROVE TypeOK'
  BY <1>12 DEF ReleaseError
<1>13. ASSUME NEW p \in Proc, Crash(p) PROVE TypeOK'
  BY <1>13 DEF Crash
<1>14. CASE UNCHANGED vars
  BY <1>14 DEF vars
<1>15. QED
  BY <1>1, <1>2, <1>3, <1>4, <1>5, <1>6, <1>7, <1>8, <1>9, <1>10, <1>11, <1>12, <1>13, <1>14
     DEF Next

\* Types are preserved and no acquire starts a third create, whatever the
\* operators force: lockfile.go's loop runs at most twice.
THEOREM TypeCorrect == Spec => []TypeOK
<1>1. Init => TypeOK
  BY LockAssumption DEF Init, TypeOK, Quiet, Ended, Acquiring, Working, MaxAttempts
<1>2. QED
  BY <1>1, TypeStep, PTL DEF Spec

-----------------------------------------------------------------------------
(***************************************************************************)
(* The inductive invariant.  MutualExclusion alone is not inductive: that  *)
(* a second process cannot enter follows from the lockfile still being     *)
(* there (CreatorOwns), and it is still there because the only steps that  *)
(* unlink somebody else's file belong to a forced acquire (RemoverForces)  *)
(* that runs while everybody else is quiet (ForcedAlone).                  *)
(***************************************************************************)
LEMMA LockInvInit == Init => LockInv
BY LockAssumption DEF Init, LockInv, TypeOK, CreatorOwns, OwnerCreated, RemoverForces, ForcedAlone, Unlinking,
   Quiet, Ended, Acquiring, Working, MaxAttempts

\* Every step keeps the invariant, unless operators force while others run.
LEMMA LockInvStep ==
  ASSUME ForcePolicy # "gone"
  PROVE  LockInv /\ [Next]_vars => LockInv'
<1> DEFINE StepInv == CreatorOwns /\ OwnerCreated /\ RemoverForces /\ ForcedAlone
<1> SUFFICES ASSUME LockInv, [Next]_vars PROVE StepInv'
  BY TypeStep DEF LockInv
<1> USE DEF LockInv, TypeOK, CreatorOwns, OwnerCreated, RemoverForces, ForcedAlone, Unlinking,
            Quiet, Ended, Acquiring, Working, Goto, Retry
<1>1. ASSUME NEW p \in Proc, NEW force \in BOOLEAN, Begin(p, force)
      PROVE  StepInv'
  <2>1. /\ pc[p] = "idle" /\ pc' = [pc EXCEPT ![p] = "create"]
        /\ lockOwner' = lockOwner
        /\ \A q \in Proc \ {p} : q \in forced' <=> q \in forced
    BY <1>1 DEF Begin
  <2>2. ForcePolicy = "alone" => \A q \in Proc \ {p} : ~Unlinking(q)
    BY <1>1, Zenon DEF Begin, MayStart
  <2>3. p \in forced' => ForcePolicy = "alone" /\ \A q \in Proc \ {p} : pc[q] \in Quiet
    BY <1>1 DEF Begin, MayForce
  <2>4. CreatorOwns' /\ OwnerCreated' /\ RemoverForces'
    BY <2>1
  <2>5. ForcedAlone'
    BY <2>1, <2>2, <2>3
  <2>6. QED
    BY <2>4, <2>5
<1>2. ASSUME NEW p \in Proc, CreateWins(p) PROVE StepInv'
  BY <1>2, LockAssumption DEF CreateWins
<1>3. ASSUME NEW p \in Proc, CreateLoses(p) PROVE StepInv'
  BY <1>3 DEF CreateLoses
<1>4. ASSUME NEW p \in Proc, WriteBody(p) PROVE StepInv'
  BY <1>4 DEF WriteBody
<1>5. ASSUME NEW p \in Proc, InspectVanished(p) PROVE StepInv'
  BY <1>5 DEF InspectVanished
<1>6. ASSUME NEW p \in Proc, InspectRefuses(p) PROVE StepInv'
  BY <1>6 DEF InspectRefuses, Verdicts
<1>7. ASSUME NEW p \in Proc, InspectForces(p) PROVE StepInv'
  BY <1>7 DEF InspectForces
<1>8. ASSUME NEW p \in Proc, ForceRemove(p) PROVE StepInv'
  BY <1>8, LockAssumption DEF ForceRemove
<1>9. ASSUME NEW p \in Proc, AcquireError(p) PROVE StepInv'
  BY <1>9 DEF AcquireError
<1>10. ASSUME NEW p \in Proc, ReleaseRead(p) PROVE StepInv'
  BY <1>10 DEF ReleaseRead
<1>11. ASSUME NEW p \in Proc, ReleaseRemove(p) PROVE StepInv'
  BY <1>11, LockAssumption DEF ReleaseRemove
<1>12. ASSUME NEW p \in Proc, ReleaseError(p) PROVE StepInv'
  BY <1>12 DEF ReleaseError
<1>13. ASSUME NEW p \in Proc, Crash(p) PROVE StepInv'
  BY <1>13 DEF Crash
<1>14. CASE UNCHANGED vars
  BY <1>14 DEF vars
<1>15. QED
  BY <1>1, <1>2, <1>3, <1>4, <1>5, <1>6, <1>7, <1>8, <1>9, <1>10, <1>11, <1>12, <1>13, <1>14
     DEF Next

\* The invariant LockInv holds in every state the lockfile protocol reaches when
\* nobody forces a lock away from a running invocation.
THEOREM LockInvariant ==
  ASSUME ForcePolicy # "gone"
  PROVE  Spec => []LockInv
BY LockInvInit, LockInvStep, PTL DEF Spec

\* At most one invocation holds the run directory (lockfile.go acquire/Release).
THEOREM MutualExclusionHolds ==
  ASSUME ForcePolicy # "gone"
  PROVE  Spec => []MutualExclusion
<1>1. LockInv => MutualExclusion
  BY DEF LockInv, CreatorOwns, Working, MutualExclusion, InSection
<1>2. QED
  BY <1>1, LockInvariant, PTL

-----------------------------------------------------------------------------
(***************************************************************************)
(* Which steps free the lockfile.  Only three actions change lockOwner:    *)
(* CreateWins from None, ForceRemove and ReleaseRemove.                    *)
(***************************************************************************)
LEMMA WhoFrees ==
  ASSUME TypeOK, [Next]_vars, NEW o \in Proc, lockOwner = o, lockOwner' # o
  PROVE  \E p \in Proc : ForceRemove(p) \/ ReleaseRemove(p)
BY LockAssumption DEF Next, vars, Begin, CreateWins, CreateLoses, WriteBody, InspectVanished,
   InspectRefuses, InspectForces, AcquireError, ReleaseRead, ReleaseError, Crash

\* A running invocation's lockfile goes away only by its own Release, and a dead
\* one's only by a forced acquire.
LEMMA FreesProperly ==
  ASSUME LockInv, [Next]_vars, NEW o \in Proc, lockOwner = o, lockOwner' # o
  PROVE  \/ pc[o] = "releasing" /\ pc'[o] = "done"
         \/ /\ pc[o] \in Ended
            /\ \E q \in forced : pc[q] = "remove" /\ pc'[q] # "remove"
<1>1. PICK p \in Proc : ForceRemove(p) \/ ReleaseRemove(p)
  BY WhoFrees DEF LockInv
<1>2. CASE ReleaseRemove(p)
  <2>1. o = p
    BY <1>2 DEF ReleaseRemove, Goto, LockInv, CreatorOwns, Working
  <2>2. QED
    BY <1>2, <2>1 DEF ReleaseRemove, Goto, LockInv, TypeOK
<1>3. CASE ForceRemove(p)
  <2>1. pc[p] = "remove" /\ p \in forced /\ pc'[p] # "remove"
    BY <1>3 DEF ForceRemove, Retry, Goto, LockInv, TypeOK, RemoverForces
  <2>2. QED
    BY <2>1 DEF LockInv, TypeOK, ForcedAlone, Unlinking, OwnerCreated, Quiet
<1>4. QED
  BY <1>1, <1>2, <1>3

\* A running invocation's lockfile is unlinked by its own Release only.
THEOREM OnlyOwnerFreesLiveLockHolds ==
  ASSUME ForcePolicy # "gone"
  PROVE  Spec => OnlyOwnerFreesLiveLock
<1>1. ASSUME LockInv, [Next]_vars
      PROVE  [\A p \in Proc :
                lockOwner = p /\ pc[p] \notin Ended /\ lockOwner' # p
                  => pc[p] = "releasing" /\ pc'[p] = "done"]_vars
  BY <1>1, FreesProperly
<1>2. QED
  BY <1>1, LockInvariant, PTL DEF Spec, OnlyOwnerFreesLiveLock

\* A dead invocation's lockfile is removed by a forced acquire only.
THEOREM StaleLockNeedsForceHolds ==
  ASSUME ForcePolicy # "gone"
  PROVE  Spec => StaleLockNeedsForce
<1>1. ASSUME LockInv, [Next]_vars
      PROVE  [\A p \in Proc :
                lockOwner = p /\ pc[p] \in Ended /\ lockOwner' # p
                  => \E q \in forced : pc[q] = "remove" /\ pc'[q] # "remove"]_vars
  BY <1>1, FreesProperly DEF Ended
<1>2. QED
  BY <1>1, LockInvariant, PTL DEF Spec, StaleLockNeedsForce

-----------------------------------------------------------------------------
(***************************************************************************)
(* The lockfile protocol implements ExclusiveRun: each of its steps takes  *)
(* or gives up ownership, enters or leaves the section, or is invisible.   *)
(***************************************************************************)
LEMMA OneInside ==
  ASSUME LockInv, NEW p \in Proc, lockOwner = p
  PROVE  InSection = IF pc[p] = "holding" THEN {p} ELSE {}
BY DEF LockInv, CreatorOwns, Working, InSection

LEMMA NobodyInside ==
  ASSUME LockInv, lockOwner = None
  PROVE  InSection = {}
BY LockAssumption DEF LockInv, CreatorOwns, Working, InSection

\* The steps that move nobody in or out of the section and leave the lockfile.
LEMMA Invisible ==
  ASSUME TypeOK, lockOwner' = lockOwner, NEW p \in Proc, NEW to,
         pc[p] # "holding", to # "holding", pc' = [pc EXCEPT ![p] = to]
  PROVE  UNCHANGED <<lockOwner, InSection>>
BY DEF TypeOK, InSection

LEMMA ExclusiveStep ==
  ASSUME LockInv, LockInv', [Next]_vars
  PROVE  [Exclusive!Next]_(Exclusive!vars)
<1> USE DEF Exclusive!Next, Exclusive!vars, Exclusive!Take, Exclusive!Enter,
            Exclusive!Leave, Exclusive!GiveUp
<1>1. TypeOK /\ TypeOK'
  BY DEF LockInv
<1>2. ASSUME NEW p \in Proc, CreateWins(p) PROVE Exclusive!Take(p)
  <2>1. lockOwner' = p /\ pc'[p] = "write" /\ lockOwner = None
    BY <1>1, <1>2 DEF CreateWins, Goto, TypeOK
  <2>2. InSection = {} /\ InSection' = {}
    BY <2>1, NobodyInside, OneInside DEF LockInv, CreatorOwns, Working, InSection
  <2>3. QED
    BY <2>1, <2>2
<1>3. ASSUME NEW p \in Proc, WriteBody(p) PROVE Exclusive!Enter(p)
  <2>1. lockOwner = p /\ lockOwner' = p /\ pc'[p] = "holding"
    BY <1>1, <1>3 DEF WriteBody, Goto, TypeOK, LockInv, CreatorOwns
  <2>2. InSection' = {p}
    BY <1>1, <2>1 DEF LockInv, CreatorOwns, Working, InSection
  <2>3. QED
    BY <2>1, <2>2
<1>4. ASSUME NEW p \in Proc, pc[p] = "holding", pc'[p] # "holding", lockOwner' = lockOwner
      PROVE  Exclusive!Leave(p)
  <2>1. lockOwner = p
    BY <1>4 DEF LockInv, CreatorOwns, Working
  <2>2. InSection = {p} /\ InSection' = {}
    BY <1>4, <2>1 DEF LockInv, CreatorOwns, Working, InSection
  <2>3. QED
    BY <1>4, <2>2
<1>5. ASSUME NEW p \in Proc, ForceRemove(p) \/ ReleaseRemove(p)
      PROVE  [Exclusive!GiveUp]_(Exclusive!vars)
  <2>1. lockOwner' = None
    BY <1>5 DEF ForceRemove, ReleaseRemove
  <2>2. InSection' = {}
    BY <2>1, LockAssumption DEF LockInv, CreatorOwns, Working, InSection
  <2>3. InSection = {}
    <3>1. CASE ForceRemove(p)
      BY <3>1 DEF ForceRemove, Retry, Goto, LockInv, RemoverForces, ForcedAlone, Unlinking,
                  Quiet, Ended, InSection
    <3>2. CASE ReleaseRemove(p)
      BY <3>2 DEF ReleaseRemove, Goto, LockInv, CreatorOwns, Working, InSection
    <3>3. QED
      BY <1>5, <3>1, <3>2
  <2>4. QED
    BY <2>1, <2>2, <2>3
<1>6. ASSUME NEW p \in Proc, pc[p] # "holding", NEW to, to # "holding",
             pc' = [pc EXCEPT ![p] = to], lockOwner' = lockOwner
      PROVE  UNCHANGED <<lockOwner, InSection>>
  BY <1>1, <1>6, Invisible
<1>7. ASSUME NEW p \in Proc, NEW force \in BOOLEAN, Begin(p, force)
      PROVE  UNCHANGED <<lockOwner, InSection>>
  BY <1>6, <1>7 DEF Begin, Goto
<1>8. ASSUME NEW p \in Proc,
             CreateLoses(p) \/ InspectVanished(p) \/ InspectForces(p)
      PROVE  UNCHANGED <<lockOwner, InSection>>
  BY <1>6, <1>8 DEF CreateLoses, InspectVanished, InspectForces, Retry, Goto
<1>9. ASSUME NEW p \in Proc, InspectRefuses(p) \/ AcquireError(p)
      PROVE  UNCHANGED <<lockOwner, InSection>>
  BY <1>6, <1>9 DEF InspectRefuses, Verdicts, AcquireError, Acquiring, Goto
<1>10. ASSUME NEW p \in Proc, ReleaseRead(p) PROVE Exclusive!Leave(p)
  BY <1>1, <1>4, <1>10 DEF ReleaseRead, Goto, TypeOK
<1>11. ASSUME NEW p \in Proc, ReleaseError(p) \/ Crash(p)
       PROVE  Exclusive!Leave(p) \/ UNCHANGED <<lockOwner, InSection>>
  <2>1. PICK from \in Acquiring \cup Working, to \in {"done", "crashed"} :
          pc[p] = from /\ pc' = [pc EXCEPT ![p] = to] /\ lockOwner' = lockOwner
    BY <1>11 DEF ReleaseError, Crash, Goto
  <2>2. CASE from = "holding"
    BY <1>1, <1>4, <2>1, <2>2 DEF TypeOK
  <2>3. CASE from # "holding"
    BY <1>6, <2>1, <2>3
  <2>4. QED
    BY <2>2, <2>3
<1>12. CASE UNCHANGED vars
  BY <1>12 DEF vars, InSection
<1>13. QED
  BY <1>2, <1>3, <1>5, <1>7, <1>8, <1>9, <1>10, <1>11, <1>12 DEF Next

\* The protocol of lockfile.go implements exclusive ownership of the run directory.
THEOREM ExclusiveSpecHolds ==
  ASSUME ForcePolicy # "gone"
  PROVE  Spec => ExclusiveSpec
<1>1. Init => Exclusive!Init
  BY DEF Init, Exclusive!Init, InSection
<1>2. QED
  BY <1>1, LockInvariant, ExclusiveStep, PTL DEF Spec, ExclusiveSpec, Exclusive!Spec
=============================================================================
