----------------------------- MODULE AtomicFiles -----------------------------
(***************************************************************************)
(* What rundir.WriteAtomic promises (rundir/atomic.go:14-26): a file has   *)
(* its previous content or the new one, never a part of it, also after a   *)
(* power loss; and no temporary file stays unless a process was killed.    *)
(* On Windows a file may be absent while it is being replaced.             *)
(*                                                                         *)
(* After a power loss a file may have gone back to any content it had      *)
(* since the last one: nothing flushes the directory.                      *)
(***************************************************************************)
EXTENDS Naturals

CONSTANTS File, Whole(_), None

VARIABLES
  platform,
  file,       \* content of each file, or None
  past,       \* contents it has had since the last power loss
  litter,     \* temporary files left behind
  deaths      \* kills and power losses

atomicVars == <<platform, file, past, litter, deaths>>

AtomicInit ==
  /\ file = [f \in File |-> file[f]]
  /\ \A f \in File : file[f] \in Whole(f) \cup {None}
  /\ past = [f \in File |-> {file[f]}]
  /\ litter = {} /\ deaths = 0

Becomes(f, content) ==
  /\ file' = [file EXCEPT ![f] = content]
  /\ past' = [past EXCEPT ![f] = @ \cup {content}]
  /\ UNCHANGED <<platform, litter, deaths>>

Replace == \E f \in File : file'[f] \in Whole(f) /\ Becomes(f, file'[f])

Vanish == platform = "windows" /\ \E f \in File : Becomes(f, None)

Dies == deaths' = deaths + 1 /\ litter \subseteq litter'

Kill == Dies /\ UNCHANGED <<platform, file, past>>

PowerLoss ==
  /\ \A f \in File : file'[f] \in past[f]
  /\ file' = [f \in File |-> file'[f]]
  /\ past' = [f \in File |-> {file'[f]}]
  /\ Dies
  /\ UNCHANGED platform

AtomicNext == Replace \/ Vanish \/ Kill \/ PowerLoss

AtomicSpec == AtomicInit /\ [][AtomicNext]_atomicVars
=============================================================================
