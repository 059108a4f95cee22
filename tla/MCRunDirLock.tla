---------------------------- MODULE MCRunDirLock ----------------------------
(***************************************************************************)
(* Three invocations, two on one machine and one on another: enough for a  *)
(* holder, a forced acquirer and a third process that meets either.        *)
(***************************************************************************)
EXTENDS RunDirLock

CONSTANTS p1, p2, p3, h1, h2

MCProc == {p1, p2, p3}
MCHost == {h1, h2}
MCHostOf == [p \in MCProc |-> IF p = p3 THEN h2 ELSE h1]
=============================================================================
