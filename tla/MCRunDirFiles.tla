---------------------------- MODULE MCRunDirFiles ----------------------------
EXTENDS RunDirFiles, TLC

CONSTANTS p1, p2

Symmetry == Permutations(Proc)

MCMaxCommands == "posix" :> 3 @@ "windows" :> 2
=============================================================================
