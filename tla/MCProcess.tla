----------------------------- MODULE MCProcess -----------------------------
(***************************************************************************)
(* Process for TLC.                                                        *)
(***************************************************************************)
EXTENDS Process, TLC

CONSTANTS init, a, b, c, d

PidArgs == {-1, 0} \cup 2 .. MaxPid

GroupArgs == -MaxPid .. 0

ForkedSymmetry == Permutations(Procs \ {init})
=============================================================================
