------------------------------ MODULE MCEvent ------------------------------
(***************************************************************************)
(* Event for TLC.                                                          *)
(***************************************************************************)
EXTENDS Event

CONSTANTS kernel, a, b, idle, e1, e2

Workers == {a, b}

SmallThreads == {kernel} \cup Workers

WorkerSymmetry == Permutations(Workers)
=============================================================================
