------------------------------- MODULE MCTTY -------------------------------
(* Instances of TTY for TLC. *)
EXTENDS TTY, TLC

ReaderSymmetry == Permutations(Readers)
=============================================================================
