-------------------------- MODULE MCPhysicalMemory --------------------------
(* A small machine: a low zone at address 0 too small for the early heap,   *)
(* reclaimable and kernel zones between the usable ones.                    *)
EXTENDS PhysicalMemory, TLC

SmallMap == << [base |-> 0,  length |-> 2, type |-> "usable"],
               [base |-> 2,  length |-> 1, type |-> "reclaimable"],
               [base |-> 3,  length |-> 6, type |-> "usable"],
               [base |-> 9,  length |-> 1, type |-> "kernel"],
               [base |-> 10, length |-> 2, type |-> "usable"],
               [base |-> 12, length |-> 1, type |-> "reserved"] >>

CallerSymmetry == Permutations(Callers)
=============================================================================
