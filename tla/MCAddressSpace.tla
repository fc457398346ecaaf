--------------------------- MODULE MCAddressSpace ---------------------------
(* Instances of AddressSpace for TLC. *)
EXTENDS AddressSpace, TLC

\* Two programs, one of them where MAP_FIXED may map.
TwoImages == {[base |-> 2, size |-> 1], [base |-> 3, size |-> 1]}

OneImage == {[base |-> 2, size |-> 1]}
=============================================================================
