------------------------- MODULE MCProcessResolver -------------------------
(* Small instances of ProcessResolver for TLC. *)
EXTENDS ProcessResolver, TLC

WaiterSymmetry == Permutations(Waiters)
=============================================================================
