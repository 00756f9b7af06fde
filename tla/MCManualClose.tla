---------------------------- MODULE MCManualClose ----------------------------
(* The closers are interchangeable. *)
EXTENDS ManualClose, TLC

Symmetry == Permutations(Closers)
=============================================================================
