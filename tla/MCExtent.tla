------------------------------ MODULE MCExtent ------------------------------
(* ExtentServer for TLC: what the blocks contain is interchangeable. *)
EXTENDS ExtentServer, TLC

Symmetry == Permutations(Val)

=============================================================================
