------------------------------- MODULE MCRpc --------------------------------
(* Small instances of Rpc for TLC.  Threads and jobs are interchangeable.    *)
EXTENDS Rpc, TLC

Symmetry == Permutations(Thread) \cup Permutations(Worker)

=============================================================================
