---------------------------- MODULE MCConnection ----------------------------
(* Connection with constants that a configuration cannot write down. *)
EXTENDS Connection

CONSTANTS s1, s2

MCRemover == Sender \cup Fd
MCConnOf  == [s \in Sender |-> 4]
MCNIn     == [f \in Fd |-> 1]

=============================================================================
