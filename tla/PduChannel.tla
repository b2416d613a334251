----------------------------- MODULE PduChannel -----------------------------
(***************************************************************************)
(* What a connection promises to the RPC layer: the PDUs of its senders go *)
(* out whole and one after the other, the peer's PDUs come in whole, in    *)
(* order and once each, a send that returns true has handed over all of    *)
(* its PDU, and after the connection is dead nothing moves any more.       *)
(* A send that returns false says nothing about its PDU.  This is the      *)
(* connection that RpcChan is built on; Connection implements it.          *)
(***************************************************************************)
EXTENDS Naturals, Sequences

CONSTANTS Sender,  \* the calls of connection::send, one PDU each
          NIn      \* how many PDUs the peer sends

VARIABLES up,      \* the connection is not dead_
          line,    \* the PDUs handed to the network, in order
          got,     \* the peer's PDUs that the chanmgr consumed, in order
          res      \* what each send returned

vars == <<up, line, got, res>>

Init ==
  /\ up = TRUE
  /\ line = <<>>
  /\ got = <<>>
  /\ res = [s \in Sender |-> "none"]

OnLine(s) == \E i \in 1 .. Len(line) : line[i] = s

\* The last part of the PDU of s is accepted by the network.
Transmit(s) ==
  /\ up
  /\ res[s] = "none" /\ ~OnLine(s)
  /\ line' = Append(line, s)
  /\ UNCHANGED <<up, got, res>>

\* send returns: true only for a PDU that is on the line, false only when the
\* connection is dead.
Return(s) ==
  /\ res[s] = "none"
  /\ \/ up /\ OnLine(s) /\ res' = [res EXCEPT ![s] = "true"]
     \/ ~up /\ res' = [res EXCEPT ![s] = "false"]
  /\ UNCHANGED <<up, line, got>>

\* A send that is not delayed does both in one step.
SendNow(s) ==
  /\ up
  /\ res[s] = "none" /\ ~OnLine(s)
  /\ line' = Append(line, s)
  /\ res' = [res EXCEPT ![s] = "true"]
  /\ UNCHANGED <<up, got>>

\* The next PDU of the peer is consumed.
Receive ==
  /\ up
  /\ Len(got) < NIn
  /\ got' = Append(got, Len(got) + 1)
  /\ UNCHANGED <<up, line, res>>

Die == up /\ up' = FALSE /\ UNCHANGED <<line, got, res>>

Next == Receive \/ Die \/ \E s \in Sender : Transmit(s) \/ Return(s) \/ SendNow(s)

Spec == Init /\ [][Next]_vars

=============================================================================
