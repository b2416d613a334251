-------------------------------- MODULE Fifo --------------------------------
(***************************************************************************)
(* fifo<T>: a bounded queue with a mutex and two condition variables.  The *)
(* mutex is held except inside pthread_cond_wait, so that one pass through *)
(* the loop of enq or deq is one step, and a thread that waits and a       *)
(* thread that was signalled but has not yet the mutex again differ only   *)
(* in being in the set of waiters.  The caller's program counter says      *)
(* which threads are inside enq or deq.                                    *)
(***************************************************************************)
EXTENDS Naturals, Sequences

CONSTANT Limit        \* max_; 0 is no limit

ASSUME LimitAssumption == Limit \in Nat

VARIABLES q,          \* q_
          emptyWait,  \* the threads waiting for non_empty_c_
          fullWait    \* the threads waiting for has_space_c_

fifoVars == <<q, emptyWait, fullWait>>

FifoInit == q = <<>> /\ emptyWait = {} /\ fullWait = {}

\* W2 is W after pthread_cond_signal: one waiting thread, if any, leaves.
Signal(W, W2) == IF W = {} THEN W2 = {} ELSE \E t \in W : W2 = W \ {t}

HasSpace == Limit = 0 \/ Len(q) < Limit

\* Mutant: only the transition from empty to non-empty is signalled.
SignalFirst == IF q = <<>> THEN Signal(emptyWait, emptyWait') ELSE UNCHANGED emptyWait

\* The signal after push_back, whatever was in the queue before.
SignalNonEmpty == Signal(emptyWait, emptyWait')

\* Mutant: only the transition from full to not full is signalled.
SignalWhenFull ==
  IF Limit # 0 /\ Len(q) = Limit THEN Signal(fullWait, fullWait') ELSE UNCHANGED fullWait

\* The signal after pop_front; the queue is then shorter than max_.
SignalHasSpace == IF Limit # 0 THEN Signal(fullWait, fullWait') ELSE UNCHANGED fullWait

\* Mutant: the queue is a stack.
PushFront(e) == <<e>> \o q

PushBack(e) == Append(q, e)

\* enq(e): there is room.
enq(t, e) ==
  /\ t \notin fullWait
  /\ HasSpace
  /\ q' = PushBack(e)
  /\ SignalNonEmpty
  /\ UNCHANGED fullWait

\* enq(e, true) waits, enq(e, false) returns false.
enq_waits(t) ==
  /\ t \notin fullWait
  /\ ~HasSpace
  /\ fullWait' = fullWait \cup {t}
  /\ UNCHANGED <<q, emptyWait>>

enq_refused(t) ==
  /\ t \notin fullWait
  /\ ~HasSpace
  /\ UNCHANGED fifoVars

\* deq(): the front is taken; e is the value returned.
deq(t, e) ==
  /\ t \notin emptyWait
  /\ q # <<>>
  /\ e = Head(q)
  /\ q' = Tail(q)
  /\ SignalHasSpace
  /\ UNCHANGED emptyWait

deq_waits(t) ==
  /\ t \notin emptyWait
  /\ q = <<>>
  /\ emptyWait' = emptyWait \cup {t}
  /\ UNCHANGED <<q, fullWait>>

\* pthread_cond_wait may return although nobody signalled.
SpuriousWakeup ==
  \/ /\ \E t \in emptyWait : emptyWait' = emptyWait \ {t}
     /\ UNCHANGED <<q, fullWait>>
  \/ /\ \E t \in fullWait : fullWait' = fullWait \ {t}
     /\ UNCHANGED <<q, emptyWait>>

=============================================================================
