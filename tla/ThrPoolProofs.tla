---------------------------- MODULE ThrPoolProofs ----------------------------
(***************************************************************************)
(* The fifo's condition variables never lose a wakeup, for any number of   *)
(* workers, of adding threads and of jobs, and any limit of the queue; and *)
(* a pool with a worker leaves no job behind when it is destroyed.         *)
(***************************************************************************)
EXTENDS ThrPool, FiniteSetTheorems, TLAPS

Inv == TypeOK /\ HoldsJob /\ WaitersInv /\ NoLostWakeup

-----------------------------------------------------------------------------
\* A signal leaves one more of the threads in S awake, if any still sleeps.
LEMMA SignalWakesOne ==
  ASSUME NEW S, IsFiniteSet(S), NEW W, W \subseteq S, NEW W2, Signal(W, W2), W2 # {}
  PROVE  W # {} /\ Cardinality(S \ W2) = Cardinality(S \ W) + 1
<1>1. PICK t \in W : W2 = W \ {t}
  BY DEF Signal
<1>2. S \ W2 = (S \ W) \cup {t} /\ t \notin S \ W
  BY <1>1
<1>3. IsFiniteSet(S \ W)
  BY FS_Subset
<1> QED
  BY <1>1, <1>2, <1>3, FS_AddElement

\* A thread that is awake leaves S: one awake thread less.
LEMMA OneLeaves ==
  ASSUME NEW S, IsFiniteSet(S), NEW W, NEW t \in S \ W
  PROVE  Cardinality((S \ {t}) \ W) = Cardinality(S \ W) - 1
<1>1. (S \ {t}) \ W = (S \ W) \ {t}
  OBVIOUS
<1>2. IsFiniteSet(S \ W)
  BY FS_Subset
<1> QED
  BY <1>1, <1>2, FS_RemoveElement

\* More threads in S, or fewer asleep: at least as many awake.
LEMMA MoreAwake ==
  ASSUME NEW S, NEW S2, IsFiniteSet(S2), S \subseteq S2, NEW W, NEW W2, W2 \subseteq W
  PROVE  Cardinality(S \ W) <= Cardinality(S2 \ W2)
<1>1. S \ W \subseteq S2 \ W2
  OBVIOUS
<1>2. IsFiniteSet(S2 \ W2)
  BY FS_Subset
<1> QED
  BY <1>1, <1>2, FS_Subset

\* The number of awake threads is a natural number.
LEMMA AwakeNat ==
  ASSUME NEW S, IsFiniteSet(S), NEW W
  PROVE  Cardinality(S \ W) \in Nat
BY FS_Subset, FS_CardinalityType

\* The threads inside enq, whatever their program counters, are finitely many.
LEMMA FiniteEnq ==
  ASSUME NEW f, NEW d
  PROVE  IsFiniteSet({a \in Adder : f[a] = "enq"} \cup (IF d = "pills" THEN {Dtor} ELSE {}))
<1>1. IsFiniteSet({a \in Adder : f[a] = "enq"})
  BY FS_Subset, PoolConstants
<1>2. IsFiniteSet({a \in Adder : f[a] = "enq"} \cup {Dtor})
  BY <1>1, FS_AddElement
<1>3. CASE d = "pills"
  BY <1>2, <1>3
<1>4. CASE d # "pills"
  <2>1. {a \in Adder : f[a] = "enq"} \cup (IF d = "pills" THEN {Dtor} ELSE {})
          = {a \in Adder : f[a] = "enq"}
    BY <1>4
  <2> QED BY <2>1, <1>1
<1> QED BY <1>3, <1>4

\* The threads inside deq and enq are finitely many, before and after a step.
LEMMA FiniteThreads ==
  /\ IsFiniteSet(InDeq) /\ IsFiniteSet(InDeq')
  /\ IsFiniteSet(InEnq) /\ IsFiniteSet(InEnq')
<1>1. IsFiniteSet(InDeq) /\ IsFiniteSet(InDeq')
  BY FS_Subset, PoolConstants DEF InDeq
<1>2. IsFiniteSet(InEnq) /\ IsFiniteSet(InEnq')
  BY FiniteEnq DEF InEnq
<1> QED BY <1>1, <1>2

-----------------------------------------------------------------------------
\* The pool starts with an empty queue and no sleeping thread.
LEMMA InitInv == Init => Inv
<1> SUFFICES ASSUME Init PROVE Inv
  OBVIOUS
<1>1. Cardinality(Worker) \in Nat
  BY FS_CardinalityType, PoolConstants
<1> QED
  BY <1>1, PoolConstants DEF Inv, Init, FifoInit, TypeOK, HoldsJob, WaitersInv,
                                NoLostWakeup, NoAdder, Jobs, Pill

\* addObjJob begins: one more thread awake in enq.
LEMMA addJob_Inv ==
  ASSUME Inv, NEW a \in Adder, addJob(a)
  PROVE  Inv'
<1>1. TypeOK' /\ HoldsJob'
  BY PoolConstants DEF Inv, TypeOK, HoldsJob, addJob, fifoVars, Jobs
<1>2. InDeq' = InDeq /\ InEnq \subseteq InEnq'
  BY DEF Inv, TypeOK, addJob, InDeq, InEnq
<1>3. WaitersInv'
  BY <1>2 DEF Inv, WaitersInv, addJob, fifoVars, NoAdder
<1>4. Cardinality(InEnq \ fullWait) <= Cardinality(InEnq' \ fullWait)
  BY <1>2, FiniteThreads, MoreAwake
<1>5. Cardinality(InEnq \ fullWait) \in Nat /\ Cardinality(InEnq' \ fullWait) \in Nat
  BY FiniteThreads, AwakeNat
<1>6. NoLostWakeup'
  <2>1. UNCHANGED <<q, emptyWait, fullWait>>
    BY DEF addJob, fifoVars
  <2>2. Len(q) \in Nat
    BY DEF Inv, TypeOK
  <2> QED
    BY <1>2, <1>4, <1>5, <2>1, <2>2, LimitAssumption DEF Inv, NoLostWakeup
<1> QED BY <1>1, <1>3, <1>6 DEF Inv

\* enq wakes a sleeping worker for the job it adds.
LEMMA enq_WakesWorker ==
  ASSUME Inv, NEW t, NEW e \in Jobs \cup {Pill}, enq(t, e), InDeq' = InDeq
  PROVE  /\ q' \in Seq(Jobs \cup {Pill}) /\ Len(q') = Len(q) + 1
         /\ emptyWait' \subseteq emptyWait
         /\ emptyWait' # {} => Len(q') <= Cardinality(InDeq' \ emptyWait')
<1>1. q' \in Seq(Jobs \cup {Pill}) /\ Len(q') = Len(q) + 1
  BY DEF Inv, TypeOK, enq, PushBack
<1>2. emptyWait' \subseteq emptyWait
  BY DEF enq, SignalNonEmpty, Signal
<1>3. ASSUME emptyWait' # {} PROVE Len(q') <= Cardinality(InDeq' \ emptyWait')
  <2>1. /\ emptyWait # {}
        /\ Cardinality(InDeq \ emptyWait') = Cardinality(InDeq \ emptyWait) + 1
    BY <1>3, SignalWakesOne, FiniteThreads DEF Inv, WaitersInv, enq, SignalNonEmpty
  <2>2. Cardinality(InDeq \ emptyWait) \in Nat
    BY FiniteThreads, AwakeNat
  <2>3. Len(q) \in Nat
    BY DEF Inv, TypeOK
  <2>4. Len(q) <= Cardinality(InDeq \ emptyWait)
    BY <2>1 DEF Inv, NoLostWakeup
  <2> QED BY <1>1, <2>1, <2>2, <2>3, <2>4
<1> QED BY <1>1, <1>2, <1>3

\* An adding thread enqueues its job, goes to sleep or is refused.
LEMMA addJob_enq_Inv ==
  ASSUME Inv, NEW a \in Adder, addJob_enq(a)
  PROVE  Inv'
<1>1. InDeq' = InDeq /\ dpc' = dpc /\ pills' = pills /\ apc[a] = "enq" /\ a \in InEnq
  BY DEF addJob_enq, InDeq, InEnq
<1>2. Len(q) \in Nat /\ dpc = "idle" /\ a # Dtor
  BY <1>1, PoolConstants DEF Inv, TypeOK, WaitersInv, NoAdder
<1>3. CASE enq(a, ajob[a]) /\ accepted' = accepted \cup {ajob[a]}
           /\ apc' = [apc EXCEPT ![a] = "idle"]
  <2>1. a \in InEnq \ fullWait
    BY <1>1, <1>3 DEF enq
  <2>2. ajob[a] \in Jobs \cup {Pill}
    BY DEF Inv, TypeOK
  <2>3. /\ q' \in Seq(Jobs \cup {Pill}) /\ Len(q') = Len(q) + 1
        /\ emptyWait' \subseteq emptyWait
        /\ emptyWait' # {} => Len(q') <= Cardinality(InDeq' \ emptyWait')
    BY <1>1, <1>3, <2>2, enq_WakesWorker
  <2>4. InEnq' = InEnq \ {a} /\ fullWait' = fullWait
    BY <1>1, <1>2, <1>3 DEF InEnq, enq, Inv, TypeOK
  <2>5. Cardinality(InEnq' \ fullWait') = Cardinality(InEnq \ fullWait) - 1
    BY <2>1, <2>4, FiniteThreads, OneLeaves
  <2>6. Cardinality(InEnq \ fullWait) \in Nat
    BY FiniteThreads, AwakeNat
  <2>7. NoLostWakeup'
    BY <1>2, <2>3, <2>4, <2>5, <2>6, LimitAssumption DEF Inv, NoLostWakeup
  <2>8. WaitersInv'
    BY <1>1, <1>2, <2>1, <2>3, <2>4 DEF Inv, WaitersInv
  <2>9. TypeOK' /\ HoldsJob'
    BY <1>1, <1>3, <2>3, <2>4 DEF Inv, TypeOK, HoldsJob, addJob_enq
  <2> QED BY <2>7, <2>8, <2>9 DEF Inv
<1>4. CASE enq_waits(a) /\ UNCHANGED <<accepted, apc>>
  <2>1. /\ q' = q /\ emptyWait' = emptyWait /\ fullWait' = fullWait \cup {a}
        /\ InEnq' = InEnq /\ Limit <= Len(q)
    BY <1>1, <1>2, <1>4, LimitAssumption DEF enq_waits, HasSpace, InEnq
  <2>2. Cardinality(InEnq' \ fullWait') \in Nat
    BY FiniteThreads, AwakeNat
  <2>3. NoLostWakeup'
    BY <1>1, <1>2, <2>1, <2>2, LimitAssumption DEF Inv, NoLostWakeup
  <2>4. WaitersInv'
    BY <1>1, <1>2, <1>4, <2>1 DEF Inv, WaitersInv, NoAdder
  <2>5. TypeOK' /\ HoldsJob'
    BY <1>1, <1>4, <2>1 DEF Inv, TypeOK, HoldsJob, addJob_enq
  <2> QED BY <2>3, <2>4, <2>5 DEF Inv
<1>5. CASE enq_refused(a) /\ apc' = [apc EXCEPT ![a] = "idle"] /\ UNCHANGED accepted
  <2>1. /\ UNCHANGED <<q, emptyWait, fullWait>> /\ a \notin fullWait
        /\ InEnq' = InEnq \ {a} /\ Limit <= Len(q)
    BY <1>1, <1>2, <1>5, LimitAssumption
    DEF enq_refused, fifoVars, HasSpace, InEnq, Inv, TypeOK
  <2>2. Cardinality(InEnq' \ fullWait') \in Nat
    BY FiniteThreads, AwakeNat
  <2>3. NoLostWakeup'
    BY <1>1, <1>2, <2>1, <2>2, LimitAssumption DEF Inv, NoLostWakeup
  <2>4. WaitersInv'
    BY <1>1, <1>2, <2>1 DEF Inv, WaitersInv
  <2>5. TypeOK' /\ HoldsJob'
    BY <1>1, <1>5, <2>1 DEF Inv, TypeOK, HoldsJob, addJob_enq
  <2> QED BY <2>3, <2>4, <2>5 DEF Inv
<1> QED BY <1>3, <1>4, <1>5 DEF addJob_enq

-----------------------------------------------------------------------------
\* A worker takes a job, and wakes a sleeping adder for the free place, or goes
\* to sleep on an empty queue.
LEMMA takeJob_Inv ==
  ASSUME Inv, NEW w \in Worker, takeJob(w)
  PROVE  Inv'
<1>1. /\ wpc[w] = "deq" /\ w \in InDeq /\ InEnq' = InEnq
      /\ UNCHANGED <<blockadd_, apc, ajob, dpc, pills, offered, accepted, finished>>
  BY DEF takeJob, InDeq, InEnq
<1>2. Len(q) \in Nat
  BY DEF Inv, TypeOK
<1>3. ASSUME NEW e \in Jobs \cup {Pill}, deq(w, e),
             wpc' = [wpc EXCEPT ![w] = AfterTake(e)], wjob' = [wjob EXCEPT ![w] = e]
      PROVE  Inv'
  <2>1. q' \in Seq(Jobs \cup {Pill}) /\ Len(q') = Len(q) - 1
    BY <1>3 DEF Inv, TypeOK, deq
  <2>2. w \in InDeq \ emptyWait /\ InDeq' = InDeq \ {w} /\ emptyWait' = emptyWait
    BY <1>1, <1>3 DEF deq, InDeq, AfterTake, Inv, TypeOK
  <2>3. emptyWait' # {} => Len(q') <= Cardinality(InDeq' \ emptyWait')
    <3>1. Cardinality(InDeq' \ emptyWait') = Cardinality(InDeq \ emptyWait) - 1
      BY <2>2, FiniteThreads, OneLeaves
    <3>2. Cardinality(InDeq \ emptyWait) \in Nat
      BY FiniteThreads, AwakeNat
    <3> QED BY <1>2, <2>1, <2>2, <3>1, <3>2 DEF Inv, NoLostWakeup
  <2>4. fullWait' \subseteq fullWait
    BY <1>3 DEF deq, SignalHasSpace, Signal
  <2>5. ASSUME fullWait' # {}
        PROVE  Limit <= Len(q') + Cardinality(InEnq' \ fullWait')
    <3>1. CASE Limit = 0
      <4>1. Cardinality(InEnq' \ fullWait') \in Nat
        BY FiniteThreads, AwakeNat
      <4>2. Len(q') \in Nat
        BY <2>1
      <4> QED BY <3>1, <4>1, <4>2
    <3>2. CASE Limit # 0
      <4>1. /\ fullWait # {}
            /\ Cardinality(InEnq \ fullWait') = Cardinality(InEnq \ fullWait) + 1
        BY <1>3, <2>5, <3>2, SignalWakesOne, FiniteThreads
        DEF Inv, WaitersInv, deq, SignalHasSpace
      <4>2. Cardinality(InEnq \ fullWait) \in Nat
        BY FiniteThreads, AwakeNat
      <4> QED
        BY <1>1, <1>2, <2>1, <4>1, <4>2, LimitAssumption DEF Inv, NoLostWakeup
    <3> QED BY <3>1, <3>2
  <2>6. NoLostWakeup'
    BY <2>3, <2>5 DEF NoLostWakeup
  <2>7. WaitersInv'
    BY <1>1, <2>2, <2>4 DEF Inv, WaitersInv, NoAdder
  <2>8. TypeOK' /\ HoldsJob'
    BY <1>1, <1>3, <2>1, <2>2, <2>4 DEF Inv, TypeOK, HoldsJob, AfterTake
  <2> QED BY <2>6, <2>7, <2>8 DEF Inv
<1>4. CASE deq_waits(w) /\ UNCHANGED <<wpc, wjob>>
  <2>1. /\ q' = q /\ Len(q) = 0 /\ fullWait' = fullWait /\ InDeq' = InDeq
        /\ emptyWait' = emptyWait \cup {w}
    BY <1>4 DEF deq_waits, InDeq
  <2>2. Cardinality(InDeq' \ emptyWait') \in Nat
    BY FiniteThreads, AwakeNat
  <2>3. NoLostWakeup'
    BY <1>1, <2>1, <2>2 DEF Inv, NoLostWakeup
  <2>4. WaitersInv'
    BY <1>1, <2>1 DEF Inv, WaitersInv, NoAdder
  <2>5. TypeOK' /\ HoldsJob'
    BY <1>1, <1>4, <2>1 DEF Inv, TypeOK, HoldsJob
  <2> QED BY <2>3, <2>4, <2>5 DEF Inv
<1> QED BY <1>3, <1>4 DEF takeJob

\* A worker finishes its job: one more thread awake in deq.
LEMMA run_job_Inv ==
  ASSUME Inv, NEW w \in Worker, run_job(w)
  PROVE  Inv'
<1>1. /\ UNCHANGED <<q, emptyWait, fullWait, apc, dpc, pills>>
      /\ InEnq' = InEnq /\ InDeq \subseteq InDeq'
  BY DEF run_job, fifoVars, InEnq, InDeq, Inv, TypeOK
<1>2. TypeOK' /\ HoldsJob'
  BY <1>1 DEF Inv, TypeOK, HoldsJob, run_job
<1>3. WaitersInv'
  BY <1>1 DEF Inv, WaitersInv, NoAdder
<1>4. Cardinality(InDeq \ emptyWait) <= Cardinality(InDeq' \ emptyWait)
  BY <1>1, FiniteThreads, MoreAwake
<1>5. Cardinality(InDeq \ emptyWait) \in Nat /\ Cardinality(InDeq' \ emptyWait) \in Nat
  BY FiniteThreads, AwakeNat
<1>6. Len(q) \in Nat
  BY DEF Inv, TypeOK
<1>7. NoLostWakeup'
  BY <1>1, <1>4, <1>5, <1>6 DEF Inv, NoLostWakeup
<1> QED BY <1>2, <1>3, <1>7 DEF Inv

\* A thread wakes up without a signal.
LEMMA SpuriousWakeup_Inv ==
  ASSUME Inv, SpuriousWakeup, UNCHANGED poolVars
  PROVE  Inv'
<1>1. /\ q' = q /\ InEnq' = InEnq /\ InDeq' = InDeq
      /\ emptyWait' \subseteq emptyWait /\ fullWait' \subseteq fullWait
  BY DEF SpuriousWakeup, poolVars, InEnq, InDeq
<1>2. TypeOK' /\ HoldsJob'
  BY <1>1 DEF Inv, TypeOK, HoldsJob, poolVars
<1>3. WaitersInv'
  BY <1>1 DEF Inv, WaitersInv, NoAdder, poolVars
<1>4. Cardinality(InDeq \ emptyWait) <= Cardinality(InDeq' \ emptyWait')
  BY <1>1, FiniteThreads, MoreAwake
<1>5. Cardinality(InDeq \ emptyWait) \in Nat /\ Cardinality(InDeq' \ emptyWait') \in Nat
  BY FiniteThreads, AwakeNat
<1>6. Cardinality(InEnq \ fullWait) <= Cardinality(InEnq' \ fullWait')
  BY <1>1, FiniteThreads, MoreAwake
<1>7. Cardinality(InEnq \ fullWait) \in Nat /\ Cardinality(InEnq' \ fullWait') \in Nat
  BY FiniteThreads, AwakeNat
<1>8. Len(q) \in Nat
  BY DEF Inv, TypeOK
<1>9. emptyWait' # {} => Len(q') <= Cardinality(InDeq' \ emptyWait')
  <2>1. emptyWait' # {} => emptyWait # {}
    BY <1>1
  <2> QED BY <1>1, <1>4, <1>5, <1>8, <2>1 DEF Inv, NoLostWakeup
<1>10. fullWait' # {} => Limit <= Len(q') + Cardinality(InEnq' \ fullWait')
  <2>1. fullWait' # {} => fullWait # {}
    BY <1>1
  <2> QED BY <1>1, <1>6, <1>7, <1>8, <2>1, LimitAssumption DEF Inv, NoLostWakeup
<1> QED BY <1>2, <1>3, <1>9, <1>10 DEF Inv, NoLostWakeup

-----------------------------------------------------------------------------
\* ~ThrPool begins: one more thread awake in enq.
LEMMA destroy_Inv ==
  ASSUME Inv, destroy
  PROVE  Inv'
<1>1. /\ UNCHANGED <<q, emptyWait, fullWait, apc>>
      /\ InDeq' = InDeq /\ InEnq \subseteq InEnq'
  BY DEF destroy, fifoVars, InEnq, InDeq
<1>2. TypeOK' /\ HoldsJob'
  BY <1>1 DEF Inv, TypeOK, HoldsJob, destroy
<1>3. WaitersInv'
  <2>1. Dtor \notin fullWait /\ NoAdder
    BY DEF Inv, WaitersInv, destroy
  <2> QED BY <1>1, <2>1 DEF Inv, WaitersInv, NoAdder
<1>4. Cardinality(InEnq \ fullWait) <= Cardinality(InEnq' \ fullWait)
  BY <1>1, FiniteThreads, MoreAwake
<1>5. Cardinality(InEnq \ fullWait) \in Nat /\ Cardinality(InEnq' \ fullWait) \in Nat
  BY FiniteThreads, AwakeNat
<1>6. Len(q) \in Nat
  BY DEF Inv, TypeOK
<1>7. NoLostWakeup'
  BY <1>1, <1>4, <1>5, <1>6, LimitAssumption DEF Inv, NoLostWakeup
<1> QED BY <1>2, <1>3, <1>7 DEF Inv

\* ~ThrPool enqueues a pill, goes to sleep, or has enqueued them all.
LEMMA poison_Inv ==
  ASSUME Inv, poison
  PROVE  Inv'
<1>1. /\ dpc = "pills" /\ InDeq' = InDeq /\ Len(q) \in Nat /\ NoAdder
      /\ UNCHANGED <<blockadd_, apc, ajob, wpc, wjob, offered, accepted, finished>>
  BY DEF poison, InDeq, Inv, TypeOK, WaitersInv
<1>2. Cardinality(Worker) \in Nat /\ pills \in 0 .. Cardinality(Worker)
  BY FS_CardinalityType, PoolConstants DEF Inv, TypeOK
<1>3. CASE MorePills /\ enq(Dtor, Pill) /\ pills' = pills - 1 /\ dpc' = dpc
  <2>1. /\ q' \in Seq(Jobs \cup {Pill}) /\ Len(q') = Len(q) + 1
        /\ emptyWait' \subseteq emptyWait
        /\ emptyWait' # {} => Len(q') <= Cardinality(InDeq' \ emptyWait')
    BY <1>1, <1>3, enq_WakesWorker
  <2>2. InEnq' = InEnq /\ fullWait' = fullWait /\ Dtor \notin fullWait
    BY <1>1, <1>3 DEF InEnq, enq
  <2>3. Cardinality(InEnq \ fullWait) \in Nat
    BY FiniteThreads, AwakeNat
  <2>4. NoLostWakeup'
    BY <1>1, <2>1, <2>2, <2>3, LimitAssumption DEF Inv, NoLostWakeup
  <2>5. WaitersInv'
    BY <1>1, <1>3, <2>1, <2>2 DEF Inv, WaitersInv, NoAdder
  <2>6. TypeOK' /\ HoldsJob'
    BY <1>1, <1>2, <1>3, <2>1, <2>2 DEF Inv, TypeOK, HoldsJob, MorePills
  <2> QED BY <2>4, <2>5, <2>6 DEF Inv
<1>4. CASE MorePills /\ enq_waits(Dtor) /\ UNCHANGED pills /\ dpc' = dpc
  <2>1. /\ q' = q /\ emptyWait' = emptyWait /\ fullWait' = fullWait \cup {Dtor}
        /\ InEnq' = InEnq /\ Dtor \in InEnq /\ Limit <= Len(q)
    BY <1>1, <1>4, LimitAssumption DEF enq_waits, HasSpace, InEnq
  <2>2. Cardinality(InEnq' \ fullWait') \in Nat
    BY FiniteThreads, AwakeNat
  <2>3. NoLostWakeup'
    BY <1>1, <2>1, <2>2, LimitAssumption DEF Inv, NoLostWakeup
  <2>4. WaitersInv'
    BY <1>1, <1>4, <2>1 DEF Inv, WaitersInv, NoAdder, MorePills
  <2>5. TypeOK' /\ HoldsJob'
    BY <1>1, <1>4, <2>1 DEF Inv, TypeOK, HoldsJob
  <2> QED BY <2>3, <2>4, <2>5 DEF Inv
<1>5. CASE ~MorePills /\ dpc' = "join" /\ UNCHANGED <<pills, fifoVars>>
  <2>1. UNCHANGED <<q, emptyWait, fullWait>>
    BY <1>5 DEF fifoVars
  <2>2. fullWait = {}
    <3>1. Dtor \notin fullWait
      BY <1>2, <1>5 DEF Inv, WaitersInv, MorePills
    <3>2. InEnq \subseteq {Dtor}
      BY <1>1 DEF InEnq, NoAdder
    <3> QED BY <3>1, <3>2 DEF Inv, WaitersInv
  <2>3. NoLostWakeup'
    BY <1>1, <2>1, <2>2 DEF Inv, NoLostWakeup
  <2>4. WaitersInv'
    BY <1>1, <2>1, <2>2 DEF Inv, WaitersInv, NoAdder
  <2>5. TypeOK' /\ HoldsJob'
    BY <1>1, <1>5, <2>1 DEF Inv, TypeOK, HoldsJob
  <2> QED BY <2>3, <2>4, <2>5 DEF Inv
<1> QED BY <1>3, <1>4, <1>5 DEF poison

\* ~ThrPool has joined its workers.
LEMMA join_Inv ==
  ASSUME Inv, join
  PROVE  Inv'
<1>1. /\ UNCHANGED <<q, emptyWait, fullWait, apc>>
      /\ InDeq' = InDeq /\ InEnq' = InEnq
  BY DEF join, fifoVars, InEnq, InDeq
<1>2. TypeOK' /\ HoldsJob'
  BY <1>1 DEF Inv, TypeOK, HoldsJob, join
<1>3. WaitersInv'
  BY <1>1 DEF Inv, WaitersInv, NoAdder, join
<1>4. NoLostWakeup'
  BY <1>1 DEF Inv, NoLostWakeup
<1> QED BY <1>2, <1>3, <1>4 DEF Inv

\* Nothing changes.
LEMMA stutter_Inv ==
  ASSUME Inv, UNCHANGED vars
  PROVE  Inv'
<1>1. InDeq' = InDeq /\ InEnq' = InEnq
  BY DEF vars, poolVars, InDeq, InEnq
<1> QED
  BY <1>1 DEF Inv, TypeOK, HoldsJob, WaitersInv, NoLostWakeup, NoAdder, vars, poolVars, fifoVars

-----------------------------------------------------------------------------
\* The pool keeps its invariant.
LEMMA InvHolds == Spec => []Inv
<1>1. Inv /\ [Next]_vars => Inv'
  <2> SUFFICES ASSUME Inv, [Next]_vars PROVE Inv'
    OBVIOUS
  <2> QED
    BY addJob_Inv, addJob_enq_Inv, takeJob_Inv, run_job_Inv, SpuriousWakeup_Inv,
       destroy_Inv, poison_Inv, join_Inv, stutter_Inv
    DEF Next, Terminated
<1> QED BY <1>1, InitInv, PTL DEF Spec

\* Every variable of the pool has its type; in particular ~ThrPool never
\* enqueues more pills than there are workers.
THEOREM PoolTypeCorrect == Spec => []TypeOK
BY InvHolds, PTL DEF Inv

\* Whatever the number of workers, adding threads and jobs and the limit of the
\* queue, the single pthread_cond_signal after each enq and each deq suffices:
\* no worker sleeps while a job waits that nobody awake will take, and no
\* adding thread while a place is free that nobody awake will fill.
THEOREM NoLostWakeupCorrect == Spec => []NoLostWakeup
BY InvHolds, PTL DEF Inv

-----------------------------------------------------------------------------
(* Every accepted job is run before the pool is gone. *)

\* The parts of JobsInv.
Taken  == {wjob[w] : w \in {v \in Worker : wpc[v] = "run"}}
Queued == {q[i] : i \in {k \in 1 .. Len(q) : q[k] # Pill}}

\* What PillsInv says of the first n elements of the queue.
JobsThenPills(n) ==
  /\ \A i \in 1 .. Len(q) : q[i] = Pill <=> i > n
  /\ (Len(q) - n) + pills + Cardinality(Exited) = Cardinality(Worker)
  /\ Exited # {} => n = 0
  /\ dpc = "idle" => n = Len(q)

EndInv == JobsInv /\ PillsInv

\* The numbers in PillsInv.
LEMMA EndNumbers ==
  ASSUME TypeOK
  PROVE  /\ Len(q) \in Nat /\ Cardinality(Worker) \in Nat /\ pills \in Nat
         /\ IsFiniteSet(Exited) /\ Cardinality(Exited) \in Nat
         /\ Cardinality(Exited) = 0 <=> Exited = {}
<1>1. Cardinality(Worker) \in Nat
  BY PoolConstants, FS_CardinalityType
<1>2. IsFiniteSet(Exited)
  BY PoolConstants, FS_Subset DEF Exited
<1>3. Cardinality(Exited) \in Nat /\ (Cardinality(Exited) = 0 <=> Exited = {})
  BY <1>2, FS_CardinalityType, FS_EmptySet
<1>4. Len(q) \in Nat /\ pills \in Nat
  BY <1>1 DEF TypeOK
<1> QED
  BY <1>1, <1>2, <1>3, <1>4

\* Steps that leave the queue, the pills and the workers alone.
LEMMA EndFrame ==
  ASSUME EndInv, UNCHANGED <<q, accepted, finished, wpc, wjob, pills, dpc>>
  PROVE  EndInv'
BY DEF EndInv, JobsInv, PillsInv, Exited

\* In the beginning there are no jobs.
LEMMA InitEnd == Init => EndInv
<1> SUFFICES ASSUME Init PROVE EndInv
  OBVIOUS
<1>1. TypeOK
  BY InitInv DEF Inv
<1>2. q = <<>> /\ Len(q) = 0
  BY DEF Init, FifoInit
<1>3. Exited = {}
  BY DEF Init, Exited
<1>4. Taken = {} /\ Queued = {}
  BY <1>2 DEF Init, Taken, Queued
<1>5. JobsInv
  BY <1>4 DEF Init, JobsInv, Taken, Queued
<1>6. JobsThenPills(0)
  BY <1>1, <1>2, <1>3, EndNumbers DEF JobsThenPills, Init
<1>7. PillsInv
  BY <1>2, <1>6 DEF Init, PillsInv, JobsThenPills
<1> QED
  BY <1>5, <1>7 DEF EndInv

\* A job is added while the pool is not being destroyed: all of the queue is jobs.
LEMMA addJob_enq_End ==
  ASSUME Inv, EndInv, NEW a \in Adder, addJob_enq(a)
  PROVE  EndInv'
<1>1. /\ apc[a] = "enq" /\ UNCHANGED <<blockadd_, ajob, wpc, wjob, dpc, pills, offered, finished>>
  BY DEF addJob_enq
<1>2. TypeOK /\ ajob[a] \in Jobs /\ dpc = "idle" /\ ajob[a] # Pill
  BY <1>1 DEF Inv, HoldsJob, WaitersInv, NoAdder, Jobs, Pill
<1>3. CASE enq(a, ajob[a]) /\ accepted' = accepted \cup {ajob[a]}
  <2>1. q' = Append(q, ajob[a]) /\ q \in Seq(Jobs \cup {Pill})
    BY <1>2, <1>3 DEF enq, PushBack, TypeOK
  <2>2. /\ Len(q) \in Nat /\ Len(q') = Len(q) + 1 /\ q'[Len(q) + 1] = ajob[a]
        /\ \A i \in 1 .. Len(q) : q'[i] = q[i]
    BY <1>2, <2>1
  <2>3. Queued' = Queued \cup {ajob[a]} /\ Taken' = Taken
    <3>1. \A i \in 1 .. Len(q') : i \in 1 .. Len(q) \/ i = Len(q) + 1
      BY <2>2
    <3>2. Len(q) + 1 \in 1 .. Len(q') /\ \A i \in 1 .. Len(q) : i \in 1 .. Len(q')
      BY <2>2
    <3> QED BY <1>1, <1>2, <2>2, <3>1, <3>2 DEF Queued, Taken
  <2>4. JobsInv'
    BY <1>1, <1>3, <2>3 DEF EndInv, JobsInv, Queued, Taken
  <2>5. PICK n \in 0 .. Len(q) : JobsThenPills(n)
    BY DEF EndInv, PillsInv, JobsThenPills
  <2>6. n = Len(q)
    BY <1>2, <2>5 DEF JobsThenPills
  <2>7. Exited' = Exited /\ Exited = {}
    <3>1. Cardinality(Exited) = 0
      BY <1>2, <2>2, <2>5, <2>6, EndNumbers DEF EndInv, PillsInv, JobsThenPills
    <3> QED BY <1>1, <1>2, <3>1, EndNumbers DEF Exited
  <2>8. PICK m \in Nat : m = Len(q')
    BY <2>2
  <2>9. JobsThenPills(m)'
    <3>1. ASSUME NEW i \in 1 .. Len(q') PROVE q'[i] # Pill /\ ~(i > m)
      BY <1>2, <2>2, <2>5, <2>6, <2>8 DEF JobsThenPills
    <3>2. (Len(q') - m) + pills + Cardinality(Exited) = Cardinality(Worker)
      BY <1>2, <2>2, <2>5, <2>6, <2>8, EndNumbers DEF JobsThenPills
    <3> QED BY <1>1, <2>7, <2>8, <3>1, <3>2 DEF JobsThenPills
  <2>10. PillsInv'
    <3>1. m \in 0 .. Len(q')
      BY <2>8
    <3> QED BY <1>1, <1>2, <2>9, <3>1 DEF EndInv, PillsInv, JobsThenPills
  <2> QED BY <2>4, <2>10 DEF EndInv
<1>4. CASE q' = q /\ UNCHANGED accepted
  BY <1>1, <1>4, EndFrame
<1> QED
  BY <1>3, <1>4 DEF addJob_enq, enq_waits, enq_refused, fifoVars

\* A worker takes the front: a job, which it will run, or a pill, and it exits.
LEMMA takeJob_End ==
  ASSUME Inv, EndInv, NEW w \in Worker, takeJob(w)
  PROVE  EndInv'
<1>1. /\ wpc[w] = "deq" /\ UNCHANGED <<blockadd_, apc, ajob, dpc, pills, offered, accepted, finished>>
  BY DEF takeJob
<1>2. TypeOK
  BY DEF Inv
<1>3. ASSUME NEW e \in Jobs \cup {Pill}, deq(w, e), wpc' = [wpc EXCEPT ![w] = AfterTake(e)],
             wjob' = [wjob EXCEPT ![w] = e]
      PROVE  EndInv'
  <2>1. q # <<>> /\ q \in Seq(Jobs \cup {Pill}) /\ q' = Tail(q) /\ e = q[1]
    BY <1>2, <1>3 DEF deq, TypeOK
  <2>2. /\ Len(q) \in Nat /\ Len(q) >= 1 /\ Len(q') = Len(q) - 1
        /\ \A i \in 1 .. Len(q') : q'[i] = q[i + 1]
    BY <2>1
  <2>3. /\ wpc'[w] = AfterTake(e) /\ wjob'[w] = e
        /\ \A v \in Worker : v # w => wpc'[v] = wpc[v] /\ wjob'[v] = wjob[v]
    BY <1>2, <1>3 DEF TypeOK
  <2>4. PICK n \in 0 .. Len(q) : JobsThenPills(n)
    BY DEF EndInv, PillsInv, JobsThenPills
  <2>5. Queued = Queued' \cup (IF e = Pill THEN {} ELSE {e})
    <3>1. Queued \subseteq Queued' \cup (IF e = Pill THEN {} ELSE {e})
      <4> SUFFICES ASSUME NEW i \in 1 .. Len(q), q[i] # Pill
                   PROVE  q[i] \in Queued' \/ (e # Pill /\ q[i] = e)
        BY DEF Queued
      <4>1. CASE i = 1
        BY <2>1, <4>1
      <4>2. CASE i # 1
        <5>1. i - 1 \in 1 .. Len(q') /\ q'[i - 1] = q[i]
          BY <2>2, <4>2
        <5> QED BY <5>1 DEF Queued
      <4> QED BY <4>1, <4>2
    <3>2. Queued' \subseteq Queued
      <4> SUFFICES ASSUME NEW i \in 1 .. Len(q'), q'[i] # Pill PROVE q'[i] \in Queued
        BY DEF Queued
      <4>1. i + 1 \in 1 .. Len(q) /\ q[i + 1] = q'[i]
        BY <2>2
      <4> QED BY <4>1 DEF Queued
    <3>3. e # Pill => e \in Queued
      <4>1. 1 \in 1 .. Len(q)
        BY <2>2
      <4> QED BY <2>1, <4>1 DEF Queued
    <3> QED BY <3>1, <3>2, <3>3
  <2>6. CASE e # Pill
    <3>1. Taken' = Taken \cup {e}
      <4>1. \A v \in Worker : wpc'[v] = "run" <=> wpc[v] = "run" \/ v = w
        BY <1>1, <2>3, <2>6 DEF AfterTake
      <4> QED BY <1>1, <2>3, <2>6, <4>1 DEF Taken, AfterTake
    <3>2. JobsInv'
      BY <1>1, <2>5, <2>6, <3>1 DEF EndInv, JobsInv, Queued, Taken
    <3>3. Exited' = Exited
      BY <1>1, <2>3, <2>6 DEF Exited, AfterTake
    <3>4. n >= 1
      <4>1. 1 \in 1 .. Len(q)
        BY <2>2
      <4>2. ~(1 > n)
        BY <2>1, <2>4, <2>6, <4>1 DEF JobsThenPills
      <4> QED BY <4>2
    <3>5. JobsThenPills(n - 1)'
      <4>1. ASSUME NEW i \in 1 .. Len(q') PROVE q'[i] = Pill <=> i > n - 1
        <5>1. i + 1 \in 1 .. Len(q) /\ q'[i] = q[i + 1]
          BY <2>2
        <5>2. q[i + 1] = Pill <=> i + 1 > n
          BY <2>4, <5>1 DEF JobsThenPills
        <5> QED BY <2>2, <5>1, <5>2
      <4>2. (Len(q') - (n - 1)) + pills + Cardinality(Exited) = Cardinality(Worker)
        BY <1>2, <2>2, <2>4, EndNumbers DEF JobsThenPills
      <4>3. Exited = {}
        BY <2>4, <3>4 DEF JobsThenPills
      <4>4. dpc = "idle" => n - 1 = Len(q')
        BY <2>2, <2>4 DEF JobsThenPills
      <4> QED BY <1>1, <3>3, <4>1, <4>2, <4>3, <4>4 DEF JobsThenPills
    <3>6. PillsInv'
      <4>1. n - 1 \in 0 .. Len(q')
        BY <2>2, <3>4
      <4>2. dpc' = "done" => Exited' = Worker
        BY <1>1, <3>3 DEF EndInv, PillsInv
      <4> QED BY <1>1, <3>5, <4>1, <4>2 DEF EndInv, PillsInv, JobsThenPills
    <3> QED BY <3>2, <3>6 DEF EndInv
  <2>7. CASE e = Pill
    <3>1. Taken' = Taken
      <4>1. \A v \in Worker : wpc'[v] = "run" <=> wpc[v] = "run"
        BY <1>1, <2>3, <2>7 DEF AfterTake
      <4> QED BY <1>1, <2>3, <4>1 DEF Taken
    <3>2. JobsInv'
      BY <1>1, <2>5, <2>7, <3>1 DEF EndInv, JobsInv, Queued, Taken
    <3>3. Exited' = Exited \cup {w} /\ w \notin Exited
      BY <1>1, <2>3, <2>7 DEF Exited, AfterTake
    <3>4. Cardinality(Exited') = Cardinality(Exited) + 1
      BY <1>2, <3>3, EndNumbers, FS_AddElement
    <3>5. n = 0 /\ dpc # "idle"
      <4>1. 1 \in 1 .. Len(q)
        BY <2>2
      <4>2. 1 > n
        BY <2>1, <2>4, <2>7, <4>1 DEF JobsThenPills
      <4> QED BY <2>2, <2>4, <4>2 DEF JobsThenPills
    <3>6. JobsThenPills(0)'
      <4>1. ASSUME NEW i \in 1 .. Len(q') PROVE q'[i] = Pill /\ i > 0
        <5>1. i + 1 \in 1 .. Len(q) /\ q'[i] = q[i + 1]
          BY <2>2
        <5>2. q[i + 1] = Pill <=> i + 1 > n
          BY <2>4, <5>1 DEF JobsThenPills
        <5> QED BY <2>2, <3>5, <5>1, <5>2
      <4>2. (Len(q') - 0) + pills + Cardinality(Exited') = Cardinality(Worker)
        BY <1>2, <2>2, <2>4, <3>4, <3>5, EndNumbers DEF JobsThenPills
      <4> QED BY <1>1, <3>5, <4>1, <4>2 DEF JobsThenPills
    <3>7. PillsInv'
      <4>1. 0 \in 0 .. Len(q')
        BY <2>2
      <4>2. dpc' = "done" => Exited' = Worker
        BY <1>1, <3>3 DEF EndInv, PillsInv
      <4> QED BY <1>1, <3>5, <3>6, <4>1, <4>2 DEF EndInv, PillsInv, JobsThenPills
    <3> QED BY <3>2, <3>7 DEF EndInv
  <2> QED BY <2>6, <2>7
<1>4. CASE deq_waits(w) /\ UNCHANGED <<wpc, wjob>>
  BY <1>1, <1>4, EndFrame DEF deq_waits
<1> QED
  BY <1>3, <1>4 DEF takeJob

\* A worker finishes its job.
LEMMA run_job_End ==
  ASSUME Inv, EndInv, NEW w \in Worker, run_job(w)
  PROVE  EndInv'
<1>1. /\ wpc[w] = "run" /\ finished' = finished \cup {wjob[w]}
      /\ wpc' = [wpc EXCEPT ![w] = "deq"]
      /\ UNCHANGED <<q, accepted, wjob, pills, dpc>>
  BY DEF run_job, fifoVars
<1>2. /\ wpc'[w] = "deq" /\ \A v \in Worker : v # w => wpc'[v] = wpc[v]
  BY <1>1 DEF Inv, TypeOK
<1>3. Exited' = Exited
  BY <1>1, <1>2 DEF Exited
<1>4. finished' \cup Taken' = finished \cup Taken
  BY <1>1, <1>2 DEF Taken
<1>5. JobsInv'
  BY <1>1, <1>4 DEF EndInv, JobsInv, Taken
<1>6. PillsInv'
  BY <1>1, <1>3 DEF EndInv, PillsInv
<1> QED
  BY <1>5, <1>6 DEF EndInv

\* ~ThrPool begins, enqueues a pill, or waits, or joins.
LEMMA dtor_End ==
  ASSUME Inv, EndInv, destroy \/ poison \/ join
  PROVE  EndInv'
<1>1. TypeOK /\ UNCHANGED <<wpc, wjob, accepted, finished>>
  BY DEF Inv, destroy, poison, join
<1>2. Exited' = Exited
  BY <1>1 DEF Exited
<1>3. CASE q' = q /\ pills' = pills
  <2>1. JobsInv'
    BY <1>1, <1>3 DEF EndInv, JobsInv
  <2>2. /\ dpc' = "idle" => dpc = "idle"
        /\ dpc' \in {"join", "done"} => pills = 0
        /\ dpc' = "done" => Exited = Worker
    BY <1>1, <1>3, EndNumbers DEF EndInv, PillsInv, destroy, poison, join, MorePills, Exited
  <2>3. PillsInv'
    BY <1>2, <1>3, <2>2 DEF EndInv, PillsInv
  <2> QED BY <2>1, <2>3 DEF EndInv
<1>4. CASE poison /\ MorePills /\ enq(Dtor, Pill) /\ pills' = pills - 1 /\ dpc' = dpc
  <2>1. q' = Append(q, Pill) /\ q \in Seq(Jobs \cup {Pill}) /\ dpc = "pills" /\ pills > 0
    BY <1>1, <1>4 DEF enq, PushBack, TypeOK, poison, MorePills
  <2>2. /\ Len(q) \in Nat /\ Len(q') = Len(q) + 1 /\ q'[Len(q) + 1] = Pill
        /\ \A i \in 1 .. Len(q) : q'[i] = q[i]
    BY <2>1
  <2>3. \A i \in 1 .. Len(q') : i \in 1 .. Len(q) \/ i = Len(q) + 1
    BY <2>2
  <2>4. Queued' = Queued /\ Taken' = Taken
    <3>1. \A i \in 1 .. Len(q) : i \in 1 .. Len(q')
      BY <2>2
    <3> QED BY <1>1, <2>2, <2>3, <3>1 DEF Queued, Taken
  <2>5. JobsInv'
    BY <1>1, <2>4 DEF EndInv, JobsInv, Queued, Taken
  <2>6. PICK n \in 0 .. Len(q) : JobsThenPills(n)
    BY DEF EndInv, PillsInv, JobsThenPills
  <2>7. JobsThenPills(n)'
    <3>1. ASSUME NEW i \in 1 .. Len(q') PROVE q'[i] = Pill <=> i > n
      <4>1. CASE i \in 1 .. Len(q)
        BY <2>2, <2>6, <4>1 DEF JobsThenPills
      <4>2. CASE i = Len(q) + 1
        BY <2>2, <4>2
      <4> QED BY <2>3, <4>1, <4>2
    <3>2. (Len(q') - n) + pills' + Cardinality(Exited) = Cardinality(Worker)
      BY <1>1, <1>4, <2>2, <2>6, EndNumbers DEF JobsThenPills
    <3>3. Exited # {} => n = 0
      BY <2>6 DEF JobsThenPills
    <3> QED BY <1>2, <1>4, <2>1, <3>1, <3>2, <3>3 DEF JobsThenPills
  <2>8. PillsInv'
    <3>1. n \in 0 .. Len(q')
      BY <2>2
    <3> QED BY <1>4, <2>1, <2>7, <3>1 DEF PillsInv, JobsThenPills
  <2> QED BY <2>5, <2>8 DEF EndInv
<1> QED
  BY <1>3, <1>4 DEF destroy, poison, join, fifoVars, enq_waits

\* The pool keeps this invariant too.
LEMMA EndHolds == Spec => [](Inv /\ EndInv)
<1>1. Inv /\ EndInv /\ [Next]_vars => EndInv'
  <2> SUFFICES ASSUME Inv, EndInv, [Next]_vars PROVE EndInv'
    OBVIOUS
  <2>1. ASSUME NEW a \in Adder, addJob(a) PROVE EndInv'
    BY <2>1, EndFrame DEF addJob, fifoVars
  <2>2. CASE SpuriousWakeup /\ UNCHANGED poolVars
    BY <2>2, EndFrame DEF SpuriousWakeup, poolVars
  <2>3. CASE UNCHANGED vars
    BY <2>3, EndFrame DEF vars, poolVars, fifoVars
  <2> QED
    BY <2>1, <2>2, <2>3, addJob_enq_End, takeJob_End, run_job_End, dtor_End DEF Next, Terminated
<1> QED
  BY <1>1, InvHolds, InitEnd, PTL DEF Spec

\* A pool with at least one worker has run every job it accepted when ~ThrPool
\* returns: the pills are behind all jobs, and the last worker to exit has seen
\* the last of them.
THEOREM NothingLeftCorrect == Worker # {} => (Spec => []NothingLeft)
<1> SUFFICES ASSUME Worker # {} PROVE Spec => []NothingLeft
  OBVIOUS
<1>1. Inv /\ EndInv => NothingLeft
  <2> SUFFICES ASSUME Inv, EndInv, dpc = "done" PROVE finished = accepted /\ q = <<>>
    BY DEF NothingLeft
  <2>1. TypeOK /\ Exited = Worker /\ Exited # {} /\ pills = 0
    BY DEF Inv, EndInv, PillsInv
  <2>2. PICK n \in 0 .. Len(q) : JobsThenPills(n)
    BY DEF EndInv, PillsInv, JobsThenPills
  <2>3. Len(q) = 0
    BY <2>1, <2>2, EndNumbers DEF JobsThenPills
  <2>4. q = <<>>
    BY <2>1, <2>3 DEF TypeOK
  <2>5. Taken = {} /\ Queued = {}
    BY <2>1, <2>3 DEF Exited, Taken, Queued
  <2> QED BY <2>4, <2>5 DEF EndInv, JobsInv, Taken, Queued
<1> QED
  BY <1>1, EndHolds, PTL

=============================================================================
