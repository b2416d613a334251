------------------------------ MODULE ThrPool -------------------------------
(***************************************************************************)
(* ThrPool: threads that add jobs, worker threads that take and run them,  *)
(* and one thread that destroys the pool with one poison pill per worker.  *)
(* rpcs has a pool of 6 workers that does not block when it is full.       *)
(***************************************************************************)
EXTENDS Fifo, FiniteSets

CONSTANTS Worker,    \* th_; nthreads_ is their number
          Adder,     \* threads that call addObjJob
          Dtor,      \* the thread that runs ~ThrPool
          MaxJobs    \* bound on the jobs ever offered

ASSUME PoolConstants ==
  /\ IsFiniteSet(Worker) /\ IsFiniteSet(Adder) /\ Dtor \notin Adder
  /\ MaxJobs \in Nat

Jobs == 1 .. MaxJobs
Pill == 0             \* a job_t whose f is NULL

VARIABLES
  blockadd_,  \* whether addJob waits when the queue is full; fixed at construction
  apc, ajob,  \* each adding thread: its place, and the job it adds
  wpc, wjob,  \* each worker: its place, and the job it has taken
  dpc,        \* the destroying thread
  pills,      \* poison pills still to be enqueued
  offered,    \* history: the jobs passed to addJob are 1 .. offered
  accepted,   \* history: the jobs for which addJob returned true
  finished    \* history: the jobs that have been run

poolVars == <<blockadd_, apc, ajob, wpc, wjob, dpc, pills, offered, accepted, finished>>
vars     == <<poolVars, fifoVars>>

TypeOK ==
  /\ q \in Seq(Jobs \cup {Pill})
  /\ emptyWait \subseteq Worker
  /\ fullWait \subseteq Adder \cup {Dtor}
  /\ blockadd_ \in BOOLEAN
  /\ apc \in [Adder -> {"idle", "enq"}]
  /\ ajob \in [Adder -> Jobs \cup {Pill}]
  /\ wpc \in [Worker -> {"deq", "run", "exited"}]
  /\ wjob \in [Worker -> Jobs \cup {Pill}]
  /\ dpc \in {"idle", "pills", "join", "done"}
  /\ pills \in 0 .. Cardinality(Worker)
  /\ offered \in 0 .. MaxJobs
  /\ accepted \subseteq Jobs
  /\ finished \subseteq Jobs

\* ThrPool::ThrPool
Init ==
  /\ FifoInit
  /\ blockadd_ \in BOOLEAN
  /\ apc = [a \in Adder |-> "idle"]
  /\ ajob = [a \in Adder |-> Pill]
  /\ wpc = [w \in Worker |-> "deq"]
  /\ wjob = [w \in Worker |-> Pill]
  /\ dpc = "idle"
  /\ pills = Cardinality(Worker)
  /\ offered = 0
  /\ accepted = {}
  /\ finished = {}

-----------------------------------------------------------------------------
\* addObjJob is called; ~ThrPool must not have been.
addJob(a) ==
  /\ apc[a] = "idle"
  /\ dpc = "idle"
  /\ offered < MaxJobs
  /\ offered' = offered + 1
  /\ ajob' = [ajob EXCEPT ![a] = offered + 1]
  /\ apc' = [apc EXCEPT ![a] = "enq"]
  /\ UNCHANGED <<blockadd_, wpc, wjob, dpc, pills, accepted, finished, fifoVars>>

\* addJob inside enq: the job is added, or the thread waits, or false is
\* returned.
addJob_enq(a) ==
  /\ apc[a] = "enq"
  /\ \/ /\ enq(a, ajob[a])
        /\ accepted' = accepted \cup {ajob[a]}
        /\ apc' = [apc EXCEPT ![a] = "idle"]
     \/ /\ blockadd_
        /\ enq_waits(a)
        /\ UNCHANGED <<accepted, apc>>
     \/ /\ ~blockadd_
        /\ enq_refused(a)
        /\ apc' = [apc EXCEPT ![a] = "idle"]
        /\ UNCHANGED accepted
  /\ UNCHANGED <<blockadd_, ajob, wpc, wjob, dpc, pills, offered, finished>>

-----------------------------------------------------------------------------
\* do_worker after takeJob: a pill ends the thread, a job is run.
AfterTake(e) == IF e = Pill THEN "exited" ELSE "run"

takeJob(w) ==
  /\ wpc[w] = "deq"
  /\ \/ \E e \in Jobs \cup {Pill} :
           /\ deq(w, e)
           /\ wpc' = [wpc EXCEPT ![w] = AfterTake(e)]
           /\ wjob' = [wjob EXCEPT ![w] = e]
     \/ deq_waits(w) /\ UNCHANGED <<wpc, wjob>>
  /\ UNCHANGED <<blockadd_, apc, ajob, dpc, pills, offered, accepted, finished>>

\* j.f returns.
run_job(w) ==
  /\ wpc[w] = "run"
  /\ finished' = finished \cup {wjob[w]}
  /\ wpc' = [wpc EXCEPT ![w] = "deq"]
  /\ UNCHANGED <<blockadd_, apc, ajob, wjob, dpc, pills, offered, accepted, fifoVars>>

-----------------------------------------------------------------------------
\* The caller's duty: no other thread is inside the pool, or will be.
NoAdder == \A a \in Adder : apc[a] = "idle"

\* ~ThrPool begins.
destroy ==
  /\ dpc = "idle"
  /\ NoAdder
  /\ dpc' = "pills"
  /\ UNCHANGED <<blockadd_, apc, ajob, wpc, wjob, pills, offered, accepted, finished, fifoVars>>

\* Mutant: one pill too many.
MorePillsThanWorkers == pills >= 0

MorePills == pills > 0

\* The first loop: one pill for every worker, always with a blocking enq.
poison ==
  /\ dpc = "pills"
  /\ \/ /\ MorePills
        /\ \/ enq(Dtor, Pill) /\ pills' = pills - 1
           \/ enq_waits(Dtor) /\ UNCHANGED pills
        /\ UNCHANGED dpc
     \/ /\ ~MorePills
        /\ dpc' = "join"
        /\ UNCHANGED <<pills, fifoVars>>
  /\ UNCHANGED <<blockadd_, apc, ajob, wpc, wjob, offered, accepted, finished>>

\* The second loop: pthread_join of every worker.
join ==
  /\ dpc = "join"
  /\ \A w \in Worker : wpc[w] = "exited"
  /\ dpc' = "done"
  /\ UNCHANGED <<blockadd_, apc, ajob, wpc, wjob, pills, offered, accepted, finished, fifoVars>>

-----------------------------------------------------------------------------
\* The pool has been destroyed; nothing is left to do.
Terminated == dpc = "done" /\ UNCHANGED vars

Next ==
  \/ \E a \in Adder : addJob(a) \/ addJob_enq(a)
  \/ \E w \in Worker : takeJob(w) \/ run_job(w)
  \/ destroy \/ poison \/ join
  \/ SpuriousWakeup /\ UNCHANGED poolVars
  \/ Terminated

Spec == Init /\ [][Next]_vars

\* Threads that are not waiting are scheduled and get the mutex, and every job
\* returns.  No thread is bound to add a job or to destroy the pool.
Fairness ==
  /\ \A w \in Worker : WF_vars(takeJob(w)) /\ WF_vars(run_job(w))
  /\ \A a \in Adder : WF_vars(addJob_enq(a))
  /\ WF_vars(poison) /\ WF_vars(join)

FairSpec == Spec /\ Fairness

-----------------------------------------------------------------------------
\* The threads inside deq, and the threads inside enq.
InDeq == {w \in Worker : wpc[w] = "deq"}
InEnq == {a \in Adder : apc[a] = "enq"} \cup (IF dpc = "pills" THEN {Dtor} ELSE {})

\* No wakeup is lost: while a worker sleeps in deq, there are no more jobs in
\* the queue than workers already awake to take them; and while a thread
\* sleeps in enq, no more free places than threads awake to fill them.
NoLostWakeup ==
  /\ emptyWait # {} => Len(q) <= Cardinality(InDeq \ emptyWait)
  /\ fullWait # {} => Limit <= Len(q) + Cardinality(InEnq \ fullWait)

\* When ~ThrPool has joined its workers, every job that addJob accepted has
\* been run, and nothing is left in the queue.
NothingLeft == dpc = "done" => finished = accepted /\ q = <<>>

\* A job that addJob accepted is run, even if the pool is destroyed meanwhile.
AcceptedJobsRun == \A j \in Jobs : j \in accepted ~> j \in finished

\* ~ThrPool returns: every worker gets its pill and exits.
DestroyReturns == dpc = "pills" ~> dpc = "done"

-----------------------------------------------------------------------------
(* The inductive invariant behind NoLostWakeup. *)

\* A thread that adds or runs a job has one.
HoldsJob ==
  /\ \A a \in Adder : apc[a] = "enq" => ajob[a] \in Jobs
  /\ \A w \in Worker : wpc[w] = "run" => wjob[w] \in Jobs

\* Only threads inside deq or enq sleep there, the destroying thread only while
\* it has a pill to enqueue, and it is alone once it has begun.
WaitersInv ==
  /\ emptyWait \subseteq InDeq
  /\ fullWait \subseteq InEnq
  /\ Dtor \in fullWait => dpc = "pills" /\ pills > 0
  /\ dpc # "idle" => NoAdder

(* The inductive invariant behind NothingLeft. *)

\* A job that was accepted is in the queue, with a worker, or finished.
JobsInv ==
  accepted = finished \cup {wjob[w] : w \in {v \in Worker : wpc[v] = "run"}}
                      \cup {q[i] : i \in {k \in 1 .. Len(q) : q[k] # Pill}}

Exited == {w \in Worker : wpc[w] = "exited"}

\* The queue is n jobs and then pills only, there is a pill for every worker that
\* has not exited, and the first worker exits when the last job has been taken.
PillsInv ==
  /\ dpc = "idle" => pills = Cardinality(Worker)
  /\ dpc \in {"join", "done"} => pills = 0
  /\ dpc = "done" => Exited = Worker
  /\ \E n \in 0 .. Len(q) :
       /\ \A i \in 1 .. Len(q) : q[i] = Pill <=> i > n
       /\ (Len(q) - n) + pills + Cardinality(Exited) = Cardinality(Worker)
       /\ Exited # {} => n = 0
       /\ dpc = "idle" => n = Len(q)

=============================================================================
