---------------------------- MODULE ServerConns -----------------------------
(***************************************************************************)
(* The server's connections and who refers to them: tcpsconn, whose thread *)
(* accepts connections, collects dead ones and drops all of them in the    *)
(* end; rpcs::got_pdu, which gives every job a reference; rpcs::dispatch,  *)
(* which gives one back and keeps one for the newest connection of every   *)
(* client; and connection::incref, decref and closeconn.                   *)
(*                                                                         *)
(* Both mutexes of a connection are visible here.  The poll thread holds   *)
(* m_ from read_cb on, all through got_pdu; a thread whose decref reached  *)
(* zero holds ref_m_ while it waits for m_.  What a connection sends and   *)
(* receives is the subject of Connection.                                  *)
(***************************************************************************)
EXTENDS Integers, FiniteSets

CONSTANTS MaxConn,  \* bound on the connections ever accepted
          MaxPdus,  \* bound on the PDUs ever read
          Fd,       \* the descriptors the process has for connections
          Client,   \* the clt_nonce of each client; none of them is 0
          Worker,   \* bound on the jobs in dispatchpool_
          Listener  \* the thread of tcpsconn, and the one in ~tcpsconn after it

ASSUME ServerConnsConstants ==
  /\ MaxConn \in Nat /\ MaxPdus \in Nat
  /\ Fd \subseteq Nat \ {0} /\ IsFiniteSet(Fd)
  /\ 0 \notin Client /\ IsFiniteSet(Client)
  /\ IsFiniteSet(Worker) /\ Listener \notin Worker

Conn == 1 .. MaxConn   \* in the order of create_time_
None == 0

VARIABLES
  made,      \* how many connections were accepted
  fd_,       \* each connection's descriptor
  dead_, refno_,
  deleted,   \* the connection was deleted and its descriptor closed
  conns_,    \* tcpsconn::conns_
  lpc,       \* the place of the Listener
  fresh,     \* the connection that process_accept has just made
  todo,      \* the entries its loop over conns_ has yet to visit
  latest,    \* rpcs::conns_
  poll,      \* the poll thread inside rpcs::got_pdu: its place and connection
  job,       \* each job: its place in dispatch, connection and client
  pdus,      \* how many PDUs have been read
  zero,      \* the connection whose last reference a thread is dropping
  leaked     \* history: references that dispatch does not give back

objVars  == <<made, fd_, dead_, refno_, deleted, zero>>
listVars == <<conns_, lpc, fresh, todo>>
vars == <<objVars, listVars, latest, poll, pdus, job, leaked>>

Thread  == Worker \cup {Listener}
IdleJob == [pc |-> "idle", conn |-> None, clt |-> None]
NoUpcall == [pc |-> "idle", conn |-> None]

TypeOK ==
  /\ made \in 0 .. MaxConn
  /\ fd_ \in [Conn -> Fd \cup {None}]
  /\ dead_ \in [Conn -> BOOLEAN]
  /\ refno_ \in [Conn -> Nat]
  /\ deleted \in [Conn -> BOOLEAN]
  /\ conns_ \in [Fd -> Conn \cup {None}]
  /\ lpc \in {"select", "isdead", "ref", "decref", "exited", "closing", "drop", "closed"}
  /\ fresh \in Conn \cup {None}
  /\ todo \subseteq Fd
  /\ latest \in [Client -> Conn \cup {None}]
  /\ poll \in [pc : {"idle", "incref", "add", "refused"}, conn : Conn \cup {None}]
  /\ pdus \in 0 .. MaxPdus
  /\ job \in [Worker -> [pc : {"idle", "queued", "conns", "run", "route", "send", "end"},
                         conn : Conn \cup {None}, clt : Client \cup {None}]]
  /\ zero \in [Thread -> Conn \cup {None}]
  /\ leaked \in [Conn -> Nat]

Init ==
  /\ made = 0
  /\ fd_ = [c \in Conn |-> None]
  /\ dead_ = [c \in Conn |-> FALSE]
  /\ refno_ = [c \in Conn |-> 0]
  /\ deleted = [c \in Conn |-> FALSE]
  /\ conns_ = [f \in Fd |-> None]
  /\ lpc = "select"
  /\ fresh = None
  /\ todo = {}
  /\ latest = [n \in Client |-> None]
  /\ poll = NoUpcall
  /\ pdus = 0
  /\ job = [w \in Worker |-> IdleJob]
  /\ zero = [t \in Thread |-> None]
  /\ leaked = [c \in Conn |-> 0]

-----------------------------------------------------------------------------
(* connection *)

MFree(c)   == poll.conn # c               \* m_ can be locked
RefFree(c) == \A t \in Thread : zero[t] # c  \* ref_m_ can be locked

incref(c) == RefFree(c) /\ refno_' = [refno_ EXCEPT ![c] = @ + 1]

\* decref by t up to the lock of m_, which only the last reference needs
decref(t, c) ==
  /\ RefFree(c)
  /\ refno_' = [refno_ EXCEPT ![c] = @ - 1]
  /\ zero' = [zero EXCEPT ![t] = IF refno_[c] = 1 THEN c ELSE None]

\* The rest of decref: a dead connection is deleted.
decref_zero(t) ==
  LET c == zero[t]
  IN /\ c # None
     /\ MFree(c)
     /\ deleted' = [deleted EXCEPT ![c] = dead_[c]]
     /\ zero' = [zero EXCEPT ![t] = None]
     /\ UNCHANGED <<made, fd_, dead_, refno_, listVars, latest, poll, job, pdus, leaked>>

\* A read or a write fails.
Dies(c) ==
  /\ c <= made /\ ~dead_[c]
  /\ MFree(c)
  /\ dead_' = [dead_ EXCEPT ![c] = TRUE]
  /\ UNCHANGED <<made, fd_, refno_, deleted, zero, listVars, latest, poll, job, pdus, leaked>>

-----------------------------------------------------------------------------
(* tcpsconn *)

FreeFds == Fd \ {fd_[c] : c \in {d \in 1 .. made : ~deleted[d]}}

\* process_accept up to the loop: a new connection, not yet in conns_
accept(f) ==
  /\ lpc = "select"
  /\ made < MaxConn
  /\ f \in FreeFds
  /\ made' = made + 1
  /\ fd_' = [fd_ EXCEPT ![made + 1] = f]
  /\ refno_' = [refno_ EXCEPT ![made + 1] = 1]
  /\ fresh' = made + 1
  /\ todo' = {g \in Fd : conns_[g] # None}
  /\ lpc' = "isdead"
  /\ UNCHANGED <<dead_, deleted, zero, conns_, latest, poll, job, pdus, leaked>>

\* accept fails, for want of a descriptor, and pthread_exit ends the thread.
accept_fails ==
  /\ lpc = "select"
  /\ FreeFds = {}
  /\ lpc' = "exited"
  /\ UNCHANGED <<objVars, conns_, fresh, todo, latest, poll, job, pdus, leaked>>

\* The loop of process_accept, one entry in three steps: isdead(), ref() == 1,
\* and decref() with erase().  After the loop the new connection is entered.
collect_isdead ==
  /\ lpc = "isdead" /\ zero[Listener] = None
  /\ \/ \E f \in todo :
          /\ MFree(conns_[f])
          /\ IF dead_[conns_[f]]
             THEN lpc' = "ref" /\ UNCHANGED todo
             ELSE todo' = todo \ {f} /\ UNCHANGED lpc
          /\ \A g \in todo : f <= g
          /\ UNCHANGED <<conns_, fresh>>
     \/ /\ todo = {}
        /\ conns_' = [conns_ EXCEPT ![fd_[fresh]] = fresh]
        /\ fresh' = None
        /\ lpc' = "select"
        /\ UNCHANGED todo
  /\ UNCHANGED <<objVars, latest, poll, job, pdus, leaked>>

\* ref() == 1: nobody but the listener refers to the connection.
OnlyMine(n) == n = 1

collect_ref ==
  /\ lpc = "ref"
  /\ \E f \in todo :
       /\ \A g \in todo : f <= g
       /\ RefFree(conns_[f])
       /\ IF OnlyMine(refno_[conns_[f]])
          THEN lpc' = "decref" /\ UNCHANGED todo
          ELSE lpc' = "isdead" /\ todo' = todo \ {f}
  /\ UNCHANGED <<objVars, conns_, fresh, latest, poll, job, pdus, leaked>>

collect_decref ==
  /\ lpc = "decref"
  /\ \E f \in todo :
       /\ \A g \in todo : f <= g
       /\ decref(Listener, conns_[f])
       /\ conns_' = [conns_ EXCEPT ![f] = None]
       /\ todo' = todo \ {f}
  /\ lpc' = "isdead"
  /\ UNCHANGED <<made, fd_, dead_, deleted, fresh, latest, poll, job, pdus, leaked>>

\* ~tcpsconn: the accepting thread ends at its select, or has ended.
destroy ==
  /\ lpc \in {"select", "exited"}
  /\ lpc' = "closing"
  /\ todo' = {f \in Fd : conns_[f] # None}
  /\ UNCHANGED <<objVars, conns_, fresh, latest, poll, job, pdus, leaked>>

\* Mutant: connections are dropped without being closed.
NotClosed(c) == dead_

\* closeconn: the connection is dead_ and no callback is running any more.
Closed(c) == [dead_ EXCEPT ![c] = TRUE]

\* Mutant: for a connection that was dead already the loop does not go on.
StuckOnDead(c) == IF dead_[c] THEN "closing" ELSE "drop"

\* The reference is dropped, whether closeconn returned early or not.
AfterClose(c) == "drop"

close_conn ==
  /\ lpc = "closing" /\ zero[Listener] = None
  /\ \/ \E f \in todo :
          /\ \A g \in todo : f <= g
          /\ MFree(conns_[f])
          /\ dead_' = Closed(conns_[f])
          /\ lpc' = AfterClose(conns_[f])
     \/ todo = {} /\ lpc' = "closed" /\ UNCHANGED dead_
  /\ UNCHANGED <<made, fd_, refno_, deleted, zero, conns_, fresh, todo, latest, poll, job, pdus, leaked>>

close_decref ==
  /\ lpc = "drop"
  /\ \E f \in todo :
       /\ \A g \in todo : f <= g
       /\ decref(Listener, conns_[f])
       /\ conns_' = [conns_ EXCEPT ![f] = None]
       /\ todo' = todo \ {f}
  /\ lpc' = "closing"
  /\ UNCHANGED <<made, fd_, dead_, deleted, fresh, latest, poll, job, pdus, leaked>>

-----------------------------------------------------------------------------
(* rpcs::got_pdu, called by read_cb with m_ of c held *)

read_cb(c) ==
  /\ poll.pc = "idle"
  /\ c <= made /\ ~dead_[c]
  /\ pdus < MaxPdus
  /\ pdus' = pdus + 1
  /\ poll' = [pc |-> "incref", conn |-> c]
  /\ UNCHANGED <<objVars, listVars, latest, job, leaked>>

got_incref ==
  /\ poll.pc = "incref"
  /\ incref(poll.conn)
  /\ poll' = [poll EXCEPT !.pc = "add"]
  /\ UNCHANGED <<made, fd_, dead_, deleted, zero, listVars, latest, job, pdus, leaked>>

\* addObjJob, and read_cb returns; or the pool is full.
got_add ==
  /\ poll.pc = "add"
  /\ \/ \E w \in Worker :
          /\ job[w] = IdleJob /\ zero[w] = None
          /\ job' = [job EXCEPT ![w] = [pc |-> "queued", conn |-> poll.conn, clt |-> None]]
          /\ poll' = NoUpcall
     \/ /\ \A w \in Worker : job[w] # IdleJob
        /\ poll' = [poll EXCEPT !.pc = "refused"]
        /\ UNCHANGED job
  /\ UNCHANGED <<objVars, listVars, latest, pdus, leaked>>

\* Mutant: a refused job keeps its reference.
KeepRef(c) == UNCHANGED refno_

\* decref of a connection that is alive, whose owner still refers to it
GiveBack(c) == RefFree(c) /\ refno_' = [refno_ EXCEPT ![c] = @ - 1]

got_refused ==
  /\ poll.pc = "refused"
  /\ GiveBack(poll.conn)
  /\ poll' = NoUpcall
  /\ UNCHANGED <<made, fd_, dead_, deleted, zero, listVars, latest, job, pdus, leaked>>

-----------------------------------------------------------------------------
(* rpcs::dispatch, as far as connections go *)

At(w, p) == job[w].pc = p /\ zero[w] = None

\* The header: one that cannot be unpacked ends the job, one for another
\* instance is answered and the reference is not given back.
dispatch(w) ==
  /\ At(w, "queued")
  /\ \/ /\ job' = [job EXCEPT ![w].pc = "end"]
        /\ UNCHANGED leaked
     \/ /\ job' = [job EXCEPT ![w] = IdleJob]
        /\ leaked' = [leaked EXCEPT ![job[w].conn] = @ + 1]
     \/ \E n \in Client :
          /\ job' = [job EXCEPT ![w].pc = "conns", ![w].clt = n]
          /\ UNCHANGED leaked
  /\ UNCHANGED <<objVars, listVars, latest, poll, pdus>>

\* Under conss_m_: the newest connection of the client is remembered.
save_latest(w) ==
  LET c == job[w].conn
      old == latest[job[w].clt]
  IN /\ At(w, "conns")
     /\ \/ /\ old = None
           /\ incref(c)
           /\ latest' = [latest EXCEPT ![job[w].clt] = c]
           /\ UNCHANGED zero
        \/ /\ old # None /\ old < c
           /\ RefFree(c) /\ RefFree(old)
           /\ refno_' = [refno_ EXCEPT ![old] = @ - 1, ![c] = @ + 1]
           /\ zero' = [zero EXCEPT ![w] = IF refno_[old] = 1 THEN old ELSE None]
           /\ latest' = [latest EXCEPT ![job[w].clt] = c]
        \/ /\ old # None /\ old >= c
           /\ UNCHANGED <<refno_, zero, latest>>
     /\ job' = [job EXCEPT ![w].pc = "run"]
     /\ UNCHANGED <<made, fd_, dead_, deleted, listVars, poll, pdus, leaked>>

\* A new request is run, and its reply is routed; a duplicate is answered on
\* its own connection or not at all.
run_handler(w) ==
  /\ At(w, "run")
  /\ \E p \in {"route", "send", "end"} : job' = [job EXCEPT ![w].pc = p]
  /\ UNCHANGED <<objVars, listVars, latest, poll, pdus, leaked>>

\* Mutant: the job's reference is taken along without being counted.
Uncounted(c, d) == UNCHANGED refno_

\* c->decref() and incref() of the newest connection, in one step
MoveRef(c, d) == refno_' = [refno_ EXCEPT ![c] = @ - 1, ![d] = @ + 1]

\* Under conss_m_: the reply on a dead connection moves to the newest one.
route(w) ==
  LET c == job[w].conn
      d == latest[job[w].clt]
  IN /\ At(w, "route")
     /\ MFree(c)
     /\ IF dead_[c] /\ c # d
        THEN /\ RefFree(c) /\ RefFree(d)
             /\ MoveRef(c, d)
             /\ zero' = [zero EXCEPT ![w] = IF refno_[c] = 1 THEN c ELSE None]
             /\ job' = [job EXCEPT ![w].pc = "send", ![w].conn = d]
        ELSE /\ job' = [job EXCEPT ![w].pc = "send"]
             /\ UNCHANGED <<refno_, zero>>
     /\ UNCHANGED <<made, fd_, dead_, deleted, listVars, latest, poll, pdus, leaked>>

\* connection::send returns; Dies is the failure.
send(w) ==
  /\ At(w, "send")
  /\ MFree(job[w].conn)
  /\ job' = [job EXCEPT ![w].pc = "end"]
  /\ UNCHANGED <<objVars, listVars, latest, poll, pdus, leaked>>

finish(w) ==
  /\ At(w, "end")
  /\ decref(w, job[w].conn)
  /\ job' = [job EXCEPT ![w] = IdleJob]
  /\ UNCHANGED <<made, fd_, dead_, deleted, listVars, latest, poll, pdus, leaked>>

-----------------------------------------------------------------------------
ListenerStep ==
  \/ collect_isdead \/ collect_ref \/ collect_decref
  \/ close_conn \/ close_decref
  \/ decref_zero(Listener)

JobStep(w) ==
  \/ dispatch(w) \/ save_latest(w) \/ run_handler(w)
  \/ route(w) \/ send(w) \/ finish(w)
  \/ decref_zero(w)

PollStep == got_incref \/ got_add \/ got_refused

\* The listener is gone and every job has ended.
Terminated ==
  /\ lpc = "closed" /\ poll = NoUpcall
  /\ \A w \in Worker : job[w] = IdleJob /\ zero[w] = None
  /\ UNCHANGED vars

Next ==
  \/ \E f \in Fd : accept(f)
  \/ accept_fails \/ destroy
  \/ ListenerStep
  \/ \E c \in Conn : Dies(c) \/ read_cb(c)
  \/ PollStep
  \/ \E w \in Worker : JobStep(w)
  \/ Terminated

Spec == Init /\ [][Next]_vars

\* Threads that can go on do so; nobody has to connect, to send, or to destroy
\* the listener.
FairSpec ==
  /\ Spec
  /\ WF_vars(ListenerStep) /\ WF_vars(PollStep)
  /\ \A w \in Worker : WF_vars(JobStep(w))

-----------------------------------------------------------------------------
(* Properties *)

\* Who refers to a connection: the listener, by its map or because it has just
\* accepted it, jobs, clients' newest connections, the poll thread between incref
\* and addObjJob, and what was leaked.
Listed(c)   == Cardinality({f \in Fd : conns_[f] = c})
Entering(c) == IF fresh = c THEN 1 ELSE 0
InJobs(c)   == Cardinality({w \in Worker : job[w].conn = c})
Newest(c)   == Cardinality({n \in Client : latest[n] = c})
InUpcall(c) == IF poll.conn = c /\ poll.pc # "incref" THEN 1 ELSE 0

Holders(c) == Listed(c) + Entering(c) + InJobs(c) + Newest(c) + InUpcall(c) + leaked[c]

\* refno_ is the number of references, over every path of a client with a nonce
\* through got_pdu and dispatch, the collection of dead connections and ~tcpsconn.
RefsCounted == \A c \in Conn : refno_[c] = Holders(c)

\* Nobody refers to a connection that has been deleted, the poll thread included.
NoUseAfterDelete ==
  \A c \in Conn : deleted[c] => dead_[c] /\ Holders(c) = 0 /\ poll.conn # c

\* decref takes m_ inside ref_m_, got_pdu takes ref_m_ inside m_; no thread drops
\* the last reference of a connection whose read_cb is running.
NoLockCycle ==
  \A t \in Thread : zero[t] # None => dead_[zero[t]] /\ poll.conn # zero[t]

\* "must delete listener before dispatchpool": after ~tcpsconn no connection can
\* bring got_pdu to the pool any more.
NoUpcallAfterClose ==
  lpc = "closed" => poll.pc = "idle" /\ \A c \in 1 .. made : dead_[c]

\* When the listener is gone and the jobs have ended, every connection has been
\* deleted, except the newest one of each client and those whose reference the
\* refusal of an old instance has leaked.
AllDeleted ==
  lpc = "closed" /\ poll.pc = "idle" /\ (\A w \in Worker : job[w] = IdleJob /\ zero[w] = None)
  => \A c \in 1 .. made : deleted[c] \/ leaked[c] > 0 \/ \E n \in Client : latest[n] = c

\* ~tcpsconn returns, whatever the jobs and the poll thread do meanwhile.
CloseReturns == lpc = "closing" ~> lpc = "closed"

-----------------------------------------------------------------------------
(* The inductive invariant behind the safety properties *)

\* A connection that has not been accepted yet is untouched, and the ones that
\* have been have a descriptor.
AcceptedInv ==
  /\ \A c \in Conn : c > made => refno_[c] = 0 /\ ~dead_[c] /\ ~deleted[c]
  /\ \A c \in 1 .. made : fd_[c] \in Fd

\* The listener refers to every connection that is alive, under its descriptor,
\* and no two connections that exist have the same descriptor.
OwnerInv ==
  /\ \A c \in 1 .. made : ~dead_[c] => fresh = c \/ conns_[fd_[c]] = c
  /\ \A f \in Fd : conns_[f] # None => fd_[conns_[f]] = f /\ conns_[f] # fresh
  /\ \A c, d \in 1 .. made : ~deleted[c] /\ ~deleted[d] /\ fd_[c] = fd_[d] => c = d

\* A connection without references has been deleted or is about to be, by one
\* thread, and it is dead.
DeletedInv ==
  /\ \A c \in Conn : deleted[c] => dead_[c] /\ refno_[c] = 0
  /\ \A t \in Thread : zero[t] # None =>
       dead_[zero[t]] /\ refno_[zero[t]] = 0 /\ ~deleted[zero[t]]
  /\ \A t, u \in Thread : zero[t] # None /\ zero[t] = zero[u] => t = u
  /\ \A c \in 1 .. made : refno_[c] = 0 => deleted[c] \/ \E t \in Thread : zero[t] = c

\* A connection whose read_cb is running is alive: dead_ is set under m_ only.
UpcallInv ==
  /\ poll.pc = "idle" <=> poll.conn = None
  /\ poll.conn # None => poll.conn <= made /\ ~dead_[poll.conn]

\* A job has a connection, and behind its first critical section its client has
\* a newest connection.
JobInv ==
  \A w \in Worker :
    /\ job[w].pc = "idle" => job[w] = IdleJob
    /\ job[w].pc # "idle" => job[w].conn # None
    /\ job[w].pc \in {"conns", "run", "route"} => job[w].clt \in Client
    /\ job[w].pc \in {"run", "route"} => latest[job[w].clt] # None

\* The entry that the listener's loop is at.
AtEntry(f) == f \in todo /\ \A g \in todo : f <= g

\* What the listener has yet to visit is in its map; when it closes, all of the
\* map; what it is about to drop is dead; it completes one decref before the next.
ListenerInv ==
  /\ fresh # None <=> lpc \in {"isdead", "ref", "decref"}
  /\ lpc \in {"isdead", "ref", "decref", "closing", "drop"} => \A f \in todo : conns_[f] # None
  /\ lpc \in {"ref", "decref", "drop"} => \A f \in Fd : AtEntry(f) => dead_[conns_[f]]
  /\ lpc \in {"closing", "drop", "closed"} => \A f \in Fd : conns_[f] # None => f \in todo
  /\ lpc = "closed" => todo = {}
  /\ lpc \in {"ref", "decref", "drop", "closed"} => zero[Listener] = None

ConnsInv ==
  /\ TypeOK /\ RefsCounted /\ AcceptedInv /\ OwnerInv /\ DeletedInv
  /\ UpcallInv /\ JobInv /\ ListenerInv

=============================================================================
