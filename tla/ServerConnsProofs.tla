------------------------- MODULE ServerConnsProofs --------------------------
(***************************************************************************)
(* The reference counts of the server's connections are right, for any     *)
(* number of connections, descriptors, clients and jobs: nobody refers to  *)
(* a deleted connection, no thread deletes one whose read_cb is running,   *)
(* and when the listener is gone what is left has a name.                  *)
(***************************************************************************)
EXTENDS ServerConns, FiniteSetTheorems, TLAPS

-----------------------------------------------------------------------------
(* Counting *)

\* Two subsets of a finite set that differ in d at most.
LEMMA CountStep ==
  ASSUME NEW D, IsFiniteSet(D), NEW d \in D, NEW A \in SUBSET D, NEW B \in SUBSET D,
         \A e \in D : e # d => (e \in A <=> e \in B)
  PROVE  Cardinality(B) = Cardinality(A) + (IF d \in B THEN 1 ELSE 0)
                                         - (IF d \in A THEN 1 ELSE 0)
<1>1. IsFiniteSet(A) /\ Cardinality(A) \in Nat
  BY FS_Subset, FS_CardinalityType
<1>2. CASE d \in A /\ d \in B
  <2>1. A = B
    BY <1>2
  <2> QED BY <1>1, <1>2, <2>1
<1>3. CASE d \notin A /\ d \notin B
  <2>1. A = B
    BY <1>3
  <2> QED BY <1>1, <1>3, <2>1
<1>4. CASE d \in A /\ d \notin B
  <2>1. B = A \ {d}
    BY <1>4
  <2>2. Cardinality(B) = Cardinality(A) - 1
    BY <1>1, <1>4, <2>1, FS_RemoveElement
  <2> QED BY <1>1, <1>4, <2>2
<1>5. CASE d \notin A /\ d \in B
  <2>1. B = A \cup {d}
    BY <1>5
  <2>2. Cardinality(B) = Cardinality(A) + 1
    BY <1>1, <1>5, <2>1, FS_AddElement
  <2> QED BY <1>1, <1>5, <2>2
<1> QED
  BY <1>2, <1>3, <1>4, <1>5

\* A subset of a finite set has a natural number of elements, and at least one
\* if somebody is in it.
LEMMA CountNat ==
  ASSUME NEW D, IsFiniteSet(D), NEW A \in SUBSET D
  PROVE  Cardinality(A) \in Nat /\ (\A d \in A : Cardinality(A) >= 1) /\ (A = {} => Cardinality(A) = 0)
<1>1. IsFiniteSet(A) /\ Cardinality(A) \in Nat
  BY FS_Subset, FS_CardinalityType
<1>2. Cardinality(A) = 0 <=> A = {}
  BY <1>1, FS_EmptySet
<1> QED
  BY <1>1, <1>2

\* The parts of Holders are natural numbers, and somebody counts in his part.
LEMMA HolderParts ==
  ASSUME TypeOK, NEW c \in Conn
  PROVE  /\ Listed(c) \in Nat /\ \A f \in Fd : conns_[f] = c => Listed(c) >= 1
         /\ Entering(c) \in {0, 1}
         /\ InJobs(c) \in Nat /\ \A w \in Worker : job[w].conn = c => InJobs(c) >= 1
         /\ Newest(c) \in Nat /\ \A n \in Client : latest[n] = c => Newest(c) >= 1
         /\ InUpcall(c) \in {0, 1}
         /\ leaked[c] \in Nat
<1>1. Listed(c) \in Nat /\ \A f \in Fd : conns_[f] = c => Listed(c) >= 1
  <2> DEFINE A == {f \in Fd : conns_[f] = c}
  <2>1. A \in SUBSET Fd /\ \A f \in Fd : conns_[f] = c => f \in A
    OBVIOUS
  <2>2. Listed(c) = Cardinality(A)
    BY DEF Listed
  <2> HIDE DEF A
  <2> QED BY <2>1, <2>2, CountNat, ServerConnsConstants
<1>2. InJobs(c) \in Nat /\ \A w \in Worker : job[w].conn = c => InJobs(c) >= 1
  <2> DEFINE A == {w \in Worker : job[w].conn = c}
  <2>1. A \in SUBSET Worker /\ \A w \in Worker : job[w].conn = c => w \in A
    OBVIOUS
  <2>2. InJobs(c) = Cardinality(A)
    BY DEF InJobs
  <2> HIDE DEF A
  <2> QED BY <2>1, <2>2, CountNat, ServerConnsConstants
<1>3. Newest(c) \in Nat /\ \A n \in Client : latest[n] = c => Newest(c) >= 1
  <2> DEFINE A == {n \in Client : latest[n] = c}
  <2>1. A \in SUBSET Client /\ \A n \in Client : latest[n] = c => n \in A
    OBVIOUS
  <2>2. Newest(c) = Cardinality(A)
    BY DEF Newest
  <2> HIDE DEF A
  <2> QED BY <2>1, <2>2, CountNat, ServerConnsConstants
<1>4. Entering(c) \in {0, 1} /\ InUpcall(c) \in {0, 1}
  BY DEF Entering, InUpcall
<1> QED
  BY <1>1, <1>2, <1>3, <1>4 DEF TypeOK

\* One entry of the listener's map changes.
LEMMA ListedStep ==
  ASSUME TypeOK, NEW f \in Fd, NEW v, conns_' = [conns_ EXCEPT ![f] = v], NEW c \in Conn
  PROVE  Listed(c)' = Listed(c) + (IF v = c THEN 1 ELSE 0) - (IF conns_[f] = c THEN 1 ELSE 0)
<1> DEFINE A == {g \in Fd : conns_[g] = c}
           B == {g \in Fd : conns_'[g] = c}
<1>1. Listed(c) = Cardinality(A) /\ Listed(c)' = Cardinality(B)
  BY DEF Listed
<1>2. conns_'[f] = v /\ \A g \in Fd : g # f => conns_'[g] = conns_[g]
  BY DEF TypeOK
<1>3. /\ A \in SUBSET Fd /\ B \in SUBSET Fd
      /\ \A g \in Fd : g # f => (g \in A <=> g \in B)
      /\ f \in A <=> conns_[f] = c
      /\ f \in B <=> v = c
  BY <1>2
<1> HIDE DEF A, B
<1>4. IsFiniteSet(Fd)
  BY ServerConnsConstants
<1>5. Cardinality(B) = Cardinality(A) + (IF f \in B THEN 1 ELSE 0) - (IF f \in A THEN 1 ELSE 0)
  BY <1>3, <1>4, CountStep
<1> QED
  BY <1>1, <1>3, <1>5

\* One job changes.
LEMMA InJobsStep ==
  ASSUME TypeOK, NEW w \in Worker, NEW j, job' = [job EXCEPT ![w] = j], NEW c \in Conn
  PROVE  InJobs(c)' = InJobs(c) + (IF j.conn = c THEN 1 ELSE 0)
                                - (IF job[w].conn = c THEN 1 ELSE 0)
<1> DEFINE A == {v \in Worker : job[v].conn = c}
           B == {v \in Worker : job'[v].conn = c}
<1>1. InJobs(c) = Cardinality(A) /\ InJobs(c)' = Cardinality(B)
  BY DEF InJobs
<1>2. job'[w] = j /\ \A v \in Worker : v # w => job'[v] = job[v]
  BY DEF TypeOK
<1>3. /\ A \in SUBSET Worker /\ B \in SUBSET Worker
      /\ \A v \in Worker : v # w => (v \in A <=> v \in B)
      /\ w \in A <=> job[w].conn = c
      /\ w \in B <=> j.conn = c
  BY <1>2
<1> HIDE DEF A, B
<1>4. Cardinality(B) = Cardinality(A) + (IF w \in B THEN 1 ELSE 0) - (IF w \in A THEN 1 ELSE 0)
  BY <1>3, CountStep, ServerConnsConstants
<1> QED
  BY <1>1, <1>3, <1>4

\* One client gets another newest connection.
LEMMA NewestStep ==
  ASSUME TypeOK, NEW n \in Client, NEW v, latest' = [latest EXCEPT ![n] = v], NEW c \in Conn
  PROVE  Newest(c)' = Newest(c) + (IF v = c THEN 1 ELSE 0) - (IF latest[n] = c THEN 1 ELSE 0)
<1> DEFINE A == {m \in Client : latest[m] = c}
           B == {m \in Client : latest'[m] = c}
<1>1. Newest(c) = Cardinality(A) /\ Newest(c)' = Cardinality(B)
  BY DEF Newest
<1>2. latest'[n] = v /\ \A m \in Client : m # n => latest'[m] = latest[m]
  BY DEF TypeOK
<1>3. /\ A \in SUBSET Client /\ B \in SUBSET Client
      /\ \A m \in Client : m # n => (m \in A <=> m \in B)
      /\ n \in A <=> latest[n] = c
      /\ n \in B <=> v = c
  BY <1>2
<1> HIDE DEF A, B
<1>4. Cardinality(B) = Cardinality(A) + (IF n \in B THEN 1 ELSE 0) - (IF n \in A THEN 1 ELSE 0)
  BY <1>3, CountStep, ServerConnsConstants
<1> QED
  BY <1>1, <1>3, <1>4

\* A part whose variables do not change does not change.
LEMMA SameParts ==
  ASSUME NEW c \in Conn
  PROVE  /\ conns_' = conns_ => Listed(c)' = Listed(c)
         /\ fresh' = fresh => Entering(c)' = Entering(c)
         /\ job' = job => InJobs(c)' = InJobs(c)
         /\ latest' = latest => Newest(c)' = Newest(c)
         /\ poll' = poll => InUpcall(c)' = InUpcall(c)
BY DEF Listed, Entering, InJobs, Newest, InUpcall

-----------------------------------------------------------------------------
(* What the invariant says about one connection *)

\* Whoever refers to a connection is one of the references counted, so that the
\* connection was accepted and has not been deleted.
LEMMA Counted ==
  ASSUME ConnsInv, NEW c \in Conn
  PROVE  /\ refno_[c] = Listed(c) + Entering(c) + InJobs(c) + Newest(c) + InUpcall(c) + leaked[c]
         /\ refno_[c] \in Nat
         /\ refno_[c] # 0 => c \in 1 .. made /\ ~deleted[c] /\ RefFree(c)
<1>1. refno_[c] = Listed(c) + Entering(c) + InJobs(c) + Newest(c) + InUpcall(c) + leaked[c]
  BY DEF ConnsInv, RefsCounted, Holders
<1>2. refno_[c] \in Nat /\ made \in Nat
  BY ServerConnsConstants DEF ConnsInv, TypeOK
<1>3. refno_[c] # 0 => c \in 1 .. made
  BY <1>2, ServerConnsConstants DEF ConnsInv, AcceptedInv, Conn
<1>4. refno_[c] # 0 => ~deleted[c]
  BY DEF ConnsInv, DeletedInv
<1>5. refno_[c] # 0 => RefFree(c)
  BY DEF ConnsInv, DeletedInv, RefFree, None, Conn
<1> QED
  BY <1>1, <1>2, <1>3, <1>4, <1>5

\* The listener refers to a connection that is alive.
LEMMA AliveOwned ==
  ASSUME ConnsInv, NEW c \in 1 .. made, ~dead_[c]
  PROVE  c \in Conn /\ Listed(c) + Entering(c) >= 1
<1>1. c \in Conn /\ TypeOK /\ fd_[c] \in Fd
  <2>1. TypeOK /\ AcceptedInv
    BY DEF ConnsInv
  <2>2. made \in 0 .. MaxConn
    BY <2>1 DEF TypeOK
  <2>3. c \in Conn
    BY <2>2, ServerConnsConstants DEF Conn
  <2>4. fd_[c] \in Fd
    BY <2>1 DEF AcceptedInv
  <2> QED BY <2>1, <2>3, <2>4
<1>2. fresh = c \/ conns_[fd_[c]] = c
  BY DEF ConnsInv, OwnerInv
<1>3. fresh = c => Entering(c) = 1
  BY DEF Entering
<1> QED
  BY <1>1, <1>2, <1>3, HolderParts

-----------------------------------------------------------------------------
(* What a step leaves alone *)

\* The records of jobs.
Job == [pc : {"idle", "queued", "conns", "run", "route", "send", "end"},
        conn : Conn \cup {None}, clt : Client \cup {None}]

\* What holds of one job.
JobOK(w) ==
  /\ job[w].pc = "idle" => job[w] = IdleJob
  /\ job[w].pc # "idle" => job[w].conn # None
  /\ job[w].pc \in {"conns", "run", "route"} => job[w].clt \in Client
  /\ job[w].pc \in {"run", "route"} => latest[job[w].clt] # None

\* Connections only become dead, and the listener's map stays.
LEMMA OwnerFrame ==
  ASSUME TypeOK, OwnerInv, UNCHANGED <<made, fd_, deleted, fresh, conns_>>,
         \A c \in Conn : dead_[c] => dead_'[c]
  PROVE  OwnerInv'
<1>1. \A c \in 1 .. made : c \in Conn
  BY ServerConnsConstants DEF TypeOK, Conn
<1> QED
  BY <1>1 DEF OwnerInv

\* The same for the listener's place.
LEMMA ListenerFrame ==
  ASSUME TypeOK, ListenerInv, UNCHANGED listVars, zero'[Listener] = zero[Listener],
         \A c \in Conn : dead_[c] => dead_'[c]
  PROVE  ListenerInv'
<1>1. ASSUME lpc \in {"ref", "decref", "drop"}, NEW f \in Fd, AtEntry(f)
      PROVE  dead_'[conns_[f]]
  <2>1. conns_[f] \in Conn
    BY <1>1 DEF ListenerInv, AtEntry, TypeOK
  <2> QED BY <1>1, <2>1 DEF ListenerInv
<1> QED
  BY <1>1 DEF ListenerInv, listVars, AtEntry

\* The poll thread and its connection stay.
LEMMA UpcallFrame ==
  ASSUME TypeOK, UpcallInv, UNCHANGED poll, made' \in {made, made + 1},
         poll.conn # None => dead_'[poll.conn] = dead_[poll.conn]
  PROVE  UpcallInv'
<1>1. poll.conn \in Int /\ made \in Int
  BY ServerConnsConstants DEF TypeOK, Conn, None
<1> QED
  BY <1>1 DEF UpcallInv

\* References come and go, but none becomes the first or was the last.
LEMMA DeletedFrame ==
  ASSUME TypeOK, DeletedInv, UNCHANGED <<made, dead_, deleted, zero>>,
         \A c \in Conn : refno_'[c] = 0 <=> refno_[c] = 0
  PROVE  DeletedInv'
<1>1. \A c \in 1 .. made : c \in Conn
  BY ServerConnsConstants DEF TypeOK, Conn
<1>2. \A t \in Thread : zero[t] # None => zero[t] \in Conn
  BY DEF TypeOK
<1> QED
  BY <1>1, <1>2 DEF DeletedInv

\* Nothing happens to connections that have not been accepted.
LEMMA AcceptedFrame ==
  ASSUME TypeOK, AcceptedInv, UNCHANGED <<made, fd_>>,
         \A c \in Conn : c > made => /\ refno_'[c] = refno_[c]
                                     /\ dead_'[c] = dead_[c] /\ deleted'[c] = deleted[c]
  PROVE  AcceptedInv'
BY DEF AcceptedInv

\* No reference is taken or given back.
LEMMA RefsFrame ==
  ASSUME RefsCounted, UNCHANGED <<refno_, conns_, fresh, latest, poll, leaked>>,
         \A c \in Conn : InJobs(c)' = InJobs(c)
  PROVE  RefsCounted'
BY SameParts DEF RefsCounted, Holders

\* One job changes and clients keep their newest connections.
LEMMA JobsFrame ==
  ASSUME TypeOK, JobInv, NEW w \in Worker, NEW j, job' = [job EXCEPT ![w] = j], JobOK(w)',
         \A n \in Client : latest[n] # None => latest'[n] # None
  PROVE  JobInv'
<1>1. \A v \in Worker : v # w => job'[v] = job[v]
  BY DEF TypeOK
<1> QED
  BY <1>1 DEF JobInv, JobOK

\* No job changes.
LEMMA NoJobFrame ==
  ASSUME JobInv, UNCHANGED <<job, latest>>
  PROVE  JobInv'
BY DEF JobInv

\* A thread gives a reference to c back: decref up to the lock of m_.  Only a
\* dead connection loses its last reference.
LEMMA DropDeleted ==
  ASSUME ConnsInv, NEW t \in Thread, NEW c \in Conn, zero[t] = None,
         refno_[c] # 0, refno_[c] = 1 => dead_[c],
         refno_'[c] = refno_[c] - 1,
         \A e \in Conn : e # c => (refno_'[e] = 0 <=> refno_[e] = 0),
         zero' = [zero EXCEPT ![t] = IF refno_[c] = 1 THEN c ELSE None],
         UNCHANGED <<made, dead_, deleted>>
  PROVE  DeletedInv'
<1>1. /\ refno_[c] \in Nat /\ c \in 1 .. made /\ ~deleted[c] /\ RefFree(c) /\ c # None
  BY Counted DEF Conn, None
<1>2. refno_'[c] = 0 <=> refno_[c] = 1
  BY <1>1
<1>3. TypeOK /\ DeletedInv
  BY DEF ConnsInv
<1>4. /\ \A u \in Thread : u # t => zero'[u] = zero[u]
      /\ zero'[t] = IF refno_[c] = 1 THEN c ELSE None
  BY <1>3 DEF TypeOK
<1>5. \A u \in Thread : zero[u] # c /\ (zero[u] # None => zero[u] \in Conn)
  BY <1>1, <1>3 DEF RefFree, TypeOK
<1>6. \A e \in 1 .. made : e \in Conn
  BY <1>3, ServerConnsConstants DEF TypeOK, Conn
<1>7. ASSUME NEW e \in Conn, deleted'[e] PROVE dead_'[e] /\ refno_'[e] = 0
  BY <1>1, <1>3, <1>7 DEF DeletedInv
<1>8. ASSUME NEW u \in Thread, zero'[u] # None
      PROVE  dead_'[zero'[u]] /\ refno_'[zero'[u]] = 0 /\ ~deleted'[zero'[u]]
  <2>1. CASE u = t
    BY <1>1, <1>2, <1>4, <1>8, <2>1
  <2>2. CASE u # t
    BY <1>3, <1>4, <1>5, <1>8, <2>2 DEF DeletedInv
  <2> QED BY <2>1, <2>2
<1>9. ASSUME NEW u \in Thread, NEW v \in Thread, zero'[u] # None, zero'[u] = zero'[v]
      PROVE  u = v
  BY <1>3, <1>4, <1>5, <1>9 DEF DeletedInv
<1>10. ASSUME NEW e \in 1 .. made, refno_'[e] = 0
       PROVE  deleted[e] \/ \E u \in Thread : zero'[u] = e
  <2>1. CASE e = c
    BY <1>2, <1>4, <1>10, <2>1
  <2>2. CASE e # c
    <3>1. refno_[e] = 0
      BY <1>6, <1>10, <2>2
    <3>2. CASE \E u \in Thread : zero[u] = e
      <4>1. PICK u \in Thread : zero[u] = e
        BY <3>2
      <4>2. u # t
        BY <4>1, <1>6 DEF Conn, None
      <4> QED BY <1>4, <4>1, <4>2
    <3> QED BY <1>3, <3>1, <3>2 DEF DeletedInv
  <2> QED BY <2>1, <2>2
<1> QED
  BY <1>7, <1>8, <1>9, <1>10 DEF DeletedInv

-----------------------------------------------------------------------------
(* The steps *)

\* In the initial state there are no connections.
LEMMA InitConns == Init => ConnsInv
<1> SUFFICES ASSUME Init PROVE ConnsInv
  OBVIOUS
<1> USE ServerConnsConstants DEF Init
<1>1. TypeOK
  <2>1. IdleJob \in Job /\ NoUpcall \in [pc : {"idle", "incref", "add", "refused"}, conn : Conn \cup {None}]
    BY DEF IdleJob, NoUpcall, Job
  <2> QED BY <2>1 DEF TypeOK, Job
<1>2. RefsCounted
  <2> SUFFICES ASSUME NEW c \in Conn PROVE Holders(c) = 0
    BY DEF RefsCounted
  <2>0. c # None
    BY DEF Conn, None
  <2>1. {f \in Fd : conns_[f] = c} = {}
    BY <2>0
  <2>2. {n \in Client : latest[n] = c} = {}
    BY <2>0
  <2>3. {w \in Worker : job[w].conn = c} = {}
    BY <2>0 DEF IdleJob
  <2>4. Entering(c) = 0 /\ InUpcall(c) = 0 /\ leaked[c] = 0
    BY <2>0 DEF Entering, InUpcall, NoUpcall
  <2>5. Listed(c) = 0 /\ Newest(c) = 0 /\ InJobs(c) = 0
    BY <2>1, <2>2, <2>3, FS_EmptySet DEF Listed, Newest, InJobs
  <2> QED BY <2>4, <2>5 DEF Holders
<1>3. AcceptedInv /\ OwnerInv /\ DeletedInv
  BY DEF AcceptedInv, OwnerInv, DeletedInv
<1>4. UpcallInv /\ JobInv
  BY DEF UpcallInv, JobInv, NoUpcall, IdleJob
<1>5. ListenerInv
  BY DEF ListenerInv
<1> QED
  BY <1>1, <1>2, <1>3, <1>4, <1>5 DEF ConnsInv

\* The rest of decref deletes a dead connection without references.
LEMMA decref_zero_Inv ==
  ASSUME ConnsInv, NEW t \in Thread, decref_zero(t)
  PROVE  ConnsInv'
<1>1. /\ TypeOK /\ RefsCounted /\ AcceptedInv /\ OwnerInv /\ DeletedInv
      /\ UpcallInv /\ JobInv /\ ListenerInv
  BY DEF ConnsInv
<1>2. PICK c \in Conn :
        /\ c = zero[t] /\ c # None
        /\ deleted' = [deleted EXCEPT ![c] = dead_[c]]
        /\ zero' = [zero EXCEPT ![t] = None]
        /\ UNCHANGED <<made, fd_, dead_, refno_, listVars, latest, poll, job, pdus, leaked>>
  BY <1>1 DEF decref_zero, TypeOK
<1>3. dead_[c] /\ refno_[c] = 0 /\ ~deleted[c]
  BY <1>1, <1>2 DEF DeletedInv
<1>4. UNCHANGED <<conns_, lpc, fresh, todo>>
  BY <1>2 DEF listVars
<1>5. /\ \A e \in Conn : e # c => deleted'[e] = deleted[e]
      /\ deleted'[c] = TRUE
      /\ \A u \in Thread : u # t => zero'[u] = zero[u]
      /\ zero'[t] = None
  BY <1>1, <1>2, <1>3 DEF TypeOK
<1>6. \A e \in 1 .. made : e \in Conn
  BY <1>1, ServerConnsConstants DEF TypeOK, Conn
<1>7. TypeOK'
  BY <1>1, <1>2, <1>4 DEF TypeOK
<1>8. RefsCounted'
  BY <1>1, <1>2, <1>4, SameParts, RefsFrame
<1>9. AcceptedInv'
  <2>1. ~(c > made)
    BY <1>1, <1>3 DEF AcceptedInv
  <2> QED BY <1>1, <1>2, <1>5, <2>1, AcceptedFrame
<1>10. OwnerInv'
  BY <1>1, <1>2, <1>4, <1>5, <1>6 DEF OwnerInv
<1>11. DeletedInv'
  <2>1. \A u \in Thread : zero[u] # None => zero[u] \in Conn
    BY <1>1 DEF TypeOK
  <2>2. \A u \in Thread : zero'[u] # None => u # t /\ zero'[u] = zero[u] /\ zero[u] # c
    BY <1>1, <1>2, <1>5 DEF DeletedInv
  <2>3. \A e \in 1 .. made : refno_[e] = 0 => deleted'[e] \/ \E u \in Thread : zero'[u] = e
    BY <1>1, <1>2, <1>5, <1>6 DEF DeletedInv
  <2>4. \A e \in Conn : deleted'[e] => dead_[e] /\ refno_[e] = 0
    BY <1>1, <1>3, <1>5 DEF DeletedInv
  <2>5. \A u, v \in Thread : zero'[u] # None /\ zero'[u] = zero'[v] => u = v
    BY <1>1, <2>2 DEF DeletedInv
  <2>6. \A u \in Thread : zero'[u] # None =>
          dead_[zero'[u]] /\ refno_[zero'[u]] = 0 /\ ~deleted'[zero'[u]]
    BY <1>1, <1>5, <2>1, <2>2 DEF DeletedInv
  <2> QED BY <1>2, <2>3, <2>4, <2>5, <2>6 DEF DeletedInv
<1>12. UpcallInv'
  BY <1>1, <1>2, UpcallFrame
<1>13. JobInv'
  BY <1>1, <1>2, NoJobFrame
<1>14. ListenerInv'
  <2>1. zero'[Listener] = zero[Listener] \/ zero'[Listener] = None
    BY <1>5 DEF Thread
  <2> QED BY <1>1, <1>2, <1>4, <2>1 DEF ListenerInv, AtEntry
<1> QED
  BY <1>7, <1>8, <1>9, <1>10, <1>11, <1>12, <1>13, <1>14 DEF ConnsInv

\* A connection without a running callback becomes dead, by a failure or by
\* closeconn.
LEMMA DeadFrame ==
  ASSUME ConnsInv, NEW c \in Conn, c <= made, MFree(c),
         dead_' = [dead_ EXCEPT ![c] = TRUE],
         UNCHANGED <<made, fd_, refno_, deleted, zero, conns_, fresh, todo, latest, poll,
                     job, pdus, leaked>>
  PROVE  /\ TypeOK /\ (lpc' = lpc => TypeOK')
         /\ RefsCounted' /\ AcceptedInv' /\ OwnerInv' /\ DeletedInv' /\ UpcallInv' /\ JobInv'
         /\ dead_'[c] = TRUE /\ \A e \in Conn : dead_[e] => dead_'[e]
<1>1. /\ TypeOK /\ RefsCounted /\ AcceptedInv /\ OwnerInv /\ DeletedInv
      /\ UpcallInv /\ JobInv /\ ListenerInv
  BY DEF ConnsInv
<1>2. dead_'[c] = TRUE /\ \A e \in Conn : e # c => dead_'[e] = dead_[e]
  BY <1>1 DEF TypeOK
<1>3. lpc' = lpc => TypeOK'
  BY <1>1 DEF TypeOK
<1>4. RefsCounted'
  BY <1>1, SameParts, RefsFrame
<1>5. AcceptedInv'
  <2>1. ~(c > made)
    BY <1>1, ServerConnsConstants DEF TypeOK, Conn
  <2> QED BY <1>1, <1>2, <2>1, AcceptedFrame
<1>6. OwnerInv'
  BY <1>1, <1>2, OwnerFrame
<1>7. DeletedInv'
  <2>1. \A t \in Thread : zero[t] # None => zero[t] \in Conn
    BY <1>1 DEF TypeOK
  <2> QED BY <1>1, <1>2, <2>1 DEF DeletedInv
<1>8. UpcallInv'
  <2>1. poll.conn # None => poll.conn \in Conn /\ poll.conn # c
    BY <1>1 DEF TypeOK, MFree
  <2> QED BY <1>1, <1>2, <2>1, UpcallFrame
<1>9. JobInv'
  BY <1>1, NoJobFrame
<1> QED
  BY <1>1, <1>2, <1>3, <1>4, <1>5, <1>6, <1>7, <1>8, <1>9

\* A read or a write fails.
LEMMA Dies_Inv ==
  ASSUME ConnsInv, NEW c \in Conn, Dies(c)
  PROVE  ConnsInv'
<1>1. /\ TypeOK' /\ RefsCounted' /\ AcceptedInv' /\ OwnerInv' /\ DeletedInv' /\ UpcallInv'
      /\ JobInv' /\ \A e \in Conn : dead_[e] => dead_'[e]
  BY DeadFrame DEF Dies, listVars
<1>2. ListenerInv'
  BY <1>1, ListenerFrame DEF Dies, ConnsInv
<1> QED
  BY <1>1, <1>2 DEF ConnsInv

\* A step that only moves the listener, in its loop or to the destructor.
LEMMA ListenerMove ==
  ASSUME ConnsInv, UNCHANGED <<objVars, conns_, fresh, latest, poll, job, pdus, leaked>>,
         lpc' \in {"select", "isdead", "ref", "decref", "exited", "closing", "drop", "closed"},
         todo' \subseteq Fd, ListenerInv'
  PROVE  ConnsInv'
<1>1. /\ TypeOK /\ RefsCounted /\ AcceptedInv /\ OwnerInv /\ DeletedInv
      /\ UpcallInv /\ JobInv
  BY DEF ConnsInv
<1>2. UNCHANGED <<made, fd_, dead_, refno_, deleted, zero>>
  BY DEF objVars
<1>3. TypeOK'
  BY <1>1, <1>2 DEF TypeOK
<1>4. RefsCounted'
  BY <1>1, <1>2, SameParts, RefsFrame
<1>5. AcceptedInv' /\ OwnerInv' /\ DeletedInv' /\ UpcallInv' /\ JobInv'
  BY <1>1, <1>2, AcceptedFrame, OwnerFrame, DeletedFrame, UpcallFrame, NoJobFrame
<1> QED
  BY <1>3, <1>4, <1>5 DEF ConnsInv

\* accept fails.
LEMMA accept_fails_Inv ==
  ASSUME ConnsInv, accept_fails
  PROVE  ConnsInv'
<1>1. ListenerInv'
  BY DEF ConnsInv, ListenerInv, accept_fails
<1>2. todo' \subseteq Fd
  BY DEF ConnsInv, TypeOK, accept_fails
<1> QED
  BY <1>1, <1>2, ListenerMove DEF accept_fails

\* ~tcpsconn begins.
LEMMA destroy_Inv ==
  ASSUME ConnsInv, destroy
  PROVE  ConnsInv'
<1>1. ListenerInv'
  BY DEF ConnsInv, ListenerInv, destroy
<1> QED
  BY <1>1, ListenerMove DEF destroy

\* ref() == 1 is looked at.
LEMMA collect_ref_Inv ==
  ASSUME ConnsInv, collect_ref
  PROVE  ConnsInv'
<1>1. ListenerInv /\ todo \subseteq Fd
  BY DEF ConnsInv, TypeOK
<1>2. ListenerInv'
  BY <1>1 DEF ListenerInv, collect_ref, AtEntry, objVars
<1>3. lpc' \in {"decref", "isdead"} /\ todo' \subseteq Fd
  BY <1>1 DEF collect_ref
<1> QED
  BY <1>2, <1>3, ListenerMove DEF collect_ref

\* A connection is accepted, on a descriptor that no other has.
LEMMA accept_Inv ==
  ASSUME ConnsInv, NEW f \in Fd, accept(f)
  PROVE  ConnsInv'
<1> DEFINE m == made + 1
<1>1. /\ TypeOK /\ RefsCounted /\ AcceptedInv /\ OwnerInv /\ DeletedInv
      /\ UpcallInv /\ JobInv /\ ListenerInv
  BY DEF ConnsInv
<1>2. /\ lpc = "select" /\ f \in FreeFds
      /\ made' = m /\ fresh' = m /\ lpc' = "isdead"
      /\ fd_' = [fd_ EXCEPT ![m] = f] /\ refno_' = [refno_ EXCEPT ![m] = 1]
      /\ todo' = {g \in Fd : conns_[g] # None}
      /\ UNCHANGED <<dead_, deleted, zero, conns_, latest, poll, job, pdus, leaked>>
  BY DEF accept
<1>3. made \in Nat /\ m \in Conn /\ m > made /\ m \in Nat /\ m # None
  BY <1>1, ServerConnsConstants DEF TypeOK, accept, Conn, None
<1>4. refno_[m] = 0 /\ ~dead_[m] /\ ~deleted[m]
  BY <1>1, <1>3 DEF AcceptedInv
<1>5. /\ \A c \in Conn : c # m => fd_'[c] = fd_[c] /\ refno_'[c] = refno_[c]
      /\ fd_'[m] = f /\ refno_'[m] = 1
  BY <1>1, <1>2, <1>3 DEF TypeOK
<1>6. fresh = None
  BY <1>1, <1>2 DEF ListenerInv
<1>7. \A c \in 1 .. made : c \in Conn /\ c # m
  BY <1>1, <1>3, ServerConnsConstants DEF TypeOK, Conn
<1>8. \A c \in 1 .. made' : c = m \/ c \in 1 .. made
  BY <1>2, <1>3
<1>9. \A g \in Fd : conns_[g] # m
  <2>1. Listed(m) = 0
    BY <1>1, <1>3, <1>4, Counted, HolderParts
  <2> QED BY <1>1, <1>3, <2>1, HolderParts
<1> HIDE DEF m
<1>10. TypeOK'
  <2>1. m \in 0 .. MaxConn
    BY <1>3, ServerConnsConstants DEF Conn
  <2> QED BY <1>1, <1>2, <1>3, <2>1 DEF TypeOK
<1>11. RefsCounted'
  <2> SUFFICES ASSUME NEW c \in Conn PROVE refno_'[c] = Holders(c)'
    BY DEF RefsCounted
  <2>1. /\ Listed(c)' = Listed(c) /\ InJobs(c)' = InJobs(c)
        /\ Newest(c)' = Newest(c) /\ InUpcall(c)' = InUpcall(c) /\ leaked'[c] = leaked[c]
    BY <1>2, SameParts
  <2>2. Entering(c)' = (IF c = m THEN 1 ELSE 0) /\ Entering(c) = 0
    BY <1>2, <1>6 DEF Entering, Conn, None
  <2>3. refno_'[c] = refno_[c] + (IF c = m THEN 1 ELSE 0)
    BY <1>1, <1>4, <1>5, Counted
  <2> QED BY <1>1, <2>1, <2>2, <2>3, Counted, HolderParts DEF Holders
<1>12. AcceptedInv'
  <2>1. \A c \in Conn : c > made' => c > made /\ c # m
    BY <1>2, <1>3 DEF m, Conn
  <2> QED BY <1>1, <1>2, <1>5, <1>7, <1>8, <2>1 DEF AcceptedInv
<1>13. OwnerInv'
  <2>1. ASSUME NEW c \in 1 .. made', ~dead_'[c] PROVE fresh' = c \/ conns_'[fd_'[c]] = c
    BY <1>1, <1>2, <1>5, <1>6, <1>7, <1>8, <2>1 DEF OwnerInv, None
  <2>2. ASSUME NEW g \in Fd, conns_'[g] # None PROVE fd_'[conns_'[g]] = g /\ conns_'[g] # fresh'
    <3>1. conns_[g] \in Conn /\ conns_[g] # m
      BY <1>1, <1>2, <1>9, <2>2 DEF TypeOK
    <3> QED BY <1>1, <1>2, <1>5, <2>2, <3>1 DEF OwnerInv
  <2>3. \A c \in 1 .. made : ~deleted[c] => fd_[c] # f
    BY <1>2 DEF FreeFds
  <2>4. ASSUME NEW c \in 1 .. made', NEW d \in 1 .. made',
               ~deleted'[c], ~deleted'[d], fd_'[c] = fd_'[d]
        PROVE  c = d
    BY <1>1, <1>2, <1>5, <1>7, <1>8, <2>3, <2>4 DEF OwnerInv
  <2> QED BY <2>1, <2>2, <2>4 DEF OwnerInv
<1>14. DeletedInv'
  <2>1. \A t \in Thread : zero[t] # None => zero[t] \in Conn /\ zero[t] # m
    BY <1>1, <1>4 DEF TypeOK, DeletedInv
  <2>2. \A c \in Conn : deleted'[c] => dead_'[c] /\ refno_'[c] = 0
    BY <1>1, <1>2, <1>4, <1>5 DEF DeletedInv
  <2>3. \A c \in 1 .. made' : refno_'[c] = 0 => deleted'[c] \/ \E t \in Thread : zero'[t] = c
    BY <1>1, <1>2, <1>5, <1>7, <1>8 DEF DeletedInv
  <2> QED BY <1>1, <1>2, <1>5, <2>1, <2>2, <2>3 DEF DeletedInv
<1>15. UpcallInv'
  BY <1>1, <1>2, UpcallFrame DEF m
<1>16. JobInv'
  BY <1>1, <1>2, NoJobFrame
<1>17. ListenerInv'
  BY <1>2, <1>3 DEF ListenerInv
<1> QED
  BY <1>10, <1>11, <1>12, <1>13, <1>14, <1>15, <1>16, <1>17 DEF ConnsInv

\* The loop looks at isdead(), or it has ended and the new connection is entered.
LEMMA collect_isdead_Inv ==
  ASSUME ConnsInv, collect_isdead
  PROVE  ConnsInv'
<1>1. /\ TypeOK /\ RefsCounted /\ AcceptedInv /\ OwnerInv /\ DeletedInv
      /\ UpcallInv /\ JobInv /\ ListenerInv /\ todo \subseteq Fd
  BY DEF ConnsInv, TypeOK
<1>2. CASE UNCHANGED <<conns_, fresh>>
  <2>1. PICK f \in todo :
          /\ \A g \in todo : f <= g
          /\ IF dead_[conns_[f]]
             THEN lpc' = "ref" /\ UNCHANGED todo
             ELSE todo' = todo \ {f} /\ UNCHANGED lpc
    <3>1. ~(todo = {} /\ fresh' = None)
      BY <1>1, <1>2 DEF collect_isdead, ListenerInv
    <3> QED BY <3>1 DEF collect_isdead
  <2>2. /\ lpc = "isdead" /\ zero[Listener] = None
        /\ UNCHANGED <<objVars, latest, poll, job, pdus, leaked>>
    BY DEF collect_isdead
  <2>3. lpc' \in {"ref", "isdead"} /\ todo' \subseteq Fd
    BY <1>1, <2>1, <2>2
  <2>4. ListenerInv'
    <3>0. lpc' = "ref" => dead_[conns_[f]] /\ todo' = todo
      BY <2>1, <2>2
    <3>1. lpc' = "ref" => \A g \in Fd : AtEntry(g)' => g = f
      <4>1. f \in Fd /\ \A g \in Fd : g \in Nat
        BY <1>1, ServerConnsConstants
      <4> QED BY <2>1, <3>0, <4>1 DEF AtEntry
    <3>2. lpc' = "ref" => \A g \in Fd : AtEntry(g)' => dead_[conns_[g]]
      BY <3>0, <3>1
    <3> QED BY <1>1, <1>2, <2>1, <2>2, <2>3, <3>2 DEF ListenerInv, objVars
  <2> QED BY <1>2, <2>2, <2>3, <2>4, ListenerMove
<1>3. CASE /\ todo = {} /\ conns_' = [conns_ EXCEPT ![fd_[fresh]] = fresh]
           /\ fresh' = None /\ lpc' = "select" /\ todo' = todo
  <2>1. /\ lpc = "isdead" /\ UNCHANGED <<made, fd_, dead_, refno_, deleted, zero>>
        /\ UNCHANGED <<latest, poll, job, pdus, leaked>>
    BY DEF collect_isdead, objVars
  <2>2. fresh \in Conn /\ fresh # None
    BY <1>1, <2>1 DEF ListenerInv, TypeOK
  <2>3. Entering(fresh) = 1 /\ fresh \in 1 .. made /\ ~deleted[fresh] /\ fd_[fresh] \in Fd
    <3>1. Entering(fresh) = 1
      BY DEF Entering
    <3>2. refno_[fresh] # 0
      BY <1>1, <2>2, <3>1, Counted, HolderParts
    <3> QED BY <1>1, <2>2, <3>1, <3>2, Counted DEF AcceptedInv
  <2>4. conns_[fd_[fresh]] = None
    <3> DEFINE d == conns_[fd_[fresh]]
    <3> SUFFICES ASSUME d # None PROVE FALSE
      OBVIOUS
    <3>1. d \in Conn /\ fd_[d] = fd_[fresh] /\ d # fresh
      BY <1>1, <2>3 DEF OwnerInv, TypeOK
    <3>2. Listed(d) >= 1
      BY <1>1, <2>3, <3>1, HolderParts
    <3>3. refno_[d] # 0
      BY <1>1, <3>1, <3>2, Counted, HolderParts
    <3>4. d \in 1 .. made /\ ~deleted[d]
      BY <3>1, <3>3, Counted
    <3> QED BY <1>1, <2>3, <3>1, <3>4 DEF OwnerInv
  <2>5. /\ conns_'[fd_[fresh]] = fresh
        /\ \A g \in Fd : g # fd_[fresh] => conns_'[g] = conns_[g]
    BY <1>1, <1>3, <2>3 DEF TypeOK
  <2>6. TypeOK'
    BY <1>1, <1>3, <2>1, <2>2 DEF TypeOK
  <2>7. RefsCounted'
    <3> SUFFICES ASSUME NEW c \in Conn PROVE refno_'[c] = Holders(c)'
      BY DEF RefsCounted
    <3>1. /\ InJobs(c)' = InJobs(c) /\ refno_'[c] = refno_[c]
          /\ Newest(c)' = Newest(c) /\ InUpcall(c)' = InUpcall(c) /\ leaked'[c] = leaked[c]
      <4>1. job' = job /\ latest' = latest /\ poll' = poll /\ refno_' = refno_ /\ leaked' = leaked
        BY <2>1
      <4> QED BY ONLY <4>1, c \in Conn, SameParts
    <3>2. c # None
      BY DEF Conn, None
    <3>3. Listed(c)' = Listed(c) + (IF fresh = c THEN 1 ELSE 0) - 0
      BY <1>1, <1>3, <2>3, <2>4, <3>2, ListedStep
    <3>4. Entering(c)' = 0 /\ Entering(c) = IF fresh = c THEN 1 ELSE 0
      BY <1>3, <3>2 DEF Entering
    <3> QED BY <1>1, <3>1, <3>3, <3>4, Counted, HolderParts DEF Holders
  <2>8. AcceptedInv' /\ DeletedInv' /\ UpcallInv' /\ JobInv'
    BY <1>1, <2>1, AcceptedFrame, DeletedFrame, UpcallFrame, NoJobFrame
  <2>9. OwnerInv'
    <3>1. ASSUME NEW c \in 1 .. made', ~dead_'[c] PROVE conns_'[fd_'[c]] = c
      <4>1. c \in 1 .. made /\ ~dead_[c] /\ fd_'[c] = fd_[c] /\ fd_[c] \in Fd
        BY <1>1, <2>1, <3>1 DEF AcceptedInv
      <4>2. c \in Conn /\ c # None
        BY <1>1, <4>1, ServerConnsConstants DEF TypeOK, Conn, None
      <4> QED BY <1>1, <2>4, <2>5, <4>1, <4>2 DEF OwnerInv
    <3>2. ASSUME NEW g \in Fd, conns_'[g] # None PROVE fd_'[conns_'[g]] = g /\ conns_'[g] # fresh'
      BY <1>1, <1>3, <2>1, <2>5, <3>2 DEF OwnerInv
    <3> QED BY <1>1, <2>1, <3>1, <3>2 DEF OwnerInv
  <2>10. ListenerInv'
    BY <1>3 DEF ListenerInv
  <2> QED BY <2>6, <2>7, <2>8, <2>9, <2>10 DEF ConnsInv
<1> QED
  BY <1>2, <1>3 DEF collect_isdead

\* The listener drops the entry it is at, whose connection is dead: in the loop
\* of process_accept and in ~tcpsconn.
LEMMA DropEntry ==
  ASSUME ConnsInv, lpc \in {"decref", "drop"},
         NEW f \in todo, AtEntry(f), decref(Listener, conns_[f]),
         conns_' = [conns_ EXCEPT ![f] = None], todo' = todo \ {f},
         lpc' = (IF lpc = "decref" THEN "isdead" ELSE "closing"),
         UNCHANGED <<made, fd_, dead_, deleted, fresh, latest, poll, job, pdus, leaked>>
  PROVE  ConnsInv'
<1>1. /\ TypeOK /\ RefsCounted /\ AcceptedInv /\ OwnerInv /\ DeletedInv
      /\ UpcallInv /\ JobInv /\ ListenerInv /\ f \in Fd
  BY DEF ConnsInv, TypeOK
<1>2. PICK c \in Conn : c = conns_[f] /\ dead_[c]
  BY <1>1 DEF ListenerInv, TypeOK
<1>3. /\ refno_' = [refno_ EXCEPT ![c] = @ - 1]
      /\ zero' = [zero EXCEPT ![Listener] = IF refno_[c] = 1 THEN c ELSE None]
  BY <1>2 DEF decref
<1>4. c # None /\ Listed(c) >= 1 /\ refno_[c] \in Nat /\ refno_[c] # 0 /\ c \in 1 .. made
  BY <1>1, <1>2, Counted, HolderParts DEF Conn, None
<1>5. refno_'[c] = refno_[c] - 1 /\ \A e \in Conn : e # c => refno_'[e] = refno_[e]
  BY <1>1, <1>3 DEF TypeOK
<1>6. /\ conns_'[f] = None /\ \A g \in Fd : g # f => conns_'[g] = conns_[g]
  BY <1>1 DEF TypeOK
<1>7. zero[Listener] = None /\ Listener \in Thread
  BY <1>1 DEF ListenerInv, Thread
<1>8. TypeOK'
  <2>1. refno_' \in [Conn -> Nat]
    <3>1. refno_[c] - 1 \in Nat
      BY <1>4
    <3> QED BY <1>1, <1>3, <3>1 DEF TypeOK
  <2>2. zero' \in [Thread -> Conn \cup {None}]
    BY <1>1, <1>3 DEF TypeOK
  <2>3. todo' \subseteq Fd /\ conns_' \in [Fd -> Conn \cup {None}]
    BY <1>1 DEF TypeOK
  <2> QED BY <1>1, <2>1, <2>2, <2>3 DEF TypeOK
<1>9. RefsCounted'
  <2> SUFFICES ASSUME NEW e \in Conn PROVE refno_'[e] = Holders(e)'
    BY DEF RefsCounted
  <2>1. /\ InJobs(e)' = InJobs(e) /\ Newest(e)' = Newest(e) /\ InUpcall(e)' = InUpcall(e)
        /\ leaked'[e] = leaked[e] /\ Entering(e)' = Entering(e)
    BY SameParts
  <2>2. Listed(e)' = Listed(e) + (IF None = e THEN 1 ELSE 0) - (IF c = e THEN 1 ELSE 0)
    BY <1>1, <1>2, ListedStep
  <2>3. None # e
    BY DEF Conn, None
  <2>4. refno_'[e] = refno_[e] - (IF c = e THEN 1 ELSE 0)
    BY <1>1, <1>5, Counted
  <2> QED BY <1>1, <2>1, <2>2, <2>3, <2>4, Counted, HolderParts DEF Holders
<1>10. AcceptedInv'
  <2>1. ~(c > made)
    BY <1>1, <1>4, ServerConnsConstants DEF TypeOK
  <2> QED BY <1>1, <1>5, <2>1, AcceptedFrame
<1>11. OwnerInv'
  <2>1. ASSUME NEW e \in 1 .. made', ~dead_'[e] PROVE fresh' = e \/ conns_'[fd_'[e]] = e
    <3>0. e \in 1 .. made /\ ~dead_[e]
      BY <2>1
    <3>1. e \in 1 .. made /\ ~dead_[e] /\ fd_[e] \in Fd /\ e # c
      BY <1>1, <1>2, <3>0 DEF AcceptedInv
    <3>2. fresh = e \/ conns_[fd_[e]] = e
      BY <1>1, <3>1 DEF OwnerInv
    <3>3. fd_[e] = f => conns_[fd_[e]] = c
      BY <1>2
    <3> QED BY <1>6, <3>1, <3>2, <3>3
  <2>2. ASSUME NEW g \in Fd, conns_'[g] # None PROVE fd_'[conns_'[g]] = g /\ conns_'[g] # fresh'
    BY <1>1, <1>6, <2>2 DEF OwnerInv
  <2> QED BY <1>1, <2>1, <2>2 DEF OwnerInv
<1>12. DeletedInv'
  BY <1>2, <1>3, <1>4, <1>5, <1>7, DropDeleted
<1>13. UpcallInv' /\ JobInv'
  BY <1>1, UpcallFrame, NoJobFrame
<1>14. ListenerInv'
  BY <1>1, <1>6 DEF ListenerInv
<1> QED
  BY <1>8, <1>9, <1>10, <1>11, <1>12, <1>13, <1>14 DEF ConnsInv

\* The two places where the listener drops an entry.
LEMMA collect_decref_Inv ==
  ASSUME ConnsInv, collect_decref \/ close_decref
  PROVE  ConnsInv'
<1>1. PICK f \in todo : /\ AtEntry(f) /\ decref(Listener, conns_[f])
                        /\ conns_' = [conns_ EXCEPT ![f] = None] /\ todo' = todo \ {f}
  BY DEF collect_decref, close_decref, AtEntry
<1>2. /\ lpc \in {"decref", "drop"} /\ lpc' = (IF lpc = "decref" THEN "isdead" ELSE "closing")
      /\ UNCHANGED <<made, fd_, dead_, deleted, fresh, latest, poll, job, pdus, leaked>>
  BY DEF collect_decref, close_decref
<1> QED
  BY <1>1, <1>2, DropEntry

\* closeconn of the entry at which ~tcpsconn is, or its loop has ended.
LEMMA close_conn_Inv ==
  ASSUME ConnsInv, close_conn
  PROVE  ConnsInv'
<1>1. /\ TypeOK /\ OwnerInv /\ ListenerInv /\ todo \subseteq Fd
      /\ lpc = "closing" /\ zero[Listener] = None
      /\ UNCHANGED <<made, fd_, refno_, deleted, zero, conns_, fresh, todo, latest, poll,
                     job, pdus, leaked>>
  BY DEF ConnsInv, TypeOK, close_conn
<1>2. CASE todo = {} /\ lpc' = "closed" /\ UNCHANGED dead_
  <2>1. ListenerInv'
    BY <1>1, <1>2 DEF ListenerInv
  <2> QED BY <1>1, <1>2, <2>1, ListenerMove DEF objVars
<1>3. ASSUME NEW f \in todo, \A g \in todo : f <= g, MFree(conns_[f]),
             dead_' = Closed(conns_[f]), lpc' = AfterClose(conns_[f])
      PROVE  ConnsInv'
  <2>1. PICK c \in Conn : c = conns_[f]
    BY <1>1 DEF TypeOK, ListenerInv
  <2>2. c <= made
    <3>1. refno_[c] # 0
      BY <1>1, <2>1, Counted, HolderParts
    <3> QED BY <3>1, Counted
  <2>3. dead_' = [dead_ EXCEPT ![c] = TRUE] /\ lpc' = "drop"
    BY <1>3, <2>1 DEF Closed, AfterClose
  <2>4. /\ RefsCounted' /\ AcceptedInv' /\ OwnerInv' /\ DeletedInv' /\ UpcallInv' /\ JobInv'
        /\ dead_'[c] = TRUE
    BY <1>1, <1>3, <2>1, <2>2, <2>3, DeadFrame
  <2>5. TypeOK'
    BY <1>1, <2>3 DEF TypeOK
  <2>6. \A g \in Fd : AtEntry(g)' => g = f
    BY <1>1, <1>3, ServerConnsConstants DEF AtEntry
  <2>7. ListenerInv'
    BY <1>1, <2>1, <2>3, <2>4, <2>6 DEF ListenerInv
  <2> QED BY <2>4, <2>5, <2>7 DEF ConnsInv
<1> QED
  BY <1>2, <1>3 DEF close_conn

-----------------------------------------------------------------------------
(* got_pdu *)

\* A step of the poll thread: no connection gets its first reference or loses
\* its last one.
LEMMA PollFrame ==
  ASSUME ConnsInv, UNCHANGED <<made, fd_, dead_, deleted, zero, listVars, latest, leaked>>,
         TypeOK', RefsCounted', UpcallInv', JobInv',
         \A c \in Conn : refno_'[c] = 0 <=> refno_[c] = 0
  PROVE  ConnsInv'
<1>1. TypeOK /\ AcceptedInv /\ OwnerInv /\ DeletedInv /\ ListenerInv
  BY DEF ConnsInv
<1>2. AcceptedInv'
  BY <1>1, AcceptedFrame DEF AcceptedInv
<1>3. OwnerInv' /\ DeletedInv' /\ ListenerInv'
  BY <1>1, OwnerFrame, DeletedFrame, ListenerFrame DEF listVars
<1> QED
  BY <1>2, <1>3 DEF ConnsInv

\* The upcall begins, and refers to nothing yet.
LEMMA read_cb_Inv ==
  ASSUME ConnsInv, NEW c \in Conn, read_cb(c)
  PROVE  ConnsInv'
<1>1. TypeOK /\ RefsCounted /\ UpcallInv /\ JobInv
  BY DEF ConnsInv
<1>2. /\ poll.pc = "idle" /\ c <= made /\ ~dead_[c] /\ pdus < MaxPdus /\ pdus' = pdus + 1
      /\ poll' = [pc |-> "incref", conn |-> c]
      /\ UNCHANGED <<made, fd_, dead_, refno_, deleted, zero, listVars, latest, job, leaked>>
  BY DEF read_cb, objVars
<1>3. TypeOK'
  BY <1>1, <1>2, ServerConnsConstants DEF TypeOK, listVars
<1>4. RefsCounted'
  <2> SUFFICES ASSUME NEW e \in Conn PROVE refno_'[e] = Holders(e)'
    BY DEF RefsCounted
  <2>1. /\ Listed(e)' = Listed(e) /\ Entering(e)' = Entering(e) /\ InJobs(e)' = InJobs(e)
        /\ Newest(e)' = Newest(e)
    BY <1>2, SameParts DEF listVars
  <2>2. InUpcall(e) = 0 /\ InUpcall(e)' = 0
    BY <1>1, <1>2 DEF InUpcall, UpcallInv, Conn, None
  <2> QED BY <1>1, <1>2, <2>1, <2>2 DEF RefsCounted, Holders
<1>5. UpcallInv' /\ JobInv'
  BY <1>1, <1>2, NoJobFrame DEF UpcallInv, Conn, None
<1> QED
  BY <1>2, <1>3, <1>4, <1>5, PollFrame

\* got_pdu refers to the connection of the upcall.
LEMMA got_incref_Inv ==
  ASSUME ConnsInv, got_incref
  PROVE  ConnsInv'
<1>1. TypeOK /\ RefsCounted /\ UpcallInv /\ JobInv
  BY DEF ConnsInv
<1>2. PICK c \in Conn : c = poll.conn /\ c \in 1 .. made /\ ~dead_[c]
  BY <1>1 DEF got_incref, UpcallInv, TypeOK, Conn
<1>3. /\ refno_' = [refno_ EXCEPT ![c] = @ + 1] /\ poll.pc = "incref"
      /\ poll' = [poll EXCEPT !.pc = "add"]
      /\ UNCHANGED <<made, fd_, dead_, deleted, zero, listVars, latest, job, pdus, leaked>>
  BY <1>2 DEF got_incref, incref
<1>4. poll'.pc = "add" /\ poll'.conn = c
  BY <1>1, <1>2, <1>3 DEF TypeOK
<1>5. refno_[c] \in Nat /\ refno_[c] >= 1
  <2>1. Listed(c) + Entering(c) >= 1
    BY <1>2, AliveOwned
  <2>2. /\ refno_[c] = Listed(c) + Entering(c) + InJobs(c) + Newest(c) + InUpcall(c) + leaked[c]
        /\ refno_[c] \in Nat
    BY Counted
  <2>3. /\ Listed(c) \in Nat /\ Entering(c) \in Nat /\ InJobs(c) \in Nat
        /\ Newest(c) \in Nat /\ InUpcall(c) \in Nat /\ leaked[c] \in Nat
    BY <1>1, HolderParts
  <2> QED BY <2>1, <2>2, <2>3
<1>6. refno_'[c] = refno_[c] + 1 /\ \A e \in Conn : e # c => refno_'[e] = refno_[e]
  BY <1>1, <1>3 DEF TypeOK
<1>7. TypeOK'
  <2>1. refno_' \in [Conn -> Nat]
    BY <1>1, <1>3, <1>5 DEF TypeOK
  <2> QED BY <1>1, <1>3, <2>1 DEF TypeOK, listVars
<1>8. RefsCounted'
  <2> SUFFICES ASSUME NEW e \in Conn PROVE refno_'[e] = Holders(e)'
    BY DEF RefsCounted
  <2>1. /\ Listed(e)' = Listed(e) /\ Entering(e)' = Entering(e) /\ InJobs(e)' = InJobs(e)
        /\ Newest(e)' = Newest(e) /\ leaked'[e] = leaked[e]
    BY <1>3, SameParts DEF listVars
  <2>2. InUpcall(e) = 0 /\ InUpcall(e)' = IF e = c THEN 1 ELSE 0
    BY <1>3, <1>4 DEF InUpcall
  <2>3. refno_'[e] = refno_[e] + (IF e = c THEN 1 ELSE 0)
    BY <1>6, Counted
  <2> QED BY <1>1, <2>1, <2>2, <2>3, Counted, HolderParts DEF Holders
<1>9. UpcallInv' /\ JobInv'
  BY <1>1, <1>2, <1>3, <1>4, NoJobFrame DEF UpcallInv, Conn, None
<1>10. \A e \in Conn : refno_'[e] = 0 <=> refno_[e] = 0
  BY <1>5, <1>6
<1> QED
  BY <1>3, <1>7, <1>8, <1>9, <1>10, PollFrame

\* The reference becomes the job's, or the pool is full.
LEMMA got_add_Inv ==
  ASSUME ConnsInv, got_add
  PROVE  ConnsInv'
<1>1. TypeOK /\ RefsCounted /\ UpcallInv /\ JobInv
  BY DEF ConnsInv
<1>2. /\ poll.pc = "add" /\ UNCHANGED <<made, fd_, dead_, refno_, deleted, zero, listVars,
                                         latest, pdus, leaked>>
  BY DEF got_add, objVars
<1>3. PICK c \in Conn : c = poll.conn /\ c \in 1 .. made /\ ~dead_[c] /\ c # None
  BY <1>1, <1>2 DEF UpcallInv, TypeOK, Conn
<1>4. ASSUME NEW w \in Worker, job[w] = IdleJob, poll' = NoUpcall,
             job' = [job EXCEPT ![w] = [pc |-> "queued", conn |-> c, clt |-> None]]
      PROVE  ConnsInv'
  <2> DEFINE j == [pc |-> "queued", conn |-> c, clt |-> None]
  <2>0. j \in Job /\ j.conn = c /\ j.pc = "queued"
    BY DEF Job
  <2>1. job' = [job EXCEPT ![w] = j]
    BY <1>4
  <2> HIDE DEF j
  <2>2. TypeOK'
    <3>1. job' \in [Worker -> Job]
      BY <1>1, <2>0, <2>1 DEF TypeOK, Job
    <3>2. poll' \in [pc : {"idle", "incref", "add", "refused"}, conn : Conn \cup {None}]
      BY <1>4 DEF NoUpcall
    <3> QED BY <1>1, <1>2, <3>1, <3>2 DEF TypeOK, listVars, Job
  <2>3. RefsCounted'
    <3> SUFFICES ASSUME NEW e \in Conn PROVE refno_'[e] = Holders(e)'
      BY DEF RefsCounted
    <3>1. /\ Listed(e)' = Listed(e) /\ Entering(e)' = Entering(e)
          /\ Newest(e)' = Newest(e) /\ leaked'[e] = leaked[e] /\ refno_'[e] = refno_[e]
      BY <1>2, SameParts DEF listVars
    <3>2. e # None
      BY DEF Conn, None
    <3>3. InUpcall(e) = (IF e = c THEN 1 ELSE 0) /\ InUpcall(e)' = 0
      BY <1>2, <1>3, <1>4, <3>2 DEF InUpcall, NoUpcall
    <3>4. InJobs(e)' = InJobs(e) + (IF c = e THEN 1 ELSE 0) - 0
      <4>1. job[w].conn # e
        BY <1>4, <3>2 DEF IdleJob
      <4> QED BY <1>1, <2>0, <2>1, <4>1, InJobsStep
    <3> QED BY <1>1, <3>1, <3>3, <3>4, Counted, HolderParts DEF Holders
  <2>4. JobInv'
    <3>1. job'[w] = j
      BY <1>1, <2>1 DEF TypeOK
    <3>2. JobOK(w)'
      BY <1>3, <2>0, <3>1 DEF JobOK
    <3> QED BY <1>1, <1>2, <2>1, <3>2, JobsFrame
  <2>5. UpcallInv'
    BY <1>4 DEF UpcallInv, NoUpcall
  <2> QED BY <1>2, <2>2, <2>3, <2>4, <2>5, PollFrame
<1>5. CASE poll' = [poll EXCEPT !.pc = "refused"] /\ UNCHANGED job
  <2>1. poll'.pc = "refused" /\ poll'.conn = c
    BY <1>1, <1>3, <1>5 DEF TypeOK
  <2>2. TypeOK'
    BY <1>1, <1>2, <1>5 DEF TypeOK, listVars
  <2>3. RefsCounted'
    <3>1. \A e \in Conn : InUpcall(e)' = InUpcall(e)
      BY <1>2, <1>3, <2>1 DEF InUpcall
    <3>2. \A e \in Conn : /\ Listed(e)' = Listed(e) /\ Entering(e)' = Entering(e)
                          /\ InJobs(e)' = InJobs(e) /\ Newest(e)' = Newest(e)
      BY <1>2, <1>5, SameParts DEF listVars
    <3> QED BY <1>1, <1>2, <3>1, <3>2 DEF RefsCounted, Holders
  <2>4. UpcallInv' /\ JobInv'
    BY <1>1, <1>2, <1>3, <1>5, <2>1, NoJobFrame DEF UpcallInv
  <2> QED BY <1>2, <2>2, <2>3, <2>4, PollFrame
<1> QED
  BY <1>3, <1>4, <1>5 DEF got_add

\* The reference of a refused job is given back, and it is not the last one.
LEMMA got_refused_Inv ==
  ASSUME ConnsInv, got_refused
  PROVE  ConnsInv'
<1>1. TypeOK /\ RefsCounted /\ UpcallInv /\ JobInv
  BY DEF ConnsInv
<1>2. PICK c \in Conn : c = poll.conn /\ c \in 1 .. made /\ ~dead_[c]
  BY <1>1 DEF got_refused, UpcallInv, TypeOK, Conn
<1>3. /\ refno_' = [refno_ EXCEPT ![c] = @ - 1] /\ poll.pc = "refused" /\ poll' = NoUpcall
      /\ UNCHANGED <<made, fd_, dead_, deleted, zero, listVars, latest, job, pdus, leaked>>
  BY <1>2 DEF got_refused, GiveBack
<1>4. \A e \in Conn : InUpcall(e) = (IF e = c THEN 1 ELSE 0) /\ InUpcall(e)' = 0
  BY <1>2, <1>3 DEF InUpcall, NoUpcall, Conn, None
<1>5. refno_[c] \in Nat /\ refno_[c] >= 2
  BY <1>1, <1>2, <1>4, AliveOwned, Counted, HolderParts
<1>6. refno_'[c] = refno_[c] - 1 /\ \A e \in Conn : e # c => refno_'[e] = refno_[e]
  BY <1>1, <1>3 DEF TypeOK
<1>7. TypeOK'
  <2>1. refno_' \in [Conn -> Nat]
    <3>1. refno_[c] - 1 \in Nat
      BY <1>5
    <3> QED BY <1>1, <1>3, <3>1 DEF TypeOK
  <2>2. poll' \in [pc : {"idle", "incref", "add", "refused"}, conn : Conn \cup {None}]
    BY <1>3 DEF NoUpcall
  <2> QED BY <1>1, <1>3, <2>1, <2>2 DEF TypeOK, listVars
<1>8. RefsCounted'
  <2> SUFFICES ASSUME NEW e \in Conn PROVE refno_'[e] = Holders(e)'
    BY DEF RefsCounted
  <2>1. /\ Listed(e)' = Listed(e) /\ Entering(e)' = Entering(e) /\ InJobs(e)' = InJobs(e)
        /\ Newest(e)' = Newest(e) /\ leaked'[e] = leaked[e]
    BY <1>3, SameParts DEF listVars
  <2>2. refno_'[e] = refno_[e] - (IF e = c THEN 1 ELSE 0)
    BY <1>6, Counted
  <2> QED BY <1>1, <1>4, <2>1, <2>2, Counted, HolderParts DEF Holders
<1>9. UpcallInv' /\ JobInv'
  BY <1>1, <1>3, NoJobFrame DEF UpcallInv, NoUpcall
<1>10. \A e \in Conn : refno_'[e] = 0 <=> refno_[e] = 0
  BY <1>5, <1>6
<1> QED
  BY <1>3, <1>7, <1>8, <1>9, <1>10, PollFrame

-----------------------------------------------------------------------------
(* dispatch *)

\* A step of a job, whatever it does to references: the listener, the poll thread
\* and the connections themselves are left alone.
LEMMA JobFrame ==
  ASSUME ConnsInv, NEW w \in Worker, NEW j \in Job, job' = [job EXCEPT ![w] = j],
         UNCHANGED <<made, fd_, dead_, deleted, listVars, poll, pdus>>,
         refno_' \in [Conn -> Nat], zero' \in [Thread -> Conn \cup {None}],
         leaked' \in [Conn -> Nat], latest' \in [Client -> Conn \cup {None}],
         \A c \in Conn : c > made => refno_'[c] = refno_[c],
         zero'[Listener] = zero[Listener],
         \A n \in Client : latest[n] # None => latest'[n] # None,
         JobOK(w)', RefsCounted', DeletedInv'
  PROVE  ConnsInv'
<1>1. /\ TypeOK /\ AcceptedInv /\ OwnerInv /\ UpcallInv /\ JobInv /\ ListenerInv
  BY DEF ConnsInv
<1>2. TypeOK'
  <2>1. job' \in [Worker -> Job]
    BY <1>1 DEF TypeOK, Job
  <2> QED BY <1>1, <2>1 DEF TypeOK, listVars, Job
<1>3. AcceptedInv'
  BY <1>1, AcceptedFrame
<1>4. OwnerInv' /\ ListenerInv' /\ UpcallInv'
  BY <1>1, OwnerFrame, ListenerFrame, UpcallFrame DEF listVars
<1>5. JobInv'
  BY <1>1, JobsFrame
<1> QED
  BY <1>2, <1>3, <1>4, <1>5 DEF ConnsInv

\* A worker is not the listener.
LEMMA WorkerThread ==
  ASSUME NEW w \in Worker
  PROVE  w \in Thread /\ Listener \in Thread /\ w # Listener
BY ServerConnsConstants DEF Thread

\* The connection of a job that is not idle.
LEMMA JobConn ==
  ASSUME ConnsInv, NEW w \in Worker, job[w].pc # "idle"
  PROVE  /\ job[w] \in Job /\ job[w].conn \in Conn /\ job[w].conn # None
         /\ InJobs(job[w].conn) >= 1
         /\ refno_[job[w].conn] \in Nat /\ refno_[job[w].conn] >= 1
         /\ job[w].conn \in 1 .. made
         /\ ~dead_[job[w].conn] => refno_[job[w].conn] >= 2
<1>1. TypeOK /\ job[w] \in Job /\ job[w].conn # None
  BY DEF ConnsInv, TypeOK, Job, JobInv
<1>2. PICK c \in Conn : c = job[w].conn
  BY <1>1 DEF Job
<1>3. InJobs(c) >= 1
  BY <1>1, <1>2, HolderParts
<1>4. /\ Listed(c) \in Nat /\ Entering(c) \in Nat /\ InJobs(c) \in Nat
      /\ Newest(c) \in Nat /\ InUpcall(c) \in Nat /\ leaked[c] \in Nat
  BY <1>1, HolderParts
<1>5. /\ refno_[c] = Listed(c) + Entering(c) + InJobs(c) + Newest(c) + InUpcall(c) + leaked[c]
      /\ refno_[c] \in Nat
  BY Counted
<1>6. refno_[c] >= 1
  BY <1>3, <1>4, <1>5
<1>7. c \in 1 .. made
  BY <1>6, Counted
<1>8. ~dead_[c] => Listed(c) + Entering(c) >= 1
  BY <1>7, AliveOwned
<1>9. ~dead_[c] => refno_[c] >= 2
  BY <1>3, <1>4, <1>5, <1>8
<1> QED
  BY <1>1, <1>2, <1>3, <1>5, <1>6, <1>7, <1>9

\* A client's newest connection, to which the server refers.
LEMMA NewestConn ==
  ASSUME ConnsInv, NEW n \in Client, latest[n] # None
  PROVE  /\ latest[n] \in Conn /\ Newest(latest[n]) >= 1
         /\ refno_[latest[n]] \in Nat /\ refno_[latest[n]] >= 1
         /\ latest[n] \in 1 .. made
         /\ ~dead_[latest[n]] => refno_[latest[n]] >= 2
<1>1. TypeOK
  BY DEF ConnsInv
<1>2. PICK c \in Conn : c = latest[n]
  BY <1>1 DEF TypeOK
<1>3. Newest(c) >= 1
  BY <1>1, <1>2, HolderParts
<1>4. /\ Listed(c) \in Nat /\ Entering(c) \in Nat /\ InJobs(c) \in Nat
      /\ Newest(c) \in Nat /\ InUpcall(c) \in Nat /\ leaked[c] \in Nat
  BY <1>1, HolderParts
<1>5. /\ refno_[c] = Listed(c) + Entering(c) + InJobs(c) + Newest(c) + InUpcall(c) + leaked[c]
      /\ refno_[c] \in Nat
  BY Counted
<1>6. refno_[c] >= 1
  BY <1>3, <1>4, <1>5
<1>7. c \in 1 .. made
  BY <1>6, Counted
<1>8. ~dead_[c] => Listed(c) + Entering(c) >= 1
  BY <1>7, AliveOwned
<1>9. ~dead_[c] => refno_[c] >= 2
  BY <1>3, <1>4, <1>5, <1>8
<1> QED
  BY <1>2, <1>3, <1>5, <1>6, <1>7, <1>9

\* A job goes on with its connection and no reference moves.
LEMMA JobMove ==
  ASSUME ConnsInv, NEW w \in Worker, NEW j \in Job, job[w].pc # "idle",
         job' = [job EXCEPT ![w] = j], j.conn = job[w].conn, j.pc # "idle",
         j.pc \in {"conns", "run", "route"} => j.clt \in Client,
         j.pc \in {"run", "route"} => latest[j.clt] # None,
         UNCHANGED <<made, fd_, dead_, refno_, deleted, zero, listVars, latest, poll, pdus, leaked>>
  PROVE  ConnsInv'
<1>1. TypeOK /\ RefsCounted /\ DeletedInv
  BY DEF ConnsInv
<1>2. \A c \in Conn : InJobs(c) \in Nat /\ InJobs(c)' = InJobs(c)
  <2> TAKE c \in Conn
  <2>1. InJobs(c)' = InJobs(c) + (IF j.conn = c THEN 1 ELSE 0) - (IF job[w].conn = c THEN 1 ELSE 0)
    BY <1>1, InJobsStep
  <2>2. InJobs(c) \in Nat
    BY <1>1, HolderParts
  <2> QED BY <2>1, <2>2
<1>3. RefsCounted'
  BY <1>1, <1>2, RefsFrame DEF listVars
<1>4. DeletedInv'
  BY <1>1, DeletedFrame
<1>5. job'[w] = j
  BY <1>1 DEF TypeOK
<1>6. j.conn # None
  BY JobConn
<1>7. JobOK(w)'
  BY <1>5, <1>6 DEF JobOK
<1>8. /\ refno_' \in [Conn -> Nat] /\ zero' \in [Thread -> Conn \cup {None}]
      /\ leaked' \in [Conn -> Nat] /\ latest' \in [Client -> Conn \cup {None}]
  BY <1>1 DEF TypeOK
<1> QED
  BY <1>3, <1>4, <1>7, <1>8, JobFrame

\* The handler is run, or the request is a duplicate.
LEMMA run_handler_Inv ==
  ASSUME ConnsInv, NEW w \in Worker, run_handler(w)
  PROVE  ConnsInv'
<1>1. PICK p \in {"route", "send", "end"} : job' = [job EXCEPT ![w].pc = p]
  BY DEF run_handler
<1>2. job[w].pc = "run" /\ job[w] \in Job
  BY JobConn DEF run_handler, At
<1> DEFINE j == [job[w] EXCEPT !.pc = p]
<1>3. job' = [job EXCEPT ![w] = j]
  BY <1>1
<1>4. j \in Job /\ j.pc = p /\ j.conn = job[w].conn /\ j.clt = job[w].clt
  BY <1>2 DEF Job
<1> HIDE DEF j
<1>5. job[w].clt \in Client /\ latest[job[w].clt] # None
  BY <1>2 DEF ConnsInv, JobInv
<1>6. UNCHANGED <<made, fd_, dead_, refno_, deleted, zero, listVars, latest, poll, pdus, leaked>>
  BY DEF run_handler, objVars
<1> QED
  BY <1>2, <1>3, <1>4, <1>5, <1>6, JobMove

\* connection::send returns.
LEMMA send_Inv ==
  ASSUME ConnsInv, NEW w \in Worker, send(w)
  PROVE  ConnsInv'
<1>1. job[w].pc = "send" /\ job[w] \in Job
  BY JobConn DEF send, At
<1> DEFINE j == [job[w] EXCEPT !.pc = "end"]
<1>2. job' = [job EXCEPT ![w] = j]
  BY DEF send
<1>3. j \in Job /\ j.pc = "end" /\ j.conn = job[w].conn /\ j.clt = job[w].clt
  BY <1>1 DEF Job
<1> HIDE DEF j
<1>4. UNCHANGED <<made, fd_, dead_, refno_, deleted, zero, listVars, latest, poll, pdus, leaked>>
  BY DEF send, objVars
<1> QED
  BY <1>1, <1>2, <1>3, <1>4, JobMove

\* The job ends and gives its reference back.
LEMMA finish_Inv ==
  ASSUME ConnsInv, NEW w \in Worker, finish(w)
  PROVE  ConnsInv'
<1>1. TypeOK /\ RefsCounted
  BY DEF ConnsInv
<1>2. job[w].pc = "end" /\ zero[w] = None
  BY DEF finish, At
<1>3. PICK c \in Conn : /\ c = job[w].conn /\ c # None /\ refno_[c] \in Nat /\ refno_[c] >= 1
                        /\ c \in 1 .. made
                        /\ ~dead_[c] => refno_[c] >= 2
  BY <1>2, JobConn
<1>4. /\ refno_' = [refno_ EXCEPT ![c] = @ - 1]
      /\ zero' = [zero EXCEPT ![w] = IF refno_[c] = 1 THEN c ELSE None]
      /\ job' = [job EXCEPT ![w] = IdleJob]
      /\ UNCHANGED <<made, fd_, dead_, deleted, listVars, latest, poll, pdus, leaked>>
  BY <1>3 DEF finish, decref
<1>5. IdleJob \in Job /\ IdleJob.conn = None /\ job'[w] = IdleJob
  BY <1>1, <1>4 DEF Job, IdleJob, TypeOK
<1>6. refno_'[c] = refno_[c] - 1 /\ \A e \in Conn : e # c => refno_'[e] = refno_[e]
  BY <1>1, <1>4 DEF TypeOK
<1>7. refno_' \in [Conn -> Nat]
  <2>1. refno_[c] - 1 \in Nat
    BY <1>3
  <2> QED BY <1>1, <1>4, <2>1 DEF TypeOK
<1>8. zero' \in [Thread -> Conn \cup {None}] /\ zero'[Listener] = zero[Listener]
  BY <1>1, <1>4, WorkerThread DEF TypeOK
<1>9. RefsCounted'
  <2> SUFFICES ASSUME NEW e \in Conn PROVE refno_'[e] = Holders(e)'
    BY DEF RefsCounted
  <2>1. /\ Listed(e)' = Listed(e) /\ Entering(e)' = Entering(e) /\ InUpcall(e)' = InUpcall(e)
        /\ Newest(e)' = Newest(e) /\ leaked'[e] = leaked[e]
    BY <1>4, SameParts DEF listVars
  <2>2. None # e
    BY DEF Conn, None
  <2>3. InJobs(e)' = InJobs(e) + 0 - (IF c = e THEN 1 ELSE 0)
    BY <1>1, <1>3, <1>4, <1>5, <2>2, InJobsStep
  <2>4. refno_'[e] = refno_[e] - (IF c = e THEN 1 ELSE 0)
    BY <1>6, Counted
  <2> QED BY <1>1, <2>1, <2>3, <2>4, Counted, HolderParts DEF Holders
<1>10. DeletedInv'
  <2>1. refno_[c] # 0 /\ (refno_[c] = 1 => dead_[c])
    BY <1>3
  <2> QED BY <1>2, <1>4, <1>6, <2>1, WorkerThread, DropDeleted
<1>11. JobOK(w)'
  BY <1>5 DEF JobOK, IdleJob
<1>12. \A e \in Conn : e > made => refno_'[e] = refno_[e]
  <2>1. ~(c > made)
    BY <1>1, <1>3, ServerConnsConstants DEF TypeOK
  <2> QED BY <1>6, <2>1
<1>13. leaked' \in [Conn -> Nat] /\ latest' \in [Client -> Conn \cup {None}]
  BY <1>1, <1>4 DEF TypeOK
<1> QED
  BY <1>4, <1>5, <1>7, <1>8, <1>9, <1>10, <1>11, <1>12, <1>13, JobFrame

\* The header: the job ends, goes on for a client, or keeps its reference for good.
LEMMA dispatch_Inv ==
  ASSUME ConnsInv, NEW w \in Worker, dispatch(w)
  PROVE  ConnsInv'
<1>1. TypeOK /\ RefsCounted /\ DeletedInv
  BY DEF ConnsInv
<1>2. /\ job[w].pc = "queued" /\ job[w] \in Job
      /\ UNCHANGED <<made, fd_, dead_, refno_, deleted, zero, listVars, latest, poll, pdus>>
  BY JobConn DEF dispatch, At, objVars
<1>3. CASE job' = [job EXCEPT ![w].pc = "end"] /\ UNCHANGED leaked
  <2> DEFINE j == [job[w] EXCEPT !.pc = "end"]
  <2>1. job' = [job EXCEPT ![w] = j]
    BY <1>3
  <2>2. j \in Job /\ j.pc = "end" /\ j.conn = job[w].conn
    BY <1>2 DEF Job
  <2> HIDE DEF j
  <2> QED BY <1>2, <1>3, <2>1, <2>2, JobMove
<1>4. ASSUME NEW n \in Client, job' = [job EXCEPT ![w].pc = "conns", ![w].clt = n], UNCHANGED leaked
      PROVE  ConnsInv'
  <2> DEFINE j == [job[w] EXCEPT !.pc = "conns", !.clt = n]
  <2>1. job' = [job EXCEPT ![w] = j]
    BY <1>1, <1>4 DEF TypeOK
  <2>2. j \in Job /\ j.pc = "conns" /\ j.conn = job[w].conn /\ j.clt = n
    BY <1>2 DEF Job
  <2> HIDE DEF j
  <2> QED BY <1>2, <1>4, <2>1, <2>2, JobMove
<1>5. CASE /\ job' = [job EXCEPT ![w] = IdleJob]
           /\ leaked' = [leaked EXCEPT ![job[w].conn] = @ + 1]
  <2>1. PICK c \in Conn : c = job[w].conn
    BY <1>2, JobConn
  <2>2. IdleJob \in Job /\ IdleJob.conn = None /\ job'[w] = IdleJob
    BY <1>1, <1>5 DEF Job, IdleJob, TypeOK
  <2>3. \A e \in Conn : leaked'[e] = leaked[e] + (IF c = e THEN 1 ELSE 0)
    BY <1>1, <1>5, <2>1 DEF TypeOK
  <2>4. leaked' \in [Conn -> Nat]
    BY <1>1, <1>5, <2>1 DEF TypeOK
  <2>5. RefsCounted'
    <3> SUFFICES ASSUME NEW e \in Conn PROVE refno_'[e] = Holders(e)'
      BY DEF RefsCounted
    <3>1. /\ Listed(e)' = Listed(e) /\ Entering(e)' = Entering(e) /\ InUpcall(e)' = InUpcall(e)
          /\ Newest(e)' = Newest(e) /\ refno_'[e] = refno_[e]
      BY <1>2, SameParts DEF listVars
    <3>2. None # e
      BY DEF Conn, None
    <3>3. InJobs(e)' = InJobs(e) + 0 - (IF c = e THEN 1 ELSE 0)
      BY <1>1, <1>5, <2>1, <2>2, <3>2, InJobsStep
    <3> QED BY <1>1, <2>3, <3>1, <3>3, Counted, HolderParts DEF Holders
  <2>6. DeletedInv'
    BY <1>1, <1>2, DeletedFrame
  <2>7. JobOK(w)'
    BY <2>2 DEF JobOK, IdleJob
  <2>8. /\ refno_' \in [Conn -> Nat] /\ zero' \in [Thread -> Conn \cup {None}]
        /\ latest' \in [Client -> Conn \cup {None}]
    BY <1>1, <1>2 DEF TypeOK
  <2> QED BY <1>2, <1>5, <2>2, <2>4, <2>5, <2>6, <2>7, <2>8, JobFrame
<1> QED
  BY <1>3, <1>4, <1>5 DEF dispatch

\* The newest connection of the client is remembered, and the one before it dropped.
LEMMA save_latest_Inv ==
  ASSUME ConnsInv, NEW w \in Worker, save_latest(w)
  PROVE  ConnsInv'
<1> DEFINE n == job[w].clt
           old == latest[n]
           j == [job[w] EXCEPT !.pc = "run"]
<1>1. TypeOK /\ RefsCounted /\ DeletedInv
  BY DEF ConnsInv
<1>2. /\ job[w].pc = "conns" /\ zero[w] = None
      /\ UNCHANGED <<made, fd_, dead_, deleted, listVars, poll, pdus, leaked>>
  BY DEF save_latest, At
<1>3. job' = [job EXCEPT ![w] = j]
  BY DEF save_latest
<1>4. PICK c \in Conn : /\ c = job[w].conn /\ c # None /\ refno_[c] \in Nat /\ refno_[c] >= 1
                        /\ c \in 1 .. made /\ job[w] \in Job
  BY <1>2, JobConn
<1>5. n \in Client
  BY <1>2 DEF ConnsInv, JobInv
<1>6. j \in Job /\ j.pc = "run" /\ j.conn = c /\ j.clt = n
  BY <1>4 DEF Job
<1>7. \/ /\ old = None
         /\ refno_' = [refno_ EXCEPT ![c] = @ + 1]
         /\ latest' = [latest EXCEPT ![n] = c]
         /\ UNCHANGED zero
      \/ /\ old # None /\ old < c
         /\ refno_' = [refno_ EXCEPT ![old] = @ - 1, ![c] = @ + 1]
         /\ zero' = [zero EXCEPT ![w] = IF refno_[old] = 1 THEN old ELSE None]
         /\ latest' = [latest EXCEPT ![n] = c]
      \/ /\ old # None
         /\ UNCHANGED <<refno_, zero, latest>>
  BY <1>4 DEF save_latest, incref
<1>8. job'[w] = j
  BY <1>1, <1>3 DEF TypeOK
<1> HIDE DEF n, j
<1>9. \A e \in Conn : InJobs(e) \in Nat /\ InJobs(e)' = InJobs(e)
  <2> TAKE e \in Conn
  <2>1. InJobs(e)' = InJobs(e) + (IF j.conn = e THEN 1 ELSE 0) - (IF job[w].conn = e THEN 1 ELSE 0)
    BY <1>1, <1>3, InJobsStep
  <2>2. InJobs(e) \in Nat
    BY <1>1, HolderParts
  <2> QED BY <1>4, <1>6, <2>1, <2>2
<1>10. leaked' \in [Conn -> Nat] /\ latest \in [Client -> Conn \cup {None}] /\ refno_ \in [Conn -> Nat]
  BY <1>1, <1>2 DEF TypeOK
<1>11. ASSUME latest' = [latest EXCEPT ![n] = c]
       PROVE  /\ latest' \in [Client -> Conn \cup {None}] /\ latest'[n] = c
              /\ \A m \in Client : latest[m] # None => latest'[m] # None
              /\ JobOK(w)'
  <2>1. /\ latest' \in [Client -> Conn \cup {None}] /\ latest'[n] = c
        /\ \A m \in Client : latest[m] # None => latest'[m] # None
    BY <1>4, <1>5, <1>10, <1>11
  <2>2. JobOK(w)'
    BY <1>4, <1>5, <1>6, <1>8, <2>1 DEF JobOK
  <2> QED BY <2>1, <2>2
<1>12. ~(c > made)
  BY <1>1, <1>4, ServerConnsConstants DEF TypeOK
<1>13. CASE /\ old = None
            /\ refno_' = [refno_ EXCEPT ![c] = @ + 1]
            /\ latest' = [latest EXCEPT ![n] = c]
            /\ UNCHANGED zero
  <2>1. refno_'[c] = refno_[c] + 1 /\ \A e \in Conn : e # c => refno_'[e] = refno_[e]
    BY <1>10, <1>13
  <2>2. refno_' \in [Conn -> Nat] /\ zero' \in [Thread -> Conn \cup {None}]
    <3>1. refno_[c] + 1 \in Nat
      BY <1>4
    <3> QED BY <1>1, <1>10, <1>13, <3>1 DEF TypeOK
  <2>3. RefsCounted'
    <3> SUFFICES ASSUME NEW e \in Conn PROVE refno_'[e] = Holders(e)'
      BY DEF RefsCounted
    <3>1. /\ Listed(e)' = Listed(e) /\ Entering(e)' = Entering(e) /\ InUpcall(e)' = InUpcall(e)
          /\ leaked'[e] = leaked[e]
      BY <1>2, SameParts DEF listVars
    <3>2. Newest(e)' = Newest(e) + (IF c = e THEN 1 ELSE 0) - 0
      <4>1. latest[n] # e
        BY <1>13 DEF Conn, None
      <4> QED BY <1>1, <1>5, <1>13, <4>1, NewestStep
    <3>3. refno_'[e] = refno_[e] + (IF c = e THEN 1 ELSE 0)
      BY <2>1, Counted
    <3> QED BY <1>1, <1>9, <3>1, <3>2, <3>3, Counted, HolderParts DEF Holders
  <2>4. DeletedInv'
    <3>1. \A e \in Conn : refno_'[e] = 0 <=> refno_[e] = 0
      BY <1>4, <2>1
    <3> QED BY <1>1, <1>2, <1>13, <3>1, DeletedFrame
  <2>5. \A e \in Conn : e > made => refno_'[e] = refno_[e]
    BY <1>12, <2>1
  <2> QED BY <1>2, <1>3, <1>6, <1>10, <1>11, <1>13, <2>2, <2>3, <2>4, <2>5, JobFrame
<1>14. CASE /\ old # None /\ old < c
            /\ refno_' = [refno_ EXCEPT ![old] = @ - 1, ![c] = @ + 1]
            /\ zero' = [zero EXCEPT ![w] = IF refno_[old] = 1 THEN old ELSE None]
            /\ latest' = [latest EXCEPT ![n] = c]
  <2>1. PICK d \in Conn : /\ d = old /\ refno_[d] \in Nat /\ refno_[d] >= 1 /\ d \in 1 .. made
                          /\ ~dead_[d] => refno_[d] >= 2
    BY <1>5, <1>14, NewestConn
  <2>2. d # c
    BY <1>14, <2>1 DEF Conn
  <2>3. /\ refno_'[c] = refno_[c] + 1 /\ refno_'[d] = refno_[d] - 1
        /\ \A e \in Conn : e # c /\ e # d => refno_'[e] = refno_[e]
    BY <1>10, <1>14, <2>1, <2>2
  <2>4. refno_' \in [Conn -> Nat]
    <3>1. refno_[c] + 1 \in Nat /\ refno_[d] - 1 \in Nat
      BY <1>4, <2>1
    <3> QED BY <1>10, <1>14, <2>1, <2>2, <3>1
  <2>5. zero' \in [Thread -> Conn \cup {None}] /\ zero'[Listener] = zero[Listener]
    BY <1>1, <1>14, <2>1, WorkerThread DEF TypeOK
  <2>6. RefsCounted'
    <3> SUFFICES ASSUME NEW e \in Conn PROVE refno_'[e] = Holders(e)'
      BY DEF RefsCounted
    <3>1. /\ Listed(e)' = Listed(e) /\ Entering(e)' = Entering(e) /\ InUpcall(e)' = InUpcall(e)
          /\ leaked'[e] = leaked[e]
      BY <1>2, SameParts DEF listVars
    <3>2. Newest(e)' = Newest(e) + (IF c = e THEN 1 ELSE 0) - (IF d = e THEN 1 ELSE 0)
      BY <1>1, <1>5, <1>14, <2>1, NewestStep
    <3>3. refno_'[e] = refno_[e] + (IF c = e THEN 1 ELSE 0) - (IF d = e THEN 1 ELSE 0)
      BY <2>2, <2>3, Counted
    <3> QED BY <1>1, <1>9, <3>1, <3>2, <3>3, Counted, HolderParts DEF Holders
  <2>7. DeletedInv'
    <3>1. refno_[d] # 0 /\ (refno_[d] = 1 => dead_[d])
      BY <2>1
    <3>2. \A e \in Conn : e # d => (refno_'[e] = 0 <=> refno_[e] = 0)
      <4>1. refno_'[c] # 0 /\ refno_[c] # 0
        BY <1>4, <2>3
      <4> QED BY <2>3, <4>1
    <3>3. zero' = [zero EXCEPT ![w] = IF refno_[d] = 1 THEN d ELSE None]
      BY <1>14, <2>1
    <3> QED BY <1>2, <2>3, <3>1, <3>2, <3>3, WorkerThread, DropDeleted
  <2>8. \A e \in Conn : e > made => refno_'[e] = refno_[e]
    <3>1. ~(d > made)
      BY <1>1, <2>1, ServerConnsConstants DEF TypeOK
    <3> QED BY <1>12, <2>3, <3>1
  <2> QED BY <1>2, <1>3, <1>6, <1>10, <1>11, <1>14, <2>4, <2>5, <2>6, <2>7, <2>8, JobFrame
<1>15. CASE old # None /\ UNCHANGED <<refno_, zero, latest>>
  BY <1>2, <1>3, <1>4, <1>5, <1>6, <1>15, JobMove
<1> QED
  BY <1>7, <1>13, <1>14, <1>15

\* The reply stays on its connection, or moves from a dead one to the newest.
LEMMA route_Inv ==
  ASSUME ConnsInv, NEW w \in Worker, route(w)
  PROVE  ConnsInv'
<1> DEFINE n == job[w].clt
<1>1. TypeOK /\ RefsCounted /\ DeletedInv
  BY DEF ConnsInv
<1>2. /\ job[w].pc = "route" /\ zero[w] = None
      /\ UNCHANGED <<made, fd_, dead_, deleted, listVars, latest, poll, pdus, leaked>>
  BY DEF route, At
<1>3. PICK c \in Conn : /\ c = job[w].conn /\ c # None /\ refno_[c] \in Nat /\ refno_[c] >= 1
                        /\ c \in 1 .. made /\ job[w] \in Job
  BY <1>2, JobConn
<1>4. n \in Client /\ latest[n] # None
  BY <1>2 DEF ConnsInv, JobInv
<1>5. PICK d \in Conn : d = latest[n] /\ refno_[d] \in Nat /\ refno_[d] >= 1 /\ d \in 1 .. made
  BY <1>4, NewestConn
<1>6. CASE dead_[c] /\ c # d
  <2> DEFINE j == [job[w] EXCEPT !.pc = "send", !.conn = d]
  <2>1. /\ refno_' = [refno_ EXCEPT ![c] = @ - 1, ![d] = @ + 1]
        /\ zero' = [zero EXCEPT ![w] = IF refno_[c] = 1 THEN c ELSE None]
        /\ job' = [job EXCEPT ![w].pc = "send", ![w].conn = d]
    BY <1>3, <1>5, <1>6 DEF route, MoveRef
  <2>2. job' = [job EXCEPT ![w] = j]
    BY <1>1, <2>1 DEF TypeOK
  <2>3. j \in Job /\ j.pc = "send" /\ j.conn = d
    BY <1>3 DEF Job
  <2>4. job'[w] = j
    BY <1>1, <2>2 DEF TypeOK
  <2> HIDE DEF j
  <2>5. /\ refno_'[d] = refno_[d] + 1 /\ refno_'[c] = refno_[c] - 1
        /\ \A e \in Conn : e # c /\ e # d => refno_'[e] = refno_[e]
    BY <1>1, <1>6, <2>1 DEF TypeOK
  <2>6. refno_' \in [Conn -> Nat]
    <3>1. refno_[d] + 1 \in Nat /\ refno_[c] - 1 \in Nat
      BY <1>3, <1>5
    <3> QED BY <1>1, <1>6, <2>1, <3>1 DEF TypeOK
  <2>7. zero' \in [Thread -> Conn \cup {None}] /\ zero'[Listener] = zero[Listener]
    BY <1>1, <2>1, WorkerThread DEF TypeOK
  <2>8. RefsCounted'
    <3> SUFFICES ASSUME NEW e \in Conn PROVE refno_'[e] = Holders(e)'
      BY DEF RefsCounted
    <3>1. /\ Listed(e)' = Listed(e) /\ Entering(e)' = Entering(e) /\ InUpcall(e)' = InUpcall(e)
          /\ leaked'[e] = leaked[e] /\ Newest(e)' = Newest(e)
      BY <1>2, SameParts DEF listVars
    <3>2. InJobs(e)' = InJobs(e) + (IF d = e THEN 1 ELSE 0) - (IF c = e THEN 1 ELSE 0)
      BY <1>1, <1>3, <2>2, <2>3, InJobsStep
    <3>3. refno_'[e] = refno_[e] + (IF d = e THEN 1 ELSE 0) - (IF c = e THEN 1 ELSE 0)
      BY <1>6, <2>5, Counted
    <3>4. /\ Listed(e) \in Nat /\ Entering(e) \in Nat /\ InJobs(e) \in Nat
          /\ Newest(e) \in Nat /\ InUpcall(e) \in Nat /\ leaked[e] \in Nat
      BY <1>1, HolderParts
    <3>5. refno_[e] = Listed(e) + Entering(e) + InJobs(e) + Newest(e) + InUpcall(e) + leaked[e]
      BY Counted
    <3> QED BY <3>1, <3>2, <3>3, <3>4, <3>5 DEF Holders
  <2>9. DeletedInv'
    <3>1. refno_[c] # 0 /\ (refno_[c] = 1 => dead_[c])
      BY <1>3, <1>6
    <3>2. \A e \in Conn : e # c => (refno_'[e] = 0 <=> refno_[e] = 0)
      BY <1>5, <2>5
    <3> QED BY <1>2, <2>1, <2>5, <3>1, <3>2, WorkerThread, DropDeleted
  <2>10. \A e \in Conn : e > made => refno_'[e] = refno_[e]
    <3>1. ~(c > made) /\ ~(d > made)
      BY <1>1, <1>3, <1>5, ServerConnsConstants DEF TypeOK
    <3> QED BY <2>5, <3>1
  <2>11. JobOK(w)'
    <3>1. d # None
      BY DEF Conn, None
    <3> QED BY <2>3, <2>4, <3>1 DEF JobOK
  <2>12. leaked' \in [Conn -> Nat] /\ latest' \in [Client -> Conn \cup {None}]
    BY <1>1, <1>2 DEF TypeOK
  <2> QED
    BY <1>2, <2>2, <2>3, <2>6, <2>7, <2>8, <2>9, <2>10, <2>11, <2>12, JobFrame
<1>7. CASE ~(dead_[c] /\ c # d)
  <2> DEFINE j == [job[w] EXCEPT !.pc = "send"]
  <2>1. job' = [job EXCEPT ![w] = j] /\ UNCHANGED <<refno_, zero>>
    BY <1>3, <1>5, <1>7 DEF route
  <2>2. j \in Job /\ j.pc = "send" /\ j.conn = job[w].conn
    BY <1>3 DEF Job
  <2> HIDE DEF j
  <2> QED BY <1>2, <2>1, <2>2, JobMove
<1> QED
  BY <1>6, <1>7

-----------------------------------------------------------------------------
(* The theorems *)

\* Nothing changes.
LEMMA StutterConns ==
  ASSUME ConnsInv, UNCHANGED vars
  PROVE  ConnsInv'
<1>1. /\ UNCHANGED <<made, fd_, dead_, refno_, deleted, zero>>
      /\ UNCHANGED <<conns_, lpc, fresh, todo>> /\ UNCHANGED <<latest, poll, pdus, job, leaked>>
  BY DEF vars, objVars, listVars
<1>2. ListenerInv'
  BY <1>1 DEF ConnsInv, ListenerInv, AtEntry
<1>3. lpc' \in {"select", "isdead", "ref", "decref", "exited", "closing", "drop", "closed"} /\ todo' \subseteq Fd
  BY <1>1 DEF ConnsInv, TypeOK
<1> QED
  BY <1>1, <1>2, <1>3, ListenerMove DEF objVars

\* Every step keeps the invariant.
LEMMA NextConns ==
  ASSUME ConnsInv, [Next]_vars
  PROVE  ConnsInv'
<1>1. ASSUME NEW f \in Fd, accept(f) PROVE ConnsInv'
  BY <1>1, accept_Inv
<1>2. CASE accept_fails
  BY <1>2, accept_fails_Inv
<1>3. CASE destroy
  BY <1>3, destroy_Inv
<1>4. CASE ListenerStep
  <2>1. Listener \in Thread
    BY DEF Thread
  <2> QED BY <1>4, <2>1, collect_isdead_Inv, collect_ref_Inv, collect_decref_Inv, close_conn_Inv,
             decref_zero_Inv DEF ListenerStep
<1>5. ASSUME NEW c \in Conn, Dies(c) \/ read_cb(c) PROVE ConnsInv'
  BY <1>5, Dies_Inv, read_cb_Inv
<1>6. CASE PollStep
  BY <1>6, got_incref_Inv, got_add_Inv, got_refused_Inv DEF PollStep
<1>7. ASSUME NEW w \in Worker, JobStep(w) PROVE ConnsInv'
  <2>1. w \in Thread
    BY DEF Thread
  <2> QED BY <1>7, <2>1, dispatch_Inv, save_latest_Inv, run_handler_Inv, route_Inv, send_Inv,
             finish_Inv, decref_zero_Inv DEF JobStep
<1>8. CASE UNCHANGED vars \/ Terminated
  BY <1>8, StutterConns DEF Terminated
<1> QED
  BY <1>1, <1>2, <1>3, <1>4, <1>5, <1>6, <1>7, <1>8 DEF Next

\* The inductive invariant: what a connection's references are, that the listener
\* owns the live ones, and where each thread is with its own.
THEOREM ConnsInvCorrect == Spec => []ConnsInv
<1>1. Init => ConnsInv
  BY InitConns
<1>2. ConnsInv /\ [Next]_vars => ConnsInv'
  BY NextConns
<1> QED
  BY <1>1, <1>2, PTL DEF Spec

\* Every variable keeps its type, so that refno_ never becomes negative.
THEOREM TypeCorrect == Spec => []TypeOK
<1>1. ConnsInv => TypeOK
  BY DEF ConnsInv
<1> QED
  BY <1>1, ConnsInvCorrect, PTL

\* refno_ is the number of references that the listener, the jobs, the clients'
\* newest connections and got_pdu hold, plus those that dispatch has leaked.
THEOREM RefsCountedCorrect == Spec => []RefsCounted
<1>1. ConnsInv => RefsCounted
  BY DEF ConnsInv
<1> QED
  BY <1>1, ConnsInvCorrect, PTL

\* Nobody refers to a connection that decref has deleted.
THEOREM NoUseAfterDeleteCorrect == Spec => []NoUseAfterDelete
<1>1. ConnsInv => NoUseAfterDelete
  <2> SUFFICES ASSUME ConnsInv, NEW c \in Conn, deleted[c]
               PROVE  dead_[c] /\ Holders(c) = 0 /\ poll.conn # c
    BY DEF NoUseAfterDelete
  <2>1. dead_[c] /\ refno_[c] = 0
    BY DEF ConnsInv, DeletedInv
  <2>2. Holders(c) = 0
    BY <2>1 DEF ConnsInv, RefsCounted
  <2>3. poll.conn # c
    BY <2>1 DEF ConnsInv, UpcallInv, Conn, None
  <2> QED BY <2>1, <2>2, <2>3
<1> QED
  BY <1>1, ConnsInvCorrect, PTL

\* No thread waits for m_ with ref_m_ held while read_cb, with m_ held, is on its
\* way to ref_m_ of the same connection.
THEOREM NoLockCycleCorrect == Spec => []NoLockCycle
<1>1. ConnsInv => NoLockCycle
  BY DEF ConnsInv, DeletedInv, UpcallInv, NoLockCycle
<1> QED
  BY <1>1, ConnsInvCorrect, PTL

\* After ~tcpsconn every connection is dead and got_pdu is not running.
THEOREM NoUpcallAfterCloseCorrect == Spec => []NoUpcallAfterClose
<1>1. ConnsInv => NoUpcallAfterClose
  <2> SUFFICES ASSUME ConnsInv, lpc = "closed"
               PROVE  poll.pc = "idle" /\ \A c \in 1 .. made : dead_[c]
    BY DEF NoUpcallAfterClose
  <2>1. fresh = None /\ \A f \in Fd : conns_[f] = None
    BY DEF ConnsInv, ListenerInv
  <2>2. \A c \in 1 .. made : c # None /\ fd_[c] \in Fd
    BY DEF ConnsInv, AcceptedInv, None
  <2>3. \A c \in 1 .. made : dead_[c]
    BY <2>1, <2>2 DEF ConnsInv, OwnerInv
  <2>4. poll.conn # None => poll.conn \in 1 .. made
    <3>1. poll.conn # None => poll.conn \in Conn /\ poll.conn <= made
      BY DEF ConnsInv, UpcallInv, TypeOK
    <3>2. made \in Nat
      BY ServerConnsConstants DEF ConnsInv, TypeOK
    <3> QED BY <3>1, <3>2, ServerConnsConstants DEF Conn
  <2>5. poll.pc = "idle"
    BY <2>3, <2>4 DEF ConnsInv, UpcallInv
  <2> QED BY <2>3, <2>5
<1> QED
  BY <1>1, ConnsInvCorrect, PTL

\* When the listener is gone and the jobs have ended, only newest connections of
\* clients and leaked references keep a connection.
THEOREM AllDeletedCorrect == Spec => []AllDeleted
<1>1. ConnsInv => AllDeleted
  <2> SUFFICES ASSUME ConnsInv, lpc = "closed", poll.pc = "idle",
                      \A w \in Worker : job[w] = IdleJob /\ zero[w] = None,
                      NEW c \in 1 .. made, ~deleted[c], ~(leaked[c] > 0),
                      \A n \in Client : latest[n] # c
               PROVE  FALSE
    BY DEF AllDeleted
  <2>0. TypeOK /\ made \in 0 .. MaxConn
    BY DEF ConnsInv, TypeOK
  <2>1. c \in Conn /\ c # None /\ TypeOK
    BY <2>0, ServerConnsConstants DEF Conn, None
  <2>2. fresh = None /\ (\A f \in Fd : conns_[f] = None) /\ zero[Listener] = None
    BY DEF ConnsInv, ListenerInv
  <2>3. Entering(c) = 0 /\ InUpcall(c) = 0
    BY <2>1, <2>2 DEF ConnsInv, UpcallInv, Entering, InUpcall
  <2>4. leaked[c] = 0
    BY <2>1 DEF TypeOK
  <2>5. {f \in Fd : conns_[f] = c} = {}
    BY <2>1, <2>2
  <2>6. {w \in Worker : job[w].conn = c} = {}
    BY <2>1 DEF IdleJob
  <2>7. {n \in Client : latest[n] = c} = {}
    OBVIOUS
  <2>8. Listed(c) = 0 /\ InJobs(c) = 0 /\ Newest(c) = 0
    BY <2>5, <2>6, <2>7, FS_EmptySet DEF Listed, InJobs, Newest
  <2>9. refno_[c] = 0
    BY <2>1, <2>3, <2>4, <2>8, Counted
  <2>10. \A t \in Thread : zero[t] # c
    BY <2>1, <2>2 DEF Thread
  <2> QED BY <2>9, <2>10 DEF ConnsInv, DeletedInv
<1> QED
  BY <1>1, ConnsInvCorrect, PTL

=============================================================================
