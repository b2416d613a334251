-------------------------- MODULE ConnectionProofs --------------------------
(***************************************************************************)
(* The safety properties of a connection, for any number of connections,   *)
(* senders and PDUs, any sizes and any capacity of the socket: PDUs go out *)
(* whole, the poll thread calls no callback of a deleted connection, and   *)
(* of the assertions on these paths only write_cb's can fail.              *)
(***************************************************************************)
EXTENDS Connection, FiniteSetTheorems, WellFoundedInduction, TLAPS

-----------------------------------------------------------------------------
(* Numbers and sequences *)

\* A nonempty set of natural numbers has a least element.
LEMMA LeastNat ==
  ASSUME NEW S, S \subseteq Nat, S # {}
  PROVE  \E x \in S : \A y \in S : x <= y
<1> DEFINE R == {p \in Nat \X Nat : p[1] < p[2]}
<1>1. IsWellFoundedOn(R, Nat)
  BY NatLessThanWellFounded DEF OpToRel
<1>2. PICK x \in S : \A y \in S : ~(<<y, x>> \in R)
  BY <1>1, WFMin
<1>3. ASSUME NEW y \in S PROVE x <= y
  <2>1. ~(y < x)
    BY <1>2
  <2> QED BY <2>1
<1> QED
  BY <1>3

\* MinOf is the least element.
LEMMA MinOfIn ==
  ASSUME NEW S, S \subseteq Nat, S # {}
  PROVE  MinOf(S) \in S
BY LeastNat DEF MinOf

\* MaxOf is the greatest element of a set that has a bound.
LEMMA MaxOfIn ==
  ASSUME NEW S, S \subseteq Nat, S # {}, NEW b \in Nat, \A x \in S : x <= b
  PROVE  MaxOf(S) \in S /\ \A y \in S : y <= MaxOf(S)
<1> DEFINE U == {u \in Nat : \A x \in S : x <= u}
<1>1. U \subseteq Nat /\ U # {}
  OBVIOUS
<1>2. PICK u \in U : \A v \in U : u <= v
  BY <1>1, LeastNat
<1>3. u \in S
  <2> SUFFICES ASSUME u \notin S PROVE FALSE
    OBVIOUS
  <2>1. PICK z \in S : TRUE
    OBVIOUS
  <2>2. \A x \in S : x <= u - 1
    OBVIOUS
  <2>3. u - 1 \in U
    BY <2>1, <2>2
  <2> QED BY <1>2, <2>3
<1>4. \E x \in S : \A y \in S : y <= x
  BY <1>3
<1> QED
  BY <1>4 DEF MaxOf

\* n copies of x at the end of a sequence.
Extended(w, n, x) == w \o [i \in 1 .. n |-> x]

\* c is w with n copies of x behind it.
IsExtended(c, w, n, x) ==
  /\ Len(c) = Len(w) + n
  /\ \A i \in 1 .. Len(w) : c[i] = w[i]
  /\ \A i \in Len(w) + 1 .. Len(w) + n : c[i] = x

LEMMA Copies ==
  ASSUME NEW T, NEW s \in Seq(T), NEW x \in T, NEW n \in Nat
  PROVE  Extended(s, n, x) \in Seq(T) /\ IsExtended(Extended(s, n, x), s, n, x)
<1> DEFINE c == [i \in 1 .. n |-> x]
<1>1. c \in Seq(T) /\ Len(c) = n /\ \A i \in 1 .. n : c[i] = x
  OBVIOUS
<1> HIDE DEF c
<1>2. s \o c \in Seq(T) /\ Len(s \o c) = Len(s) + n
  BY <1>1
<1>3. \A i \in 1 .. Len(s) : (s \o c)[i] = s[i]
  BY <1>1
<1>4. \A i \in Len(s) + 1 .. Len(s) + n : (s \o c)[i] = x
  <2> TAKE i \in Len(s) + 1 .. Len(s) + n
  <2>1. i - Len(s) \in 1 .. n /\ i \in Len(s) + 1 .. Len(s) + Len(c)
    BY <1>1
  <2>2. (s \o c)[i] = c[i - Len(s)]
    BY <1>1, <2>1
  <2> QED BY <1>1, <2>1, <2>2
<1> QED
  BY <1>2, <1>3, <1>4 DEF c, Extended, IsExtended

\* Division with remainder.
LEMMA DivBelow ==
  ASSUME NEW n \in Nat, n > 0, NEW j \in Nat
  PROVE  j \div n \in Nat /\ n * (j \div n) \in Nat /\ n * (j \div n) <= j
OBVIOUS

\* What a write may return.
LEMMA WriteReturns ==
  ASSUME TypeOK, NEW f \in Fd, NEW n \in Nat, n > 0, NEW d \in BOOLEAN, NEW x \in WriteResults(f, n, d)
  PROVE  x \in -1 .. n
<1>1. Room(f) \in Int
  BY ConnConstants DEF TypeOK, Room
<1>2. CASE x = -1 \/ x = 0 \/ x \in 1 .. n
  BY <1>2
<1>3. CASE x \in 1 .. AtMost(Room(f), n)
  BY <1>1, <1>3 DEF AtMost
<1> QED
  BY <1>2, <1>3 DEF WriteResults

\* A position within the PDU with number k + 1.
LEMMA PduPosition ==
  ASSUME NEW n \in Nat, n > 0, NEW k \in Nat, NEW i \in n * k + 1 .. n * k + n
  PROVE  (i - 1) \div n = k
<1>1. i - 1 \in Nat /\ n * k \in Nat /\ n * k <= i - 1 /\ i - 1 < n * k + n
  OBVIOUS
<1> DEFINE d == (i - 1) \div n
<1>2. d \in Nat /\ n * d <= i - 1 /\ i - 1 < n * d + n
  BY <1>1
<1> HIDE DEF d
<1>3. ~(d < k)
  <2> SUFFICES ASSUME d + 1 <= k PROVE FALSE
    BY <1>2
  <2>1. n * (d + 1) <= n * k
    BY <1>2
  <2>2. n * (d + 1) = n * d + n
    BY <1>2
  <2> QED BY <1>1, <1>2, <2>1, <2>2
<1>4. ~(k < d)
  <2> SUFFICES ASSUME k + 1 <= d PROVE FALSE
    BY <1>2
  <2>1. n * (k + 1) <= n * d
    BY <1>2
  <2>2. n * (k + 1) = n * k + n
    OBVIOUS
  <2> QED BY <1>1, <1>2, <2>1, <2>2
<1> QED
  BY <1>2, <1>3, <1>4 DEF d

-----------------------------------------------------------------------------
(* What a step leaves alone *)

\* The places at which a call of send holds its reference, and at which it owns
\* wpdu_.
Using(p)  == p \notin {"idle", "done"}
Owns(p)   == p \in Writing \cup Removing

LEMMA LoopFrame ==
  ASSUME LoopInv, UNCHANGED <<pending_change_, changedone_c_, loopVars>>, highfds_' >= PipeFd
  PROVE  LoopInv'
BY DEF LoopInv, loopVars

LEMMA UnmadeFrame ==
  ASSUME UnmadeInv, UNCHANGED <<ppc, cbfd>>,
         readable' \subseteq readable, writable' \subseteq writable,
         \A f \in Fd : owner'[f] = "none" =>
           /\ owner[f] = "none" /\ dead_'[f] = dead_[f]
           /\ f \in rfds_' \cup wfds_' \cup callbacks_' => f \in rfds_ \cup wfds_ \cup callbacks_
           /\ \A s \in SendersOf(f) : pc'[s] = pc[s]
  PROVE  UnmadeInv'
BY DEF UnmadeInv

LEMMA RefsFrame ==
  ASSUME RefsInv, UNCHANGED <<refno_, deleted>>,
         \A f \in Fd : Owning(f)' = Owning(f) /\ (dead_[f] => dead_'[f]),
         \A s \in Sender : Using(pc'[s]) <=> Using(pc[s])
  PROVE  RefsInv'
<1>1. ASSUME NEW f \in Fd PROVE Holding(f)' = Holding(f)
  BY DEF Holding, Using
<1> QED
  BY <1>1 DEF RefsInv

LEMMA BufFrame ==
  ASSUME TypeOK, BufInv, UNCHANGED wpdu_,
         \A f \in Fd : dead_[f] => dead_'[f],
         \A s \in Sender : Owns(pc'[s]) <=> Owns(pc[s])
  PROVE  BufInv'
<1>1. \A f \in Fd : wpdu_[f].buf # NULL => wpdu_[f].buf \in Sender
  BY DEF TypeOK
<1>2. \A f \in Fd : \A s \in SendersOf(f) : s \in Sender
  BY DEF SendersOf
<1> QED
  BY <1>1, <1>2 DEF BufInv, Owns

LEMMA LineFrame ==
  ASSUME LineInv, WholePdus, UNCHANGED <<out, wpdu_>>,
         \A f \in Fd : dead_[f] => dead_'[f]
  PROVE  LineInv' /\ WholePdus'
BY DEF LineInv, WholePdus

LEMMA KillFrame ==
  ASSUME KillInv, UNCHANGED <<dead_, owner, changedone_c_>>,
         \A s \in Sender : pc'[s] \in Removing \/ pc[s] \in Removing => pc'[s] = pc[s],
         \A f \in Fd : dead_[f] => /\ Forgotten(f) => Forgotten(f)'
                                   /\ f \notin rfds_ \cup wfds_ => f \notin rfds_' \cup wfds_'
  PROVE  KillInv'
<1>1. \A f \in Fd : \A s \in SendersOf(f) : s \in Sender
  BY DEF SendersOf
<1>2. ASSUME NEW s \in Sender, SenderRemoves(s) PROVE SenderRemoves(s)'
  BY <1>2 DEF SenderRemoves, Removing
<1>3. ASSUME NEW f \in Fd, OwnerRemoves(f) PROVE OwnerRemoves(f)'
  BY <1>3 DEF OwnerRemoves
<1>4. ASSUME NEW f \in Fd, dead_'[f]
      PROVE  Forgotten(f)' \/ OwnerRemoves(f)' \/ \E s \in SendersOf(f) : SenderRemoves(s)'
  BY <1>1, <1>2, <1>3, <1>4 DEF KillInv
<1>5. ASSUME NEW f \in Fd
      PROVE  /\ owner'[f] \in {"remove", "removing", "drop", "dropped"} => dead_'[f]
             /\ owner'[f] = "removing" => f \notin rfds_' \cup wfds_'
  BY DEF KillInv
<1>6. ASSUME NEW f \in Fd, NEW s \in SendersOf(f), pc'[s] \in Removing
      PROVE  dead_'[f] /\ (pc'[s] = "removing" => f \notin rfds_' \cup wfds_')
  BY <1>1, <1>6 DEF KillInv
<1> QED
  BY <1>4, <1>5, <1>6 DEF KillInv, Removing

LEMMA ForgottenFrame ==
  ASSUME NEW f \in Fd, Forgotten(f), UNCHANGED <<ppc, cbfd>>,
         readable' \subseteq readable, writable' \subseteq writable,
         f \in rfds_' \cup wfds_' => f \in rfds_ \cup wfds_,
         f \in callbacks_' => f \in callbacks_
  PROVE  Forgotten(f)'
BY DEF Forgotten

LEMMA ReadFrame ==
  ASSUME TypeOK, ReadInv, UNCHANGED <<ppc, cbfd, readable, rpdu_>>,
         \A f \in Fd : Readable(f) => Readable(f)',
         ppc = "read" => cbfd \in Fd
  PROVE  ReadInv'
<1>1. readable \subseteq Fd
  BY DEF TypeOK, PollTypeOK
<1>2. ppc' \in {"pick", "read", "write"} => \A f \in readable' : Readable(f)'
  BY <1>1 DEF ReadInv
<1>3. ppc' = "read" => Readable(cbfd)'
  <2> SUFFICES ASSUME ppc = "read" PROVE Readable(cbfd)'
    OBVIOUS
  <2>1. PICK f \in Fd : f = cbfd
    OBVIOUS
  <2>2. Readable(f)'
    BY <2>1 DEF ReadInv
  <2> QED BY <2>1, <2>2
<1> QED
  BY <1>2, <1>3 DEF ReadInv

\* The parts of the invariant.
LEMMA Parts ==
  ASSUME ConnInv
  PROVE  /\ TypeOK /\ LoopInv /\ UnmadeInv /\ RefsInv /\ BufInv /\ LineInv /\ WholePdus
         /\ KillInv /\ ReadInv /\ OtherAssertions
         /\ Fd \subseteq Nat /\ PipeFd \in Nat /\ highfds_ \in Nat
         /\ \A f \in Fd : \A s \in SendersOf(f) : s \in Sender /\ ConnOf[s] = f
         /\ \A s \in Sender : ConnOf[s] \in Fd /\ s \in SendersOf(ConnOf[s])
BY PollConstants, ConnConstants DEF ConnInv, TypeOK, PollTypeOK, SendersOf

-----------------------------------------------------------------------------
(* The beginning, the poll thread and the peer *)

LEMMA InitConn == Init => ConnInv
<1> SUFFICES ASSUME Init PROVE ConnInv
  OBVIOUS
<1> USE PollConstants, ConnConstants DEF Init, PollInit
<1>1. TypeOK
  <2>1. PollTypeOK
    BY DEF PollTypeOK
  <2>2. EmptyW \in [buf : Sender \cup {NULL}, sz : {0, OutSz}, solong : -1 .. OutSz]
    BY DEF EmptyW
  <2>3. EmptyR \in [buf : Seq(Nat), sz : {0, InSz}]
    BY DEF EmptyR
  <2>4. wpdu_ \in [Fd -> [buf : Sender \cup {NULL}, sz : {0, OutSz}, solong : -1 .. OutSz]]
    BY <2>2
  <2>5. rpdu_ \in [Fd -> [buf : Seq(Nat), sz : {0, InSz}]]
    BY <2>3
  <2>6. out \in [Fd -> Seq(Sender)] /\ got \in [Fd -> Seq(Seq(Nat))]
    OBVIOUS
  <2>7. pc \in [Sender -> {"idle", "ref", "sent", "done"} \cup Waiting \cup Writing \cup Removing]
    OBVIOUS
  <2>8. /\ dead_ \in [Fd -> BOOLEAN] /\ deleted \in [Fd -> BOOLEAN]
        /\ shut \in [Fd -> BOOLEAN] /\ gone \in [Fd -> BOOLEAN] /\ eagain \in BOOLEAN
        /\ refno_ \in [Fd -> Nat] /\ acked \in [Fd -> Nat]
        /\ arrived \in [Fd -> Nat] /\ eaten \in [Fd -> Nat]
        /\ owner \in [Fd -> {"none", "own", "remove", "removing", "drop", "dropped"}]
        /\ ret \in [Sender -> {"none", "true", "false"}]
        /\ failed \in {"none", "write_cb", "readpdu", "~connection"}
    OBVIOUS
  <2> QED BY <2>1, <2>4, <2>5, <2>6, <2>7, <2>8 DEF TypeOK
<1>2. LoopInv
  BY DEF LoopInv
<1>3. UnmadeInv
  BY DEF UnmadeInv, SendersOf
<1>4. RefsInv
  <2>1. ASSUME NEW f \in Fd PROVE Holding(f) = {} /\ Owning(f) = 0
    BY DEF Holding, Owning
  <2>2. Cardinality({}) = 0
    BY FS_EmptySet
  <2>3. ASSUME NEW f \in Fd PROVE refno_[f] = 0 /\ ~deleted[f]
    OBVIOUS
  <2>4. ASSUME NEW f \in Fd PROVE refno_[f] = Owning(f) + Cardinality(Holding(f))
    <3>1. Cardinality(Holding(f)) = 0
      BY <2>1, <2>2
    <3>2. Owning(f) = 0 /\ refno_[f] = 0
      BY <2>1, <2>3
    <3> QED BY <3>1, <3>2
  <2> QED BY <2>3, <2>4 DEF RefsInv
<1>5. BufInv
  BY DEF BufInv, EmptyW, SendersOf, Writing, Removing
<1>6. WholePdus
  BY DEF WholePdus
<1>7. LineInv
  <2>1. ASSUME NEW f \in Fd PROVE Len(out[f]) = OutSz * 0 + wpdu_[f].solong
    BY DEF EmptyW
  <2>2. ASSUME NEW f \in Fd, NEW i \in OutSz * 0 + 1 .. Len(out[f]) PROVE FALSE
    BY <2>2
  <2> QED BY <2>1, <2>2 DEF LineInv
<1>8. KillInv
  BY DEF KillInv, SendersOf, Removing
<1>9. ReadInv
  BY DEF ReadInv, EmptyR
<1>10. OtherAssertions
  BY DEF OtherAssertions
<1> QED
  BY <1>1, <1>2, <1>3, <1>4, <1>5, <1>6, <1>7, <1>8, <1>9, <1>10 DEF ConnInv

\* A step of the poll thread outside the callbacks: everything but its own state,
\* the waiters and errno stays.
LEMMA PollFrame ==
  ASSUME ConnInv, PollTypeOK', LoopInv', UnmadeInv', KillInv', ReadInv',
         eagain' \in BOOLEAN, PollKeeps
  PROVE  ConnInv'
<1>1. UNCHANGED <<dead_, wpdu_, rpdu_, refno_, deleted, owner, pc, ret>>
  BY DEF PollKeeps, objVars, sendVars
<1>2. UNCHANGED <<shut, gone, out, acked, arrived, eaten, got, failed>>
  BY DEF PollKeeps, sockVars
<1>3. TypeOK /\ RefsInv /\ BufInv /\ LineInv /\ WholePdus /\ OtherAssertions
  BY DEF ConnInv
<1>4. TypeOK'
  BY <1>1, <1>2, <1>3 DEF TypeOK
<1>5. RefsInv'
  BY <1>1, <1>3, RefsFrame DEF Owning
<1>6. BufInv' /\ LineInv' /\ WholePdus'
  BY <1>1, <1>2, <1>3, BufFrame, LineFrame
<1>7. OtherAssertions'
  BY <1>2, <1>3 DEF OtherAssertions
<1> QED
  BY <1>4, <1>5, <1>6, <1>7 DEF ConnInv

\* The top of wait_loop: the threads that wait for the round to end are woken,
\* and what they have removed is forgotten.
LEMMA poll_top_Inv ==
  ASSUME ConnInv, poll_top, UNCHANGED eagain, PollKeeps
  PROVE  ConnInv'
<1>1. /\ TypeOK /\ LoopInv /\ UnmadeInv /\ KillInv /\ ReadInv
      /\ \A f \in Fd : \A s \in SendersOf(f) : s \in Sender /\ ConnOf[s] = f
  BY Parts
<1>2. /\ ppc = "top" /\ ppc' = "snapshot" /\ pending_change_' = FALSE /\ changedone_c_' = {}
      /\ UNCHANGED <<rfds_, wfds_, highfds_, pipe, callbacks_, readable, writable, cbfd>>
      /\ readable = {} /\ writable = {}
  BY <1>1 DEF poll_top, aioVars, LoopInv
<1>3. UNCHANGED <<dead_, owner, pc, shut, gone, arrived, eaten, rpdu_>>
  BY DEF PollKeeps, objVars, sendVars, sockVars
<1>4. PollTypeOK'
  BY <1>1, <1>2 DEF TypeOK, PollTypeOK
<1>5. LoopInv'
  BY <1>1, <1>2 DEF LoopInv
<1>6. UnmadeInv'
  BY <1>1, <1>2, <1>3 DEF UnmadeInv
<1>7. KillInv'
  <2>1. ASSUME NEW f \in Fd, dead_[f]
        PROVE  Forgotten(f)' \/ OwnerRemoves(f)' \/ \E s \in SendersOf(f) : SenderRemoves(s)'
    <3>1. f \notin rfds_ \cup wfds_ => Forgotten(f)'
      BY <1>2 DEF Forgotten
    <3>2. CASE Forgotten(f)
      BY <3>1, <3>2 DEF Forgotten
    <3>3. CASE OwnerRemoves(f)
      BY <1>1, <1>3, <3>1, <3>3 DEF OwnerRemoves, KillInv
    <3>4. ASSUME NEW s \in SendersOf(f), SenderRemoves(s)
          PROVE  Forgotten(f)' \/ SenderRemoves(s)'
      BY <1>1, <1>3, <3>1, <3>4 DEF SenderRemoves, KillInv
    <3> QED BY <1>1, <2>1, <3>2, <3>3, <3>4 DEF KillInv
  <2> QED BY <1>1, <1>2, <1>3, <2>1 DEF KillInv
<1>8. ReadInv'
  BY <1>1, <1>2, <1>3 DEF ReadInv
<1>9. eagain' \in BOOLEAN
  BY <1>1 DEF TypeOK
<1> QED
  BY <1>4, <1>5, <1>6, <1>7, <1>8, <1>9, PollFrame

\* The poll thread moves on, and its sets only shrink, or are copied from what is
\* watched.
LEMMA PollMove ==
  ASSUME ConnInv, PollKeeps, eagain' \in BOOLEAN,
         UNCHANGED <<rfds_, wfds_, highfds_, tabVars>>, pipe' \in Nat,
         readable' \subseteq readable \cup rfds_, writable' \subseteq writable \cup wfds_,
         ppc' \in {"top", "snapshot", "select", "pick", "read", "write"}, cbfd' \in Fd \cup {PipeFd},
         ppc' \in {"top", "snapshot"} => readable' = {} /\ writable' = {},
         ppc' \in {"read", "write"} => /\ cbfd' \in Fd \ readable'
                                       /\ cbfd' \in (readable \cup writable) \cap callbacks_,
         ppc' \in {"pick", "read", "write"} => \A f \in readable' : Readable(f),
         ppc' = "read" => Readable(cbfd')
  PROVE  ConnInv'
<1>1. /\ TypeOK /\ LoopInv /\ UnmadeInv /\ KillInv /\ ReadInv
  BY Parts
<1>2. UNCHANGED <<callbacks_, pending_change_, changedone_c_>>
  BY DEF tabVars
<1>3. /\ UNCHANGED <<dead_, owner, pc, rpdu_>> /\ UNCHANGED <<shut, gone, arrived, eaten>>
  BY DEF PollKeeps, objVars, sendVars, sockVars
<1>4. PollTypeOK'
  BY <1>1, <1>2 DEF TypeOK, PollTypeOK
<1>5. LoopInv'
  BY <1>1, <1>2 DEF LoopInv
<1>6. UnmadeInv'
  BY <1>1, <1>2, <1>3 DEF UnmadeInv
<1>7. KillInv'
  <2>1. ASSUME NEW f \in Fd, Forgotten(f) PROVE Forgotten(f)'
    BY <1>2, <2>1 DEF Forgotten
  <2> QED BY <1>1, <1>2, <1>3, <2>1, KillFrame
<1>8. ReadInv'
  <2>1. \A f : Readable(f)' <=> Readable(f)
    BY <1>3 DEF Readable, Avail, Broken
  <2>2. ppc' = "read" => Readable(cbfd)'
    BY <1>3 DEF Readable, Avail, Broken
  <2> QED BY <1>1, <1>3, <2>1, <2>2 DEF ReadInv
<1> QED
  BY <1>4, <1>5, <1>6, <1>7, <1>8, PollFrame

\* The sets are copied.
LEMMA poll_snapshot_Inv ==
  ASSUME ConnInv, poll_snapshot, UNCHANGED eagain, PollKeeps
  PROVE  ConnInv'
<1>1. TypeOK
  BY Parts
<1>2. /\ eagain' \in BOOLEAN /\ UNCHANGED <<rfds_, wfds_, highfds_, tabVars>> /\ pipe' \in Nat
      /\ cbfd' \in Fd \cup {PipeFd}
  BY <1>1 DEF TypeOK, PollTypeOK, poll_snapshot, aioVars
<1>3. readable' \subseteq readable \cup rfds_ /\ writable' \subseteq writable \cup wfds_ /\ ppc' = "select"
  BY DEF poll_snapshot
<1> QED
  BY <1>2, <1>3, PollMove

\* select returns with what is ready.
LEMMA PollSelect_Inv ==
  ASSUME ConnInv, PollSelect
  PROVE  ConnInv'
<1>1. TypeOK
  BY Parts
<1>2. /\ eagain' \in BOOLEAN /\ UNCHANGED <<rfds_, wfds_, highfds_, tabVars>>
      /\ cbfd' \in Fd \cup {PipeFd} /\ PollKeeps
  BY <1>1 DEF TypeOK, PollTypeOK, poll_select, PollSelect
<1>3. pipe' \in Nat
  BY <1>1 DEF TypeOK, PollTypeOK, poll_select, PollSelect
<1>4. /\ readable' = readable \cap ReadyR /\ writable' = writable \cap ReadyW
      /\ ppc' = IF readable' \cup writable' = {} THEN "top" ELSE "pick"
  BY DEF poll_select, PollSelect, Ready
<1>5. \A f \in readable' : Readable(f)
  BY <1>4 DEF ReadyR, Readable
<1>6. /\ ppc' \in {"top", "pick"}
      /\ ppc' = "top" => readable' = {} /\ writable' = {}
  BY <1>4
<1> QED
  BY <1>2, <1>3, <1>4, <1>5, <1>6, PollMove

\* select is interrupted.
LEMMA PollInterrupted_Inv ==
  ASSUME ConnInv, PollInterrupted
  PROVE  ConnInv'
<1>1. TypeOK
  BY Parts
<1>2. /\ eagain' \in BOOLEAN /\ UNCHANGED <<rfds_, wfds_, highfds_, tabVars>> /\ pipe' \in Nat
      /\ cbfd' \in Fd \cup {PipeFd} /\ PollKeeps
      /\ ppc' = "top" /\ readable' = {} /\ writable' = {}
  BY <1>1 DEF TypeOK, PollTypeOK, poll_eintr, PollInterrupted, aioVars
<1> QED
  BY <1>2, PollMove

\* The next callback of the round.
LEMMA poll_pick_Inv ==
  ASSUME ConnInv, poll_pick, UNCHANGED eagain, PollKeeps
  PROVE  ConnInv'
<1>1. TypeOK /\ ReadInv /\ readable \subseteq Fd /\ writable \subseteq Fd /\ Fd \subseteq Nat
  BY Parts DEF TypeOK, PollTypeOK
<1>2. /\ eagain' \in BOOLEAN /\ UNCHANGED <<rfds_, wfds_, highfds_, tabVars>> /\ pipe' \in Nat
      /\ ppc = "pick"
  BY <1>1 DEF TypeOK, PollTypeOK, poll_pick, aioVars
<1>3. \A f \in readable : Readable(f)
  BY <1>1, <1>2 DEF ReadInv
<1>4. CASE readable # {}
  <2>1. PICK f \in readable : f = MinOf(readable)
    BY <1>1, <1>4, MinOfIn
  <2>2. /\ readable' = readable \ {f} /\ cbfd' = f /\ writable' = writable
        /\ ppc' = IF f \in callbacks_ THEN "read" ELSE "pick"
    BY <1>4, <2>1 DEF poll_pick
  <2>3. /\ ppc' \in {"read", "write"} => /\ cbfd' \in Fd \ readable'
                                         /\ cbfd' \in (readable \cup writable) \cap callbacks_
        /\ ppc' = "read" => Readable(cbfd')
        /\ \A g \in readable' : Readable(g)
        /\ ppc' \in {"read", "pick"} /\ cbfd' \in Fd
    BY <1>1, <1>3, <2>2
  <2> QED BY <1>2, <2>2, <2>3, PollMove
<1>5. CASE readable = {} /\ writable # {}
  <2>1. PICK f \in writable : f = MinOf(writable)
    BY <1>1, <1>5, MinOfIn
  <2>2. /\ writable' = writable \ {f} /\ cbfd' = f /\ readable' = readable
        /\ ppc' = IF f \in callbacks_ THEN "write" ELSE "pick"
    BY <1>5, <2>1 DEF poll_pick
  <2>3. /\ ppc' \in {"read", "write"} => /\ cbfd' \in Fd \ readable'
                                         /\ cbfd' \in (readable \cup writable) \cap callbacks_
        /\ readable' = {} /\ ppc' \in {"write", "pick"} /\ cbfd' \in Fd
    BY <1>1, <1>5, <2>2
  <2> QED BY <1>2, <2>2, <2>3, PollMove
<1>6. CASE readable = {} /\ writable = {}
  <2>1. /\ readable' = {} /\ writable' = {} /\ ppc' = "top" /\ cbfd' \in Fd \cup {PipeFd}
    BY <1>1, <1>6 DEF poll_pick, TypeOK, PollTypeOK
  <2> QED BY <1>2, <2>1, PollMove
<1> QED
  BY <1>4, <1>5, <1>6

\* The peer: units arrive, are read on the other side, or the other side closes.
LEMMA Peer_Inv ==
  ASSUME ConnInv, NEW f \in Fd, PeerSends(f) \/ PeerReads(f) \/ PeerCloses(f)
  PROVE  ConnInv'
<1>1. /\ TypeOK /\ LoopInv /\ UnmadeInv /\ RefsInv /\ BufInv /\ LineInv /\ WholePdus
      /\ KillInv /\ ReadInv /\ OtherAssertions
  BY Parts
<1>2. UNCHANGED <<pollVars, objVars, sendVars, shut, out, eaten, got, eagain, failed>>
  BY DEF PeerSends, PeerReads, PeerCloses
<1>3. UNCHANGED <<rfds_, wfds_, highfds_, pipe, callbacks_, pending_change_, changedone_c_,
                  ppc, readable, writable, cbfd>>
  BY <1>2 DEF pollVars, aioVars, tabVars, loopVars
<1>4. UNCHANGED <<dead_, wpdu_, rpdu_, refno_, deleted, owner, pc, ret>>
  BY <1>2 DEF objVars, sendVars
<1>5. /\ arrived' \in [Fd -> Nat] /\ \A g \in Fd : arrived'[g] >= arrived[g]
      /\ acked' \in [Fd -> Nat]
      /\ gone' \in [Fd -> BOOLEAN] /\ \A g \in Fd : gone[g] => gone'[g]
  <2>1. CASE PeerSends(f)
    <3>1. arrived \in [Fd -> Nat] /\ acked \in [Fd -> Nat] /\ gone \in [Fd -> BOOLEAN]
      BY <1>1 DEF TypeOK
    <3>2. arrived' = [arrived EXCEPT ![f] = @ + 1] /\ UNCHANGED <<acked, gone>>
      BY <2>1 DEF PeerSends
    <3> QED BY <3>1, <3>2
  <2>2. CASE PeerReads(f)
    <3>1. Len(out[f]) \in Nat
      BY <1>1 DEF TypeOK
    <3> QED BY <1>1, <2>2, <3>1 DEF TypeOK, PeerReads
  <2>3. CASE PeerCloses(f)
    BY <1>1, <2>3 DEF TypeOK, PeerCloses
  <2> QED BY <2>1, <2>2, <2>3
<1>6. TypeOK'
  BY <1>1, <1>2, <1>3, <1>4, <1>5 DEF TypeOK, PollTypeOK
<1>7. LoopInv' /\ UnmadeInv'
  BY <1>1, <1>3, <1>4 DEF LoopInv, UnmadeInv
<1>8. RefsInv' /\ BufInv' /\ LineInv' /\ WholePdus'
  BY <1>1, <1>2, <1>4, RefsFrame, BufFrame, LineFrame DEF Owning
<1>9. KillInv'
  <2>1. ASSUME NEW g \in Fd, Forgotten(g) PROVE Forgotten(g)'
    BY <1>3, <2>1, ForgottenFrame
  <2> QED BY <1>1, <1>3, <1>4, <2>1, KillFrame
<1>10. ReadInv'
  <2>1. ASSUME NEW g \in Fd, Readable(g) PROVE Readable(g)'
    <3>1. arrived[g] \in Nat /\ arrived'[g] \in Nat /\ eaten[g] \in Nat /\ arrived'[g] >= arrived[g]
      BY <1>1, <1>5 DEF TypeOK
    <3>2. eaten'[g] = eaten[g] /\ shut'[g] = shut[g] /\ (gone[g] => gone'[g])
      BY <1>2, <1>5
    <3> QED BY <2>1, <3>1, <3>2 DEF Readable, Avail, Broken
  <2>2. ppc = "read" => cbfd \in Fd
    BY <1>1 DEF LoopInv
  <2> QED BY <1>1, <1>3, <1>4, <2>1, <2>2, ReadFrame
<1>11. OtherAssertions'
  BY <1>1, <1>2 DEF OtherAssertions
<1> QED
  BY <1>6, <1>7, <1>8, <1>9, <1>10, <1>11 DEF ConnInv

-----------------------------------------------------------------------------
(* The poll manager's table, the references and the wire *)

Places == {"idle", "ref", "sent", "done"} \cup Waiting \cup Writing \cup Removing

\* watch_fd keeps the table in order, and touches one descriptor.
LEMMA Watches ==
  ASSUME TypeOK, LoopInv, NEW fd \in Fd, NEW flag, watch_fd(fd, flag)
  PROVE  /\ rfds_' \subseteq Fd /\ wfds_' \subseteq Fd /\ pipe' \in Nat
         /\ highfds_' \in Fd \cup {PipeFd} /\ highfds_' >= PipeFd
         /\ \A g : g # fd => (g \in rfds_' <=> g \in rfds_) /\ (g \in wfds_' <=> g \in wfds_)
<1>1. /\ rfds_ \subseteq Fd /\ wfds_ \subseteq Fd /\ pipe \in Nat
      /\ highfds_ \in Fd \cup {PipeFd} /\ highfds_ >= PipeFd
      /\ Fd \subseteq Nat /\ PipeFd \in Nat
  BY PollConstants DEF TypeOK, PollTypeOK, LoopInv
<1>2. highfds_' \in Fd \cup {PipeFd} /\ highfds_' >= PipeFd
  <2>1. highfds_' = IF highfds_ <= fd THEN fd ELSE highfds_
    BY DEF watch_fd, HighAfterWatch
  <2> QED BY <1>1, <2>1
<1>3. rfds_' \subseteq Fd /\ wfds_' \subseteq Fd /\ pipe' \in Nat
  BY <1>1 DEF watch_fd
<1>4. \A g : g # fd => (g \in rfds_' <=> g \in rfds_) /\ (g \in wfds_' <=> g \in wfds_)
  BY DEF watch_fd
<1> QED
  BY <1>2, <1>3, <1>4

\* So does unwatch_fd, whose search for the highest descriptor ends at the pipe.
LEMMA Unwatches ==
  ASSUME TypeOK, LoopInv, NEW fd \in Fd, NEW flag, unwatch_fd(fd, flag)
  PROVE  /\ rfds_' \subseteq rfds_ /\ wfds_' \subseteq wfds_ /\ pipe' \in Nat
         /\ highfds_' \in Fd \cup {PipeFd} /\ highfds_' >= PipeFd
         /\ flag = CB_RDWR => fd \notin rfds_' \cup wfds_'
         /\ \A g : g # fd => (g \in rfds_' <=> g \in rfds_) /\ (g \in wfds_' <=> g \in wfds_)
<1>1. /\ rfds_ \subseteq Fd /\ wfds_ \subseteq Fd /\ pipe \in Nat
      /\ highfds_ \in Fd \cup {PipeFd} /\ highfds_ >= PipeFd
      /\ Fd \subseteq Nat /\ PipeFd \in Nat
  BY PollConstants DEF TypeOK, PollTypeOK, LoopInv
<1>2. /\ rfds_' = IF "r" \in flag THEN rfds_ \ {fd} ELSE rfds_
      /\ wfds_' = IF "w" \in flag THEN wfds_ \ {fd} ELSE wfds_
      /\ pipe' = IF flag = CB_RDWR THEN pipe + 1 ELSE pipe
  BY DEF unwatch_fd, Notified
<1> DEFINE S == {i \in rfds_' \cup wfds_' \cup {PipeFd} : i <= highfds_}
<1>3. highfds_' = MaxOf(S) \/ highfds_' = highfds_
  BY DEF unwatch_fd
<1>4. rfds_' \subseteq rfds_ /\ wfds_' \subseteq wfds_ /\ pipe' \in Nat
  BY <1>1, <1>2
<1>5. MaxOf(S) \in Fd \cup {PipeFd} /\ MaxOf(S) >= PipeFd
  <2>1. S \subseteq Fd \cup {PipeFd} /\ PipeFd \in S /\ \A i \in S : i <= highfds_
    BY <1>1, <1>4
  <2>2. S \subseteq Nat /\ highfds_ \in Nat /\ S # {}
    BY <1>1, <2>1
  <2> HIDE DEF S
  <2>3. MaxOf(S) \in S /\ \A y \in S : y <= MaxOf(S)
    BY <2>1, <2>2, MaxOfIn
  <2> QED BY <1>1, <2>1, <2>3
<1>6. highfds_' \in Fd \cup {PipeFd} /\ highfds_' >= PipeFd
  BY <1>1, <1>3, <1>5
<1>7. flag = CB_RDWR => fd \notin rfds_' \cup wfds_'
  BY <1>2 DEF CB_RDWR
<1>8. \A g : g # fd => (g \in rfds_' <=> g \in rfds_) /\ (g \in wfds_' <=> g \in wfds_)
  BY <1>2
<1> QED
  BY <1>4, <1>6, <1>7, <1>8

\* The fields of wpdu_.
LEMMA BufTyped ==
  ASSUME TypeOK, NEW f \in Fd
  PROVE  wpdu_[f].buf \in Sender \cup {NULL} /\ wpdu_[f].sz \in {0, OutSz} /\ wpdu_[f].solong \in -1 .. OutSz
<1>1. wpdu_[f] \in [buf : Sender \cup {NULL}, sz : {0, OutSz}, solong : -1 .. OutSz]
  BY DEF TypeOK
<1> QED
  BY <1>1

\* There are finitely many references.
LEMMA HoldingFinite ==
  ASSUME NEW f \in Fd
  PROVE  IsFiniteSet(Holding(f)) /\ Cardinality(Holding(f)) \in Nat
<1>1. Holding(f) \subseteq Sender
  BY DEF Holding
<1> QED
  BY <1>1, ConnConstants, FS_Subset, FS_CardinalityType

\* A call of send that holds a reference is counted.
LEMMA HoldingCounts ==
  ASSUME NEW f \in Fd, NEW s \in Sender, ConnOf[s] = f, Using(pc[s])
  PROVE  Cardinality(Holding(f)) >= 1 /\ Cardinality(Holding(f) \ {s}) = Cardinality(Holding(f)) - 1
<1>1. s \in Holding(f)
  BY DEF Holding, Using
<1>2. IsFiniteSet(Holding(f)) /\ Cardinality(Holding(f)) \in Nat
  BY HoldingFinite
<1>3. Cardinality(Holding(f) \ {s}) = Cardinality(Holding(f)) - 1 /\ IsFiniteSet(Holding(f) \ {s})
  BY <1>1, <1>2, FS_RemoveElement
<1>4. Cardinality(Holding(f) \ {s}) \in Nat
  BY <1>3, FS_CardinalityType
<1> QED
  BY <1>2, <1>3, <1>4

\* The references when a call takes one or drops one.
LEMMA HoldingChange ==
  ASSUME NEW s \in Sender, pc \in [Sender -> Places], NEW p, pc' = [pc EXCEPT ![s] = p]
  PROVE  /\ \A g \in Fd : g # ConnOf[s] => Holding(g)' = Holding(g)
         /\ Using(p) => Holding(ConnOf[s])' = Holding(ConnOf[s]) \cup {s}
         /\ ~Using(p) => Holding(ConnOf[s])' = Holding(ConnOf[s]) \ {s}
<1>1. \A t \in Sender : pc'[t] = IF t = s THEN p ELSE pc[t]
  OBVIOUS
<1> QED
  BY <1>1 DEF Holding, Using

\* The units w are whole PDUs but for the last; the first k of them are followed
\* by p units of the PDU of x.
Whole(w) == \A i \in 1 .. Len(w) : w[i] = w[OutSz * ((i - 1) \div OutSz) + 1]
Ends(w, k, p, x) == /\ Len(w) = OutSz * k + p
                    /\ \A i \in OutSz * k + 1 .. Len(w) : w[i] = x

\* The part of a PDU that is added stays within the PDU.
LEMMA WireExtends ==
  ASSUME NEW T, NEW w \in Seq(T), NEW x \in T, NEW n \in Nat, NEW k \in Nat, NEW p \in Nat,
         p + n <= OutSz, Whole(w), Ends(w, k, p, x)
  PROVE  Extended(w, n, x) \in Seq(T) /\ Whole(Extended(w, n, x)) /\ Ends(Extended(w, n, x), k, p + n, x)
<1> DEFINE c == Extended(w, n, x)
<1>1. OutSz \in Nat /\ OutSz > 0 /\ Len(w) \in Nat
  BY ConnConstants
<1>2. PICK m \in Nat : m = OutSz * k
  BY <1>1
<1>3. Len(w) = m + p /\ \A i \in m + 1 .. Len(w) : w[i] = x
  BY <1>2 DEF Ends
<1>4. c \in Seq(T) /\ IsExtended(c, w, n, x)
  BY Copies
<1> HIDE DEF c
<1>5. /\ Len(c) = Len(w) + n
      /\ \A i \in 1 .. Len(w) : c[i] = w[i]
      /\ \A i \in m + 1 .. Len(w) + n : c[i] = x
  <2>1. /\ Len(c) = Len(w) + n
        /\ \A i \in 1 .. Len(w) : c[i] = w[i]
        /\ \A i \in Len(w) + 1 .. Len(w) + n : c[i] = x
    BY <1>4 DEF IsExtended
  <2>2. ASSUME NEW i \in m + 1 .. Len(w) + n PROVE c[i] = x
    <3>1. \/ i \in m + 1 .. Len(w) /\ i \in 1 .. Len(w)
          \/ i \in Len(w) + 1 .. Len(w) + n
      BY <1>1, <1>3
    <3> QED BY <1>3, <2>1, <3>1
  <2> QED BY <2>1, <2>2
<1>6. Len(c) = m + (p + n)
  BY <1>1, <1>3, <1>5
<1>7. Ends(c, k, p + n, x)
  BY <1>2, <1>3, <1>5, <1>6 DEF Ends
<1>8. ASSUME NEW i \in 1 .. Len(c) PROVE c[i] = c[OutSz * ((i - 1) \div OutSz) + 1]
  <2>1. i \in Nat /\ i - 1 \in Nat /\ i <= m + (p + n)
    BY <1>6
  <2>2. CASE i <= m
    <3>1. i \in 1 .. Len(w)
      BY <1>1, <1>3, <2>1, <2>2
    <3> DEFINE d == (i - 1) \div OutSz
    <3>2. d \in Nat /\ OutSz * d \in Nat /\ OutSz * d <= i - 1
      BY <1>1, <2>1, DivBelow
    <3>3. w[i] = w[OutSz * d + 1]
      BY <3>1 DEF Whole
    <3> HIDE DEF d
    <3>4. PICK e \in Nat : e = OutSz * d
      BY <3>2
    <3>5. e + 1 \in 1 .. Len(w)
      BY <1>1, <3>1, <3>2, <3>4
    <3>6. c[i] = c[e + 1]
      BY <1>5, <3>1, <3>3, <3>4, <3>5
    <3> QED BY <3>4, <3>6 DEF d
  <2>3. CASE i > m
    <3>1. i \in m + 1 .. m + OutSz /\ i \in m + 1 .. Len(w) + n
      BY <1>1, <1>3, <2>1, <2>3
    <3>2. (i - 1) \div OutSz = k
      BY <1>1, <1>2, <3>1, PduPosition
    <3>3. m + 1 \in m + 1 .. Len(w) + n
      BY <1>1, <3>1
    <3>4. c[i] = c[m + 1]
      BY <1>5, <3>1, <3>3
    <3> QED BY <1>2, <3>2, <3>4
  <2> QED BY <1>1, <2>1, <2>2, <2>3
<1>9. Whole(c)
  BY <1>8 DEF Whole
<1> QED
  BY <1>4, <1>7, <1>9 DEF c

\* What write accepts of the PDU of x goes behind what it accepted of it before.
LEMMA WireGrows ==
  ASSUME TypeOK, WholePdus, NEW f \in Fd, NEW x \in Sender, NEW n \in Nat, NEW k \in Nat, NEW p \in Nat,
         p + n <= OutSz, Ends(out[f], k, p, x),
         out' = [out EXCEPT ![f] = @ \o [i \in 1 .. n |-> x]]
  PROVE  /\ WholePdus' /\ out' \in [Fd -> Seq(Sender)]
         /\ Ends(out'[f], k, p + n, x)
         /\ \A g \in Fd : g # f => out'[g] = out[g]
<1>1. out \in [Fd -> Seq(Sender)] /\ out[f] \in Seq(Sender)
  BY DEF TypeOK
<1> DEFINE c == Extended(out[f], n, x)
<1>2. out' = [out EXCEPT ![f] = c]
  BY DEF Extended
<1>3. \A g \in Fd : Whole(out[g])
  BY DEF WholePdus, Whole
<1>4. c \in Seq(Sender) /\ Whole(c) /\ Ends(c, k, p + n, x)
  BY <1>1, <1>3, WireExtends
<1> HIDE DEF c
<1>5. out' \in [Fd -> Seq(Sender)] /\ out'[f] = c /\ \A g \in Fd : g # f => out'[g] = out[g]
  BY <1>1, <1>2, <1>4
<1>6. \A g \in Fd : Whole(out'[g])
  BY <1>3, <1>4, <1>5
<1>7. WholePdus'
  BY <1>6 DEF WholePdus, Whole
<1> QED
  BY <1>4, <1>5, <1>7

\* A write that fails puts nothing on the wire.
LEMMA NoUnits ==
  ASSUME NEW T, NEW w \in Seq(T), NEW x, NEW n \in Int, n = -1
  PROVE  Extended(w, n, x) = w
<1>1. [i \in 1 .. n |-> x] = << >>
  OBVIOUS
<1>2. w \o << >> = w
  OBVIOUS
<1> QED
  BY <1>1, <1>2 DEF Extended

-----------------------------------------------------------------------------
(* The owner *)

\* The poll manager is not touched.
LEMMA PollStays ==
  ASSUME LoopInv, UNCHANGED pollVars
  PROVE  /\ UNCHANGED <<rfds_, wfds_, highfds_, pipe, callbacks_, pending_change_, changedone_c_,
                        ppc, readable, writable, cbfd>>
         /\ LoopInv'
         /\ \A f \in Fd : Forgotten(f) => Forgotten(f)'
<1>1. UNCHANGED <<rfds_, wfds_, highfds_, pipe, callbacks_, pending_change_, changedone_c_,
                  ppc, readable, writable, cbfd>>
  BY DEF pollVars, aioVars, tabVars, loopVars
<1>2. LoopInv'
  BY <1>1 DEF LoopInv
<1>3. \A f \in Fd : Forgotten(f) => Forgotten(f)'
  BY <1>1 DEF Forgotten
<1> QED
  BY <1>1, <1>2, <1>3

\* The types of the poll manager's state after a change of its table.
LEMMA TableType ==
  ASSUME PollTypeOK, rfds_' \subseteq Fd, wfds_' \subseteq Fd, pipe' \in Nat,
         highfds_' \in Fd \cup {PipeFd}, callbacks_' \subseteq Fd,
         pending_change_' \in BOOLEAN, changedone_c_' \subseteq Remover,
         ppc' \in {ppc, "pick"}, UNCHANGED <<readable, writable, cbfd>>
  PROVE  PollTypeOK'
BY DEF PollTypeOK

\* The constructor.
LEMMA connection_Inv ==
  ASSUME ConnInv, NEW f \in Fd, connection(f)
  PROVE  ConnInv'
<1>1. /\ TypeOK /\ LoopInv /\ UnmadeInv /\ RefsInv /\ BufInv /\ LineInv /\ WholePdus
      /\ KillInv /\ ReadInv /\ OtherAssertions /\ Fd \subseteq Nat
      /\ \A g \in Fd : \A s \in SendersOf(g) : s \in Sender /\ ConnOf[s] = g
  BY Parts
<1>2. /\ owner[f] = "none" /\ owner' = [owner EXCEPT ![f] = "own"]
      /\ refno_' = [refno_ EXCEPT ![f] = 1]
      /\ watch_fd(f, CB_RDONLY) /\ callbacks_' = callbacks_ \cup {f}
      /\ UNCHANGED <<pending_change_, changedone_c_, loopVars, dead_, wpdu_, rpdu_, deleted>>
      /\ UNCHANGED <<sendVars, sockVars, got, eagain, failed>>
  BY DEF connection, add_callback, InitialRefs
<1>3. /\ UNCHANGED <<ppc, readable, writable, cbfd, pc, ret>>
      /\ UNCHANGED <<shut, gone, out, acked, arrived, eaten>>
  BY <1>2 DEF loopVars, sendVars, sockVars
<1>4. /\ rfds_' \subseteq Fd /\ wfds_' \subseteq Fd /\ pipe' \in Nat
      /\ highfds_' \in Fd \cup {PipeFd} /\ highfds_' >= PipeFd
      /\ \A g : g # f => (g \in rfds_' <=> g \in rfds_) /\ (g \in wfds_' <=> g \in wfds_)
  BY <1>1, <1>2, Watches
<1>5. owner \in [Fd -> {"none", "own", "remove", "removing", "drop", "dropped"}] /\ refno_ \in [Fd -> Nat]
  BY <1>1 DEF TypeOK
<1>6. /\ \A g \in Fd : owner'[g] = IF g = f THEN "own" ELSE owner[g]
      /\ \A g \in Fd : refno_'[g] = IF g = f THEN 1 ELSE refno_[g]
      /\ owner' \in [Fd -> {"none", "own", "remove", "removing", "drop", "dropped"}]
      /\ refno_' \in [Fd -> Nat]
  BY <1>2, <1>5
<1>7. PollTypeOK'
  BY <1>1, <1>2, <1>3, <1>4, TableType DEF TypeOK, PollTypeOK
<1>8. TypeOK'
  BY <1>1, <1>2, <1>3, <1>6, <1>7 DEF TypeOK
<1>9. LoopInv'
  BY <1>1, <1>2, <1>4, LoopFrame
<1>10. UnmadeInv'
  BY <1>1, <1>2, <1>3, <1>4, <1>6, UnmadeFrame
<1>11. RefsInv'
  <2>1. ~dead_[f] /\ \A s \in SendersOf(f) : pc[s] = "idle"
    BY <1>1, <1>2 DEF UnmadeInv
  <2>2. \A g \in Fd : Holding(g)' = Holding(g)
    BY <1>3 DEF Holding
  <2>3. Holding(f) = {}
    BY <2>1 DEF Holding, SendersOf
  <2>4. ~deleted[f]
    BY <1>1, <2>1 DEF RefsInv
  <2>5. Cardinality({}) = 0
    BY FS_EmptySet
  <2>6. ASSUME NEW g \in Fd, g # f
        PROVE  /\ refno_'[g] = Owning(g)' + Cardinality(Holding(g)')
               /\ deleted'[g] => refno_'[g] = 0 /\ dead_'[g]
    <3>1. Owning(g)' = Owning(g) /\ refno_'[g] = refno_[g] /\ Holding(g)' = Holding(g)
      BY <1>6, <2>2, <2>6 DEF Owning
    <3> QED BY <1>1, <1>2, <3>1 DEF RefsInv
  <2>7. refno_'[f] = Owning(f)' + Cardinality(Holding(f)')
    <3>1. Owning(f)' = 1 /\ refno_'[f] = 1
      BY <1>6 DEF Owning
    <3>2. Holding(f)' = {}
      BY <2>2, <2>3
    <3>3. Cardinality(Holding(f)') = 0
      BY <2>5, <3>2
    <3> QED BY <3>1, <3>3
  <2>8. ~deleted'[f]
    BY <1>2, <2>4
  <2> QED BY <2>6, <2>7, <2>8 DEF RefsInv
<1>12. BufInv' /\ LineInv' /\ WholePdus'
  BY <1>1, <1>2, <1>3, BufFrame, LineFrame
<1>13. KillInv'
  <2>1. ~dead_[f]
    BY <1>1, <1>2 DEF UnmadeInv
  <2>2. ASSUME NEW g \in Fd, g # f, Forgotten(g) PROVE Forgotten(g)'
    BY <1>2, <1>3, <1>4, <2>2 DEF Forgotten
  <2>3. ASSUME NEW g \in Fd, g # f, OwnerRemoves(g) PROVE OwnerRemoves(g)'
    BY <1>2, <1>6, <2>3 DEF OwnerRemoves
  <2>4. \A s \in Sender : SenderRemoves(s)' <=> SenderRemoves(s)
    BY <1>2, <1>3 DEF SenderRemoves
  <2>5. ASSUME NEW g \in Fd, dead_'[g]
        PROVE  Forgotten(g)' \/ OwnerRemoves(g)' \/ \E s \in SendersOf(g) : SenderRemoves(s)'
    <3>1. g # f /\ dead_[g]
      BY <1>2, <2>1, <2>5
    <3> QED BY <1>1, <2>2, <2>3, <2>4, <3>1 DEF KillInv
  <2>6. ASSUME NEW g \in Fd
        PROVE  /\ owner'[g] \in {"remove", "removing", "drop", "dropped"} => dead_'[g]
               /\ owner'[g] = "removing" => g \notin rfds_' \cup wfds_'
    BY <1>1, <1>2, <1>4, <1>6 DEF KillInv
  <2>7. ASSUME NEW g \in Fd, NEW s \in SendersOf(g), pc'[s] \in Removing
        PROVE  dead_'[g] /\ (pc'[s] = "removing" => g \notin rfds_' \cup wfds_')
    <3>1. dead_[g] /\ g # f /\ (pc[s] = "removing" => g \notin rfds_ \cup wfds_)
      BY <1>1, <1>3, <2>1, <2>7 DEF KillInv
    <3> QED BY <1>2, <1>3, <1>4, <3>1
  <2> QED BY <2>5, <2>6, <2>7 DEF KillInv, Removing
<1>14. ReadInv'
  <2>1. \A g \in Fd : Readable(g) => Readable(g)'
    BY <1>3 DEF Readable, Avail, Broken
  <2> QED BY <1>1, <1>2, <1>3, <2>1, ReadFrame DEF LoopInv
<1>15. OtherAssertions'
  BY <1>1, <1>2 DEF OtherAssertions
<1> QED
  BY <1>8, <1>9, <1>10, <1>11, <1>12, <1>13, <1>14, <1>15 DEF ConnInv

\* closeconn: the owner finds the connection dead, or kills it and goes on to
\* remove it.
LEMMA closeconn_Inv ==
  ASSUME ConnInv, NEW f \in Fd, closeconn(f)
  PROVE  ConnInv'
<1>1. /\ TypeOK /\ LoopInv /\ UnmadeInv /\ RefsInv /\ BufInv /\ LineInv /\ WholePdus
      /\ KillInv /\ ReadInv /\ OtherAssertions
      /\ \A g \in Fd : \A s \in SendersOf(g) : s \in Sender /\ ConnOf[s] = g
  BY Parts
<1>2. /\ owner[f] = "own"
      /\ owner' = [owner EXCEPT ![f] = IF dead_[f] THEN "drop" ELSE "remove"]
      /\ dead_' = [dead_ EXCEPT ![f] = TRUE]
      /\ shut' = [shut EXCEPT ![f] = @ \/ ~dead_[f]]
      /\ UNCHANGED <<pollVars, wpdu_, rpdu_, refno_, deleted, sendVars>>
      /\ UNCHANGED <<gone, out, acked, arrived, eaten, got, eagain, failed>>
  BY DEF closeconn
<1>3. UNCHANGED <<pc, ret>>
  BY <1>2 DEF sendVars
<1>4. /\ UNCHANGED <<rfds_, wfds_, highfds_, pipe, callbacks_, pending_change_, changedone_c_,
                     ppc, readable, writable, cbfd>>
      /\ LoopInv'
      /\ \A g \in Fd : Forgotten(g) => Forgotten(g)'
  BY <1>1, <1>2, PollStays
<1>5. /\ owner \in [Fd -> {"none", "own", "remove", "removing", "drop", "dropped"}]
      /\ dead_ \in [Fd -> BOOLEAN] /\ shut \in [Fd -> BOOLEAN]
  BY <1>1 DEF TypeOK
<1>6. /\ \A g \in Fd : g # f => owner'[g] = owner[g] /\ dead_'[g] = dead_[g] /\ shut'[g] = shut[g]
      /\ owner'[f] = (IF dead_[f] THEN "drop" ELSE "remove") /\ dead_'[f] = TRUE
      /\ shut[f] => shut'[f]
      /\ owner' \in [Fd -> {"none", "own", "remove", "removing", "drop", "dropped"}]
      /\ dead_' \in [Fd -> BOOLEAN] /\ shut' \in [Fd -> BOOLEAN]
  BY <1>2, <1>5
<1>7. \A g \in Fd : dead_[g] => dead_'[g]
  BY <1>6
<1>8. TypeOK'
  BY <1>1, <1>2, <1>3, <1>4, <1>6 DEF TypeOK, PollTypeOK
<1>9. UnmadeInv'
  <2>1. ASSUME NEW g \in Fd, owner'[g] = "none" PROVE g # f /\ owner[g] = "none" /\ dead_'[g] = dead_[g]
    BY <1>6, <2>1
  <2> QED BY <1>1, <1>3, <1>4, <2>1, UnmadeFrame
<1>10. RefsInv'
  <2>1. \A g \in Fd : Owning(g)' = Owning(g)
    BY <1>2, <1>6 DEF Owning
  <2> QED BY <1>1, <1>2, <1>3, <1>7, <2>1, RefsFrame
<1>11. BufInv' /\ LineInv' /\ WholePdus'
  BY <1>1, <1>2, <1>3, <1>7, BufFrame, LineFrame
<1>12. KillInv'
  <2>1. \A s \in Sender : SenderRemoves(s)' <=> SenderRemoves(s)
    BY <1>3, <1>4 DEF SenderRemoves
  <2>2. ASSUME NEW g \in Fd, OwnerRemoves(g) PROVE OwnerRemoves(g)'
    BY <1>2, <1>4, <1>6, <2>2 DEF OwnerRemoves
  <2>3. ~dead_[f] => OwnerRemoves(f)'
    BY <1>6 DEF OwnerRemoves
  <2>4. ASSUME NEW g \in Fd, dead_'[g]
        PROVE  Forgotten(g)' \/ OwnerRemoves(g)' \/ \E s \in SendersOf(g) : SenderRemoves(s)'
    <3>1. CASE dead_[g]
      BY <1>1, <1>4, <2>1, <2>2, <3>1 DEF KillInv
    <3>2. CASE ~dead_[g]
      BY <1>6, <2>3, <2>4, <3>2
    <3> QED BY <3>1, <3>2
  <2>5. ASSUME NEW g \in Fd
        PROVE  /\ owner'[g] \in {"remove", "removing", "drop", "dropped"} => dead_'[g]
               /\ owner'[g] = "removing" => g \notin rfds_' \cup wfds_'
    BY <1>1, <1>4, <1>6 DEF KillInv
  <2>6. ASSUME NEW g \in Fd, NEW s \in SendersOf(g), pc'[s] \in Removing
        PROVE  dead_'[g] /\ (pc'[s] = "removing" => g \notin rfds_' \cup wfds_')
    BY <1>1, <1>3, <1>4, <1>7, <2>6 DEF KillInv
  <2> QED BY <2>4, <2>5, <2>6 DEF KillInv, Removing
<1>13. ReadInv'
  <2>1. ASSUME NEW g \in Fd, Readable(g) PROVE Readable(g)'
    <3>1. (shut[g] => shut'[g]) /\ gone'[g] = gone[g] /\ arrived'[g] = arrived[g] /\ eaten'[g] = eaten[g]
      BY <1>2, <1>6
    <3> QED BY <2>1, <3>1 DEF Readable, Avail, Broken
  <2> QED BY <1>1, <1>2, <1>4, <2>1, ReadFrame DEF LoopInv
<1>14. OtherAssertions'
  BY <1>1, <1>2 DEF OtherAssertions
<1> QED
  BY <1>4, <1>8, <1>9, <1>10, <1>11, <1>12, <1>13, <1>14 DEF ConnInv

\* What the first half of block_remove_fd does to the table.
LEMMA BlockRemoves ==
  ASSUME TypeOK, LoopInv, NEW f \in Fd, NEW t \in Remover, block_remove_fd(t, f), UNCHANGED loopVars
  PROVE  /\ PollTypeOK' /\ LoopInv' /\ f \notin rfds_' \cup wfds_' /\ t \in changedone_c_'
         /\ rfds_' \subseteq rfds_ /\ wfds_' \subseteq wfds_ /\ changedone_c_ \subseteq changedone_c_'
         /\ UNCHANGED <<callbacks_, ppc, readable, writable, cbfd>>
         /\ \A g \in Fd : Forgotten(g) => Forgotten(g)'
<1>1. /\ unwatch_fd(f, CB_RDWR) /\ pending_change_' = TRUE
      /\ changedone_c_' = changedone_c_ \cup {t} /\ callbacks_' = callbacks_
  BY DEF block_remove_fd
<1>2. /\ rfds_' \subseteq rfds_ /\ wfds_' \subseteq wfds_ /\ pipe' \in Nat
      /\ highfds_' \in Fd \cup {PipeFd} /\ highfds_' >= PipeFd
      /\ f \notin rfds_' \cup wfds_'
  BY <1>1, Unwatches
<1>3. UNCHANGED <<ppc, readable, writable, cbfd>>
  BY DEF loopVars
<1>4. PollTypeOK'
  BY <1>1, <1>2, <1>3, TableType DEF TypeOK, PollTypeOK
<1>5. LoopInv'
  BY <1>1, <1>2, <1>3 DEF LoopInv
<1>6. \A g \in Fd : Forgotten(g) => Forgotten(g)'
  BY <1>1, <1>2, <1>3 DEF Forgotten
<1> QED
  BY <1>1, <1>2, <1>3, <1>4, <1>5, <1>6

\* What the second half does.
LEMMA BlockRemoved ==
  ASSUME TypeOK, LoopInv, NEW f \in Fd, NEW t, removed_fd(t, f), UNCHANGED loopVars
  PROVE  /\ PollTypeOK' /\ LoopInv' /\ t \notin changedone_c_ /\ callbacks_' \subseteq callbacks_
         /\ UNCHANGED <<rfds_, wfds_, changedone_c_, ppc, readable, writable, cbfd>>
         /\ \A g \in Fd : Forgotten(g) => Forgotten(g)'
<1>1. /\ t \notin changedone_c_ /\ callbacks_' = callbacks_ \ {f}
      /\ UNCHANGED <<rfds_, wfds_, highfds_, pipe, pending_change_, changedone_c_>>
  BY DEF removed_fd, Woken, aioVars
<1>2. UNCHANGED <<ppc, readable, writable, cbfd>>
  BY DEF loopVars
<1>3. PollTypeOK'
  BY <1>1, <1>2 DEF TypeOK, PollTypeOK
<1>4. LoopInv'
  BY <1>1, <1>2 DEF LoopInv
<1>5. \A g \in Fd : Forgotten(g) => Forgotten(g)'
  BY <1>1, <1>2 DEF Forgotten
<1> QED
  BY <1>1, <1>2, <1>3, <1>4, <1>5

\* The owner in block_remove_fd, from its start to its end.
LEMMA close_remove_Inv ==
  ASSUME ConnInv, NEW f \in Fd, close_remove(f) \/ close_removed(f)
  PROVE  ConnInv'
<1>1. /\ TypeOK /\ LoopInv /\ UnmadeInv /\ RefsInv /\ BufInv /\ LineInv /\ WholePdus
      /\ KillInv /\ ReadInv /\ OtherAssertions
      /\ \A g \in Fd : \A s \in SendersOf(g) : s \in Sender /\ ConnOf[s] = g
  BY Parts
<1> DEFINE o == IF owner[f] = "remove" THEN "removing" ELSE "drop"
<1>2. /\ owner[f] \in {"remove", "removing"} /\ owner' = [owner EXCEPT ![f] = o]
      /\ UNCHANGED <<loopVars, dead_, wpdu_, rpdu_, refno_, deleted>>
      /\ UNCHANGED <<sendVars, sockVars, got, eagain, failed>>
  BY DEF close_remove, close_removed
<1>3. UNCHANGED <<pc, ret, shut, gone, out, acked, arrived, eaten>>
  BY <1>2 DEF sendVars, sockVars
<1>4. f \in Remover
  BY ConnConstants
<1>5. /\ PollTypeOK' /\ LoopInv'
      /\ rfds_' \subseteq rfds_ /\ wfds_' \subseteq wfds_ /\ callbacks_' \subseteq callbacks_
      /\ changedone_c_ \subseteq changedone_c_'
      /\ UNCHANGED <<ppc, readable, writable, cbfd>>
      /\ \A g \in Fd : Forgotten(g) => Forgotten(g)'
  <2>1. CASE close_remove(f)
    BY <1>1, <1>2, <1>4, <2>1, BlockRemoves DEF close_remove
  <2>2. CASE close_removed(f)
    BY <1>1, <1>2, <2>2, BlockRemoved DEF close_removed
  <2> QED BY <2>1, <2>2
<1>6. /\ owner[f] = "remove" => f \notin rfds_' \cup wfds_' /\ f \in changedone_c_'
      /\ owner[f] = "removing" => f \notin changedone_c_
  <2>1. CASE close_remove(f)
    BY <1>1, <1>2, <1>4, <2>1, BlockRemoves DEF close_remove
  <2>2. CASE close_removed(f)
    BY <1>1, <1>2, <2>2, BlockRemoved DEF close_removed
  <2> QED BY <2>1, <2>2
<1>7. owner \in [Fd -> {"none", "own", "remove", "removing", "drop", "dropped"}]
  BY <1>1 DEF TypeOK
<1>8. /\ \A g \in Fd : g # f => owner'[g] = owner[g]
      /\ owner'[f] = o
      /\ owner' \in [Fd -> {"none", "own", "remove", "removing", "drop", "dropped"}]
  BY <1>2, <1>7
<1>9. TypeOK'
  BY <1>1, <1>2, <1>3, <1>5, <1>8 DEF TypeOK
<1>10. UnmadeInv'
  <2>1. ASSUME NEW g \in Fd, owner'[g] = "none" PROVE owner[g] = "none"
    BY <1>8, <2>1
  <2> QED BY <1>1, <1>2, <1>3, <1>5, <2>1, UnmadeFrame
<1>11. RefsInv'
  <2>1. \A g \in Fd : Owning(g)' = Owning(g)
    BY <1>2, <1>8 DEF Owning
  <2> QED BY <1>1, <1>2, <1>3, <2>1, RefsFrame
<1>12. BufInv' /\ LineInv' /\ WholePdus'
  BY <1>1, <1>2, <1>3, BufFrame, LineFrame
<1>13. KillInv'
  <2>1. ASSUME NEW s \in Sender, SenderRemoves(s) PROVE SenderRemoves(s)'
    BY <1>3, <1>5, <2>1 DEF SenderRemoves
  <2>2. ASSUME NEW g \in Fd, OwnerRemoves(g) PROVE OwnerRemoves(g)'
    BY <1>2, <1>5, <1>6, <1>8, <2>2 DEF OwnerRemoves
  <2>3. ASSUME NEW g \in Fd, dead_'[g]
        PROVE  Forgotten(g)' \/ OwnerRemoves(g)' \/ \E s \in SendersOf(g) : SenderRemoves(s)'
    BY <1>1, <1>2, <1>5, <2>1, <2>2, <2>3 DEF KillInv
  <2>4. ASSUME NEW g \in Fd
        PROVE  /\ owner'[g] \in {"remove", "removing", "drop", "dropped"} => dead_'[g]
               /\ owner'[g] = "removing" => g \notin rfds_' \cup wfds_'
    BY <1>1, <1>2, <1>5, <1>6, <1>8 DEF KillInv
  <2>5. ASSUME NEW g \in Fd, NEW s \in SendersOf(g), pc'[s] \in Removing
        PROVE  dead_'[g] /\ (pc'[s] = "removing" => g \notin rfds_' \cup wfds_')
    BY <1>1, <1>2, <1>3, <1>5, <2>5 DEF KillInv
  <2> QED BY <2>3, <2>4, <2>5 DEF KillInv, Removing
<1>14. ReadInv'
  <2>1. \A g \in Fd : Readable(g) => Readable(g)'
    BY <1>3 DEF Readable, Avail, Broken
  <2> QED BY <1>1, <1>2, <1>5, <2>1, ReadFrame DEF LoopInv
<1>15. OtherAssertions'
  BY <1>1, <1>2 DEF OtherAssertions
<1> QED
  BY <1>5, <1>9, <1>10, <1>11, <1>12, <1>13, <1>14, <1>15 DEF ConnInv

\* decref of the owner or of a sender: the count follows, and whoever drops the
\* last reference finds wpdu_ free.
LEMMA Drops ==
  ASSUME ConnInv, NEW f \in Fd, decref(f), UNCHANGED dead_,
         \A g \in Fd : g # f => Owning(g)' + Cardinality(Holding(g)') = Owning(g) + Cardinality(Holding(g)),
         Owning(f)' + Cardinality(Holding(f)') = (Owning(f) + Cardinality(Holding(f))) - 1,
         Owning(f) + Cardinality(Holding(f)) >= 1,
         wpdu_[f].buf # NULL => Owning(f) + Cardinality(Holding(f)) >= 2
  PROVE  /\ refno_' \in [Fd -> Nat] /\ deleted' \in [Fd -> BOOLEAN] /\ failed' = failed
         /\ RefsInv'
<1>1. TypeOK /\ RefsInv
  BY Parts
<1>2. refno_ \in [Fd -> Nat] /\ deleted \in [Fd -> BOOLEAN] /\ dead_ \in [Fd -> BOOLEAN]
  BY <1>1 DEF TypeOK
<1>3. refno_[f] = Owning(f) + Cardinality(Holding(f))
  BY <1>1 DEF RefsInv
<1>4. refno_[f] >= 1 /\ (wpdu_[f].buf # NULL => refno_[f] >= 2)
  BY <1>3
<1>5. failed' = failed
  BY <1>2, <1>4 DEF decref
<1>6. /\ refno_' = [refno_ EXCEPT ![f] = @ - 1]
      /\ deleted' = [deleted EXCEPT ![f] = refno_[f] = 1 /\ dead_[f]]
  BY DEF decref
<1>7. /\ refno_' \in [Fd -> Nat] /\ deleted' \in [Fd -> BOOLEAN]
      /\ refno_'[f] = refno_[f] - 1 /\ (deleted'[f] => refno_[f] = 1 /\ dead_[f])
      /\ \A g \in Fd : g # f => refno_'[g] = refno_[g] /\ deleted'[g] = deleted[g]
  <2>1. refno_[f] - 1 \in Nat /\ (refno_[f] = 1 /\ dead_[f]) \in BOOLEAN
    BY <1>2, <1>4
  <2>2. /\ refno_' \in [Fd -> Nat] /\ refno_'[f] = refno_[f] - 1
        /\ \A g \in Fd : g # f => refno_'[g] = refno_[g]
    BY <1>2, <1>6, <2>1
  <2>3. /\ deleted' \in [Fd -> BOOLEAN] /\ deleted'[f] = (refno_[f] = 1 /\ dead_[f])
        /\ \A g \in Fd : g # f => deleted'[g] = deleted[g]
    BY <1>2, <1>6, <2>1
  <2> QED BY <2>2, <2>3
<1>8. ASSUME NEW g \in Fd, g # f
      PROVE  /\ refno_'[g] = Owning(g)' + Cardinality(Holding(g)')
             /\ deleted'[g] => refno_'[g] = 0 /\ dead_'[g]
  <2>1. refno_[g] = Owning(g) + Cardinality(Holding(g)) /\ (deleted[g] => refno_[g] = 0 /\ dead_[g])
    BY <1>1 DEF RefsInv
  <2>2. Owning(g)' + Cardinality(Holding(g)') = Owning(g) + Cardinality(Holding(g))
    BY <1>8
  <2> QED BY <1>7, <1>8, <2>1, <2>2
<1>9. refno_'[f] = Owning(f)' + Cardinality(Holding(f)')
  <2>1. refno_'[f] = refno_[f] - 1
    BY <1>7
  <2>2. refno_'[f] = (Owning(f) + Cardinality(Holding(f))) - 1
    BY <1>3, <2>1, Zenon
  <2> QED BY <2>2, Zenon
<1>10. deleted'[f] => refno_'[f] = 0 /\ dead_'[f]
  BY <1>7
<1>11. RefsInv'
  BY <1>8, <1>9, <1>10 DEF RefsInv
<1> QED
  BY <1>5, <1>7, <1>11

\* The owner drops its reference.
LEMMA owner_decref_Inv ==
  ASSUME ConnInv, NEW f \in Fd, owner_decref(f)
  PROVE  ConnInv'
<1>1. /\ TypeOK /\ LoopInv /\ UnmadeInv /\ RefsInv /\ BufInv /\ LineInv /\ WholePdus
      /\ KillInv /\ ReadInv /\ OtherAssertions
      /\ \A g \in Fd : \A s \in SendersOf(g) : s \in Sender /\ ConnOf[s] = g
  BY Parts
<1>2. /\ owner[f] = "drop" /\ owner' = [owner EXCEPT ![f] = "dropped"] /\ decref(f)
      /\ UNCHANGED <<pollVars, dead_, wpdu_, rpdu_, sendVars, sockVars, got, eagain>>
  BY DEF owner_decref
<1>3. UNCHANGED <<pc, ret, shut, gone, out, acked, arrived, eaten>>
  BY <1>2 DEF sendVars, sockVars
<1>4. /\ UNCHANGED <<rfds_, wfds_, highfds_, pipe, callbacks_, pending_change_, changedone_c_,
                     ppc, readable, writable, cbfd>>
      /\ LoopInv'
      /\ \A g \in Fd : Forgotten(g) => Forgotten(g)'
  BY <1>1, <1>2, PollStays
<1>5. owner \in [Fd -> {"none", "own", "remove", "removing", "drop", "dropped"}]
  BY <1>1 DEF TypeOK
<1>6. /\ \A g \in Fd : g # f => owner'[g] = owner[g]
      /\ owner'[f] = "dropped"
      /\ owner' \in [Fd -> {"none", "own", "remove", "removing", "drop", "dropped"}]
  BY <1>2, <1>5
<1>7. \A g \in Fd : Holding(g)' = Holding(g) /\ Cardinality(Holding(g)) \in Nat
  BY <1>3, HoldingFinite DEF Holding
<1>8. \A g \in Fd : g # f => Owning(g)' = Owning(g)
  BY <1>6 DEF Owning
<1>9. Owning(f) = 1 /\ Owning(f)' = 0
  BY <1>2, <1>6 DEF Owning
<1>10. wpdu_[f].buf # NULL => Cardinality(Holding(f)) >= 1
  <2> SUFFICES ASSUME wpdu_[f].buf # NULL PROVE Cardinality(Holding(f)) >= 1
    OBVIOUS
  <2>1. PICK s \in Sender : s = wpdu_[f].buf
    BY <1>1 DEF TypeOK
  <2>2. ConnOf[s] = f /\ Using(pc[s])
    BY <1>1, <2>1 DEF BufInv, Using, Writing, Removing
  <2> QED BY <2>2, HoldingCounts
<1>11. /\ refno_' \in [Fd -> Nat] /\ deleted' \in [Fd -> BOOLEAN] /\ failed' = failed
       /\ RefsInv'
  <2>1. \A g \in Fd : g # f => Owning(g)' + Cardinality(Holding(g)') = Owning(g) + Cardinality(Holding(g))
    BY <1>7, <1>8
  <2>2. Owning(f)' + Cardinality(Holding(f)') = (Owning(f) + Cardinality(Holding(f))) - 1
    <3>1. Holding(f)' = Holding(f) /\ Cardinality(Holding(f)) \in Nat
      BY <1>7
    <3>2. Cardinality(Holding(f)') = Cardinality(Holding(f))
      BY <3>1
    <3> QED BY <1>9, <3>1, <3>2
  <2>3. Owning(f) + Cardinality(Holding(f)) >= 1
    BY <1>7, <1>9
  <2>4. wpdu_[f].buf # NULL => Owning(f) + Cardinality(Holding(f)) >= 2
    BY <1>7, <1>9, <1>10
  <2>5. decref(f) /\ UNCHANGED dead_
    BY <1>2
  <2> QED BY <2>1, <2>2, <2>3, <2>4, <2>5, Drops
<1>12. TypeOK'
  BY <1>1, <1>2, <1>3, <1>4, <1>6, <1>11 DEF TypeOK, PollTypeOK
<1>13. UnmadeInv'
  <2>1. ASSUME NEW g \in Fd, owner'[g] = "none" PROVE owner[g] = "none"
    BY <1>6, <2>1
  <2> QED BY <1>1, <1>2, <1>3, <1>4, <2>1, UnmadeFrame
<1>14. BufInv' /\ LineInv' /\ WholePdus'
  BY <1>1, <1>2, <1>3, BufFrame, LineFrame
<1>15. KillInv'
  <2>1. \A s \in Sender : SenderRemoves(s)' <=> SenderRemoves(s)
    BY <1>3, <1>4 DEF SenderRemoves
  <2>2. ASSUME NEW g \in Fd, OwnerRemoves(g) PROVE OwnerRemoves(g)'
    BY <1>2, <1>4, <1>6, <2>2 DEF OwnerRemoves
  <2>3. ASSUME NEW g \in Fd, dead_'[g]
        PROVE  Forgotten(g)' \/ OwnerRemoves(g)' \/ \E s \in SendersOf(g) : SenderRemoves(s)'
    BY <1>1, <1>2, <1>4, <2>1, <2>2, <2>3 DEF KillInv
  <2>4. ASSUME NEW g \in Fd
        PROVE  /\ owner'[g] \in {"remove", "removing", "drop", "dropped"} => dead_'[g]
               /\ owner'[g] = "removing" => g \notin rfds_' \cup wfds_'
    BY <1>1, <1>2, <1>4, <1>6 DEF KillInv
  <2>5. ASSUME NEW g \in Fd, NEW s \in SendersOf(g), pc'[s] \in Removing
        PROVE  dead_'[g] /\ (pc'[s] = "removing" => g \notin rfds_' \cup wfds_')
    BY <1>1, <1>2, <1>3, <1>4, <2>5 DEF KillInv
  <2> QED BY <2>3, <2>4, <2>5 DEF KillInv, Removing
<1>16. ReadInv'
  <2>1. \A g \in Fd : Readable(g) => Readable(g)'
    BY <1>3 DEF Readable, Avail, Broken
  <2> QED BY <1>1, <1>2, <1>4, <2>1, ReadFrame DEF LoopInv
<1>17. OtherAssertions'
  BY <1>1, <1>11 DEF OtherAssertions
<1> QED
  BY <1>4, <1>11, <1>12, <1>13, <1>14, <1>15, <1>16, <1>17 DEF ConnInv

-----------------------------------------------------------------------------
(* The senders *)

\* A step of the sender s: of the others, only those that wait for wpdu_ may be
\* woken.
StepOf(s) ==
  /\ pc' \in [Sender -> Places]
  /\ \A t \in Sender : t # s => pc'[t] = pc[t] \/ (pc[t] = "wait" /\ pc'[t] = "woken")

\* The sender alone moves.
LEMMA Moves ==
  ASSUME TypeOK, NEW s \in Sender, NEW p \in Places, pc' = [pc EXCEPT ![s] = p]
  PROVE  StepOf(s) /\ pc'[s] = p
<1>1. pc \in [Sender -> Places]
  BY DEF TypeOK, Places
<1>2. pc' \in [Sender -> Places] /\ \A t \in Sender : pc'[t] = IF t = s THEN p ELSE pc[t]
  BY <1>1
<1> QED
  BY <1>2 DEF StepOf

\* send ends.
LEMMA Finishes ==
  ASSUME TypeOK, NEW s \in Sender, NEW f \in Fd, NEW r \in BOOLEAN, send_finish(s, f, r)
  PROVE  /\ StepOf(s) /\ pc'[s] = "sent"
         /\ ret' \in [Sender -> {"none", "true", "false"}]
         /\ wpdu_' \in [Fd -> [buf : Sender \cup {NULL}, sz : {0, OutSz}, solong : -1 .. OutSz]]
         /\ wpdu_'[f] = EmptyW /\ \A g \in Fd : g # f => wpdu_'[g] = wpdu_[g]
<1>1. pc \in [Sender -> Places]
  BY DEF TypeOK, Places
<1>2. pc' = [t \in Sender |-> IF t = s THEN "sent"
                              ELSE IF pc[t] = "wait" /\ ConnOf[t] = f THEN "woken" ELSE pc[t]]
  BY DEF send_finish
<1>3. "sent" \in Places /\ "woken" \in Places
  BY DEF Places, Waiting
<1>4. StepOf(s) /\ pc'[s] = "sent"
  BY <1>1, <1>2, <1>3 DEF StepOf
<1>5. ret' \in [Sender -> {"none", "true", "false"}]
  BY DEF TypeOK, send_finish
<1>6. EmptyW \in [buf : Sender \cup {NULL}, sz : {0, OutSz}, solong : -1 .. OutSz]
  BY ConnConstants DEF EmptyW
<1>7. wpdu_' = [wpdu_ EXCEPT ![f] = EmptyW]
  BY DEF send_finish
<1>8. /\ wpdu_' \in [Fd -> [buf : Sender \cup {NULL}, sz : {0, OutSz}, solong : -1 .. OutSz]]
      /\ wpdu_'[f] = EmptyW /\ \A g \in Fd : g # f => wpdu_'[g] = wpdu_[g]
  BY <1>6, <1>7 DEF TypeOK
<1> QED
  BY <1>4, <1>5, <1>8

\* A call of send is under way on connections that have been made.
LEMMA Made ==
  ASSUME ConnInv, NEW s \in Sender, pc[s] # "idle"
  PROVE  owner[ConnOf[s]] # "none"
<1>1. /\ UnmadeInv /\ ConnOf[s] \in Fd /\ s \in SendersOf(ConnOf[s])
  BY Parts
<1> QED
  BY <1>1 DEF UnmadeInv

\* What is unknown stays unknown.
LEMMA SenderUnmade ==
  ASSUME ConnInv, NEW s \in Sender, owner[ConnOf[s]] # "none", StepOf(s), UNCHANGED owner,
         UNCHANGED <<ppc, cbfd>>, readable' \subseteq readable, writable' \subseteq writable,
         \A g \in Fd : g # ConnOf[s] =>
           /\ dead_'[g] = dead_[g]
           /\ g \in rfds_' \cup wfds_' \cup callbacks_' => g \in rfds_ \cup wfds_ \cup callbacks_
  PROVE  UnmadeInv'
<1>1. /\ UnmadeInv /\ \A g \in Fd : \A t \in SendersOf(g) : t \in Sender /\ ConnOf[t] = g
  BY Parts
<1>2. ASSUME NEW g \in Fd, owner'[g] = "none"
      PROVE  /\ owner[g] = "none" /\ g # ConnOf[s]
             /\ \A t \in SendersOf(g) : pc'[t] = pc[t]
  <2>1. owner[g] = "none" /\ g # ConnOf[s]
    BY <1>2
  <2>2. ASSUME NEW t \in SendersOf(g) PROVE pc'[t] = pc[t]
    <3>1. t # s /\ t \in Sender /\ pc[t] = "idle"
      BY <1>1, <2>1 DEF UnmadeInv
    <3> QED BY <3>1 DEF StepOf
  <2> QED BY <2>1, <2>2
<1> QED
  BY <1>1, <1>2, UnmadeFrame

\* The step neither kills a connection nor is it one of a removal.
LEMMA SenderKill ==
  ASSUME ConnInv, NEW s \in Sender, StepOf(s), UNCHANGED <<dead_, owner, changedone_c_>>,
         pc'[s] \notin Removing, ~SenderRemoves(s),
         \A g \in Fd : dead_[g] => /\ Forgotten(g) => Forgotten(g)'
                                   /\ g \notin rfds_ \cup wfds_ => g \notin rfds_' \cup wfds_'
  PROVE  KillInv'
<1>1. /\ KillInv /\ \A g \in Fd : \A t \in SendersOf(g) : t \in Sender /\ ConnOf[t] = g
  BY Parts
<1>2. ASSUME NEW t \in Sender, pc[t] \in Removing \/ pc'[t] \in Removing, t # s PROVE pc'[t] = pc[t]
  BY <1>2 DEF StepOf, Removing
<1>3. ASSUME NEW t \in Sender, SenderRemoves(t) PROVE SenderRemoves(t)'
  BY <1>2, <1>3 DEF SenderRemoves, Removing
<1>4. ASSUME NEW g \in Fd, OwnerRemoves(g) PROVE OwnerRemoves(g)'
  BY <1>4 DEF OwnerRemoves
<1>5. ASSUME NEW g \in Fd, dead_'[g]
      PROVE  Forgotten(g)' \/ OwnerRemoves(g)' \/ \E t \in SendersOf(g) : SenderRemoves(t)'
  BY <1>1, <1>3, <1>4, <1>5 DEF KillInv
<1>6. ASSUME NEW g \in Fd
      PROVE  /\ owner'[g] \in {"remove", "removing", "drop", "dropped"} => dead_'[g]
             /\ owner'[g] = "removing" => g \notin rfds_' \cup wfds_'
  BY <1>1 DEF KillInv
<1>7. ASSUME NEW g \in Fd, NEW t \in SendersOf(g), pc'[t] \in Removing
      PROVE  dead_'[g] /\ (pc'[t] = "removing" => g \notin rfds_' \cup wfds_')
  <2>1. t # s /\ t \in Sender
    BY <1>1, <1>7
  <2>2. pc'[t] = pc[t]
    BY <1>2, <1>7, <2>1
  <2> QED BY <1>1, <1>7, <2>2 DEF KillInv
<1> QED
  BY <1>5, <1>6, <1>7 DEF KillInv, Removing

\* The references stay.
LEMMA SenderRefs ==
  ASSUME ConnInv, NEW s \in Sender, StepOf(s), UNCHANGED <<refno_, deleted, owner>>,
         \A g \in Fd : dead_[g] => dead_'[g],
         Using(pc[s]), Using(pc'[s])
  PROVE  RefsInv'
<1>1. RefsInv
  BY Parts
<1>2. \A t \in Sender : Using(pc'[t]) <=> Using(pc[t])
  BY DEF StepOf, Using
<1>3. \A g \in Fd : Owning(g)' = Owning(g)
  BY DEF Owning
<1> QED
  BY <1>1, <1>2, <1>3, RefsFrame

\* wpdu_ stays with the sender that owns it.
LEMMA SenderBuf ==
  ASSUME ConnInv, NEW s \in Sender, StepOf(s), UNCHANGED wpdu_,
         \A g \in Fd : dead_[g] => dead_'[g], Owns(pc'[s]) <=> Owns(pc[s])
  PROVE  BufInv'
<1>1. TypeOK /\ BufInv
  BY Parts
<1>2. \A t \in Sender : Owns(pc'[t]) <=> Owns(pc[t])
  BY DEF StepOf, Owns, Writing, Removing
<1> QED
  BY <1>1, <1>2, BufFrame

\* At the end of send wpdu_ is free.
LEMMA FinishBuf ==
  ASSUME ConnInv, NEW s \in Sender, StepOf(s), pc'[s] = "sent", UNCHANGED dead_,
         wpdu_[ConnOf[s]].buf \in {s, NULL}, wpdu_'[ConnOf[s]] = EmptyW,
         \A g \in Fd : g # ConnOf[s] => wpdu_'[g] = wpdu_[g]
  PROVE  BufInv'
<1>1. /\ TypeOK /\ BufInv /\ \A g \in Fd : \A t \in SendersOf(g) : t \in Sender /\ ConnOf[t] = g
      /\ ConnOf[s] \in Fd
  BY Parts
<1>2. PICK f \in Fd : f = ConnOf[s]
  BY <1>1
<1>3. \A t \in Sender : t # s => (Owns(pc'[t]) <=> Owns(pc[t]))
  BY DEF StepOf, Owns, Writing, Removing
<1>4. ASSUME NEW g \in Fd, g # f
      PROVE  /\ wpdu_'[g].buf = NULL => wpdu_'[g] = EmptyW
             /\ wpdu_'[g].buf # NULL => /\ ConnOf[wpdu_'[g].buf] = g
                                        /\ pc'[wpdu_'[g].buf] \in Writing \cup Removing
             /\ wpdu_'[g].buf # NULL /\ ~dead_'[g] => wpdu_'[g].sz = OutSz
             /\ wpdu_'[g].sz # 0 => wpdu_'[g].solong >= 0
             /\ \A t \in SendersOf(g) : pc'[t] \in Writing \cup Removing => wpdu_'[g].buf = t
  <2>1. wpdu_'[g] = wpdu_[g] /\ dead_'[g] = dead_[g]
    BY <1>2, <1>4
  <2>2. ASSUME wpdu_[g].buf # NULL
        PROVE  ConnOf[wpdu_[g].buf] = g /\ pc'[wpdu_[g].buf] \in Writing \cup Removing
    <3>1. PICK t \in Sender : t = wpdu_[g].buf
      BY <1>1, <2>2, BufTyped
    <3>2. ConnOf[t] = g /\ Owns(pc[t])
      BY <1>1, <2>2, <3>1 DEF BufInv, Owns
    <3>3. t # s
      BY <1>2, <1>4, <3>2
    <3>4. Owns(pc'[t])
      BY <1>3, <3>2, <3>3
    <3> QED BY <3>1, <3>2, <3>4 DEF Owns
  <2>3. ASSUME NEW t \in SendersOf(g), pc'[t] \in Writing \cup Removing PROVE wpdu_[g].buf = t
    <3>1. t \in Sender /\ t # s
      BY <1>1, <1>2, <1>4
    <3>2. Owns(pc[t])
      BY <1>3, <2>3, <3>1 DEF Owns
    <3> QED BY <1>1, <3>2 DEF BufInv, Owns
  <2> QED BY <1>1, <2>1, <2>2, <2>3 DEF BufInv
<1>5. ASSUME NEW t \in SendersOf(f) PROVE pc'[t] \notin Writing \cup Removing
  <2>1. t \in Sender
    BY <1>1
  <2>2. CASE t = s
    BY <2>2 DEF Writing, Removing
  <2>3. CASE t # s
    <3>1. wpdu_[f].buf # t
      BY <1>2, <2>1, <2>3, ConnConstants DEF NULL
    <3>2. ~Owns(pc[t])
      BY <1>1, <3>1 DEF BufInv, Owns
    <3> QED BY <1>3, <2>1, <2>3, <3>2 DEF Owns
  <2> QED BY <2>2, <2>3
<1>6. wpdu_'[f] = EmptyW /\ EmptyW.buf = NULL /\ EmptyW.sz = 0
  BY <1>2 DEF EmptyW
<1>7. ASSUME NEW g \in Fd
      PROVE  /\ wpdu_'[g].buf = NULL => wpdu_'[g] = EmptyW
             /\ wpdu_'[g].buf # NULL => /\ ConnOf[wpdu_'[g].buf] = g
                                        /\ pc'[wpdu_'[g].buf] \in Writing \cup Removing
             /\ wpdu_'[g].buf # NULL /\ ~dead_'[g] => wpdu_'[g].sz = OutSz
             /\ wpdu_'[g].sz # 0 => wpdu_'[g].solong >= 0
             /\ \A t \in SendersOf(g) : pc'[t] \in Writing \cup Removing => wpdu_'[g].buf = t
  BY <1>4, <1>5, <1>6
<1> QED
  BY <1>7 DEF BufInv

\* The step touches neither the poll manager nor what it is told.
LEMMA SenderQuiet ==
  ASSUME ConnInv, NEW s \in Sender, owner[ConnOf[s]] # "none", StepOf(s),
         UNCHANGED <<pollVars, dead_, owner, rpdu_, gone, arrived, eaten>>,
         \A g \in Fd : shut[g] => shut'[g],
         pc'[s] \notin Removing, ~SenderRemoves(s)
  PROVE  PollTypeOK' /\ LoopInv' /\ UnmadeInv' /\ KillInv' /\ ReadInv'
<1>1. TypeOK /\ LoopInv /\ ReadInv
  BY Parts
<1>2. /\ UNCHANGED <<rfds_, wfds_, highfds_, pipe, callbacks_, pending_change_, changedone_c_,
                     ppc, readable, writable, cbfd>>
      /\ LoopInv'
      /\ \A g \in Fd : Forgotten(g) => Forgotten(g)'
  BY <1>1, PollStays
<1>3. PollTypeOK'
  BY <1>1, <1>2 DEF TypeOK, PollTypeOK
<1>4. UnmadeInv'
  BY <1>2, SenderUnmade
<1>5. KillInv'
  BY <1>2, SenderKill
<1>6. ReadInv'
  <2>1. ASSUME NEW g \in Fd, Readable(g) PROVE Readable(g)'
    BY <2>1 DEF Readable, Avail, Broken
  <2> QED BY <1>1, <1>2, <2>1, ReadFrame DEF LoopInv
<1> QED
  BY <1>2, <1>3, <1>4, <1>5, <1>6

\* A call of send begins, with a reference.
LEMMA incref_Inv ==
  ASSUME ConnInv, NEW s \in Sender, incref(s)
  PROVE  ConnInv'
<1>1. /\ TypeOK /\ RefsInv /\ BufInv /\ LineInv /\ WholePdus /\ OtherAssertions /\ ConnOf[s] \in Fd
  BY Parts
<1>2. PICK f \in Fd : f = ConnOf[s]
  BY <1>1
<1>3. /\ pc[s] = "idle" /\ owner[f] = "own" /\ pc' = [pc EXCEPT ![s] = "ref"]
      /\ refno_' = [refno_ EXCEPT ![f] = @ + 1]
      /\ UNCHANGED <<pollVars, dead_, wpdu_, rpdu_, deleted, owner, ret>>
      /\ UNCHANGED <<sockVars, got, eagain, failed>>
  BY <1>2 DEF incref
<1>4. UNCHANGED <<shut, gone, out, acked, arrived, eaten>>
  BY <1>3 DEF sockVars
<1>5. StepOf(s) /\ pc'[s] = "ref" /\ pc' \in [Sender -> Places]
  BY <1>1, <1>3, Moves DEF Places, StepOf
<1>6. PollTypeOK' /\ LoopInv' /\ UnmadeInv' /\ KillInv' /\ ReadInv'
  <2>1. pc'[s] \notin Removing /\ ~SenderRemoves(s)
    BY <1>3, <1>5 DEF Removing, SenderRemoves
  <2> QED BY <1>2, <1>3, <1>4, <1>5, <2>1, SenderQuiet
<1>7. refno_ \in [Fd -> Nat] /\ pc \in [Sender -> Places]
  BY <1>1 DEF TypeOK, Places
<1>8. /\ refno_' \in [Fd -> Nat] /\ refno_'[f] = refno_[f] + 1
      /\ \A g \in Fd : g # f => refno_'[g] = refno_[g]
  BY <1>3, <1>7
<1>9. TypeOK'
  BY <1>1, <1>3, <1>4, <1>5, <1>6, <1>8 DEF TypeOK, Places
<1>10. RefsInv'
  <2>1. Holding(f)' = Holding(f) \cup {s} /\ \A g \in Fd : g # f => Holding(g)' = Holding(g)
    <3>1. \A t \in Sender : pc'[t] = IF t = s THEN "ref" ELSE pc[t]
      BY <1>3, <1>7
    <3> QED BY <1>2, <3>1 DEF Holding
  <2>2. s \notin Holding(f)
    BY <1>3 DEF Holding
  <2>3. IsFiniteSet(Holding(f)) /\ Cardinality(Holding(f)) \in Nat
    BY HoldingFinite
  <2>4. Cardinality(Holding(f) \cup {s}) = Cardinality(Holding(f)) + 1
    BY <2>2, <2>3, FS_AddElement
  <2>5. Owning(f) = 1 /\ \A g \in Fd : Owning(g)' = Owning(g)
    BY <1>3 DEF Owning
  <2>6. ~deleted'[f]
    <3>1. refno_[f] = 1 + Cardinality(Holding(f))
      BY <1>1, <2>5 DEF RefsInv
    <3>2. refno_[f] # 0
      BY <2>3, <3>1
    <3> QED BY <1>1, <1>3, <3>2 DEF RefsInv
  <2>7. refno_'[f] = Owning(f)' + Cardinality(Holding(f)')
    <3>1. refno_[f] = Owning(f) + Cardinality(Holding(f))
      BY <1>1 DEF RefsInv
    <3>2. Cardinality(Holding(f)') = Cardinality(Holding(f)) + 1
      BY <2>1, <2>4
    <3>3. Owning(f)' = 1
      BY <2>5
    <3> QED BY <1>8, <2>3, <2>5, <3>1, <3>2, <3>3
  <2>8. ASSUME NEW g \in Fd, g # f
        PROVE  /\ refno_'[g] = Owning(g)' + Cardinality(Holding(g)')
               /\ deleted'[g] => refno_'[g] = 0 /\ dead_'[g]
    <3>1. Owning(g)' = Owning(g) /\ Holding(g)' = Holding(g) /\ refno_'[g] = refno_[g]
      BY <1>8, <2>1, <2>5, <2>8
    <3> QED BY <1>1, <1>3, <3>1 DEF RefsInv
  <2> QED BY <2>6, <2>7, <2>8 DEF RefsInv
<1>11. BufInv'
  BY <1>3, <1>5, SenderBuf DEF Owns, Writing, Removing
<1>12. LineInv' /\ WholePdus'
  BY <1>1, <1>3, <1>4, LineFrame
<1>13. OtherAssertions'
  BY <1>1, <1>3 DEF OtherAssertions
<1> QED
  BY <1>6, <1>9, <1>10, <1>11, <1>12, <1>13 DEF ConnInv

\* A call of send has returned, and its reference is dropped.
LEMMA sender_decref_Inv ==
  ASSUME ConnInv, NEW s \in Sender, sender_decref(s)
  PROVE  ConnInv'
<1>1. /\ TypeOK /\ RefsInv /\ BufInv /\ LineInv /\ WholePdus /\ OtherAssertions /\ ConnOf[s] \in Fd
  BY Parts
<1>2. PICK f \in Fd : f = ConnOf[s]
  BY <1>1
<1>3. /\ pc[s] = "sent" /\ pc' = [pc EXCEPT ![s] = "done"] /\ decref(f)
      /\ UNCHANGED <<pollVars, dead_, wpdu_, rpdu_, owner, ret, sockVars, got, eagain>>
  BY <1>2 DEF sender_decref
<1>4. UNCHANGED <<shut, gone, out, acked, arrived, eaten>>
  BY <1>3 DEF sockVars
<1>5. StepOf(s) /\ pc'[s] = "done" /\ pc' \in [Sender -> Places]
  BY <1>1, <1>3, Moves DEF Places, StepOf
<1>6. PollTypeOK' /\ LoopInv' /\ UnmadeInv' /\ KillInv' /\ ReadInv'
  <2>1. pc'[s] \notin Removing /\ ~SenderRemoves(s)
    BY <1>3, <1>5 DEF Removing, SenderRemoves
  <2>2. owner[ConnOf[s]] # "none"
    BY <1>3, Made
  <2> QED BY <1>3, <1>4, <1>5, <2>1, <2>2, SenderQuiet
<1>7. pc \in [Sender -> Places]
  BY <1>1 DEF TypeOK, Places
<1>8. Holding(f)' = Holding(f) \ {s} /\ \A g \in Fd : g # f => Holding(g)' = Holding(g)
  BY <1>2, <1>3, <1>7, HoldingChange DEF Using
<1>9. /\ Cardinality(Holding(f) \ {s}) = Cardinality(Holding(f)) - 1
      /\ Cardinality(Holding(f)) >= 1 /\ Cardinality(Holding(f)) \in Nat
  BY <1>2, <1>3, HoldingCounts, HoldingFinite DEF Using
<1>10. \A g \in Fd : Owning(g)' = Owning(g) /\ Owning(g) \in Nat
  BY <1>3 DEF Owning
<1>11. wpdu_[f].buf # NULL => Cardinality(Holding(f)) >= 2
  <2> SUFFICES ASSUME wpdu_[f].buf # NULL PROVE Cardinality(Holding(f)) >= 2
    OBVIOUS
  <2>1. PICK t \in Sender : t = wpdu_[f].buf
    BY <1>1, BufTyped
  <2>2. ConnOf[t] = f /\ Owns(pc[t])
    BY <1>1, <2>1 DEF BufInv, Owns
  <2>3. Using(pc[t]) /\ t # s
    BY <1>3, <2>2 DEF Owns, Using, Writing, Removing
  <2>4. s \in Holding(f) \ {t}
    BY <1>2, <1>3, <2>3 DEF Holding
  <2>5. /\ Cardinality(Holding(f) \ {t}) = Cardinality(Holding(f)) - 1
        /\ IsFiniteSet(Holding(f))
    BY <2>2, <2>3, HoldingCounts, HoldingFinite
  <2>6. IsFiniteSet(Holding(f) \ {t})
    BY <2>5, FS_RemoveElement, FS_Subset
  <2>7. Cardinality(Holding(f) \ {t}) # 0 /\ Cardinality(Holding(f) \ {t}) \in Nat
    BY <2>4, <2>6, FS_EmptySet, FS_CardinalityType
  <2> QED BY <1>9, <2>5, <2>7
<1>12. /\ refno_' \in [Fd -> Nat] /\ deleted' \in [Fd -> BOOLEAN] /\ failed' = failed
       /\ RefsInv'
  <2>1. \A g \in Fd : g # f => Owning(g)' + Cardinality(Holding(g)') = Owning(g) + Cardinality(Holding(g))
    BY <1>8, <1>10
  <2>2. Owning(f)' + Cardinality(Holding(f)') = (Owning(f) + Cardinality(Holding(f))) - 1
    <3>1. Cardinality(Holding(f)') = Cardinality(Holding(f)) - 1
      BY <1>8, <1>9
    <3>2. Owning(f)' = Owning(f) /\ Owning(f) \in Nat
      BY <1>10
    <3> QED BY <1>9, <3>1, <3>2
  <2>3. Owning(f) + Cardinality(Holding(f)) >= 1
    BY <1>9, <1>10
  <2>4. wpdu_[f].buf # NULL => Owning(f) + Cardinality(Holding(f)) >= 2
    BY <1>9, <1>10, <1>11
  <2>5. decref(f) /\ UNCHANGED dead_
    BY <1>3
  <2> QED BY <2>1, <2>2, <2>3, <2>4, <2>5, Drops
<1>13. TypeOK'
  BY <1>1, <1>3, <1>4, <1>5, <1>6, <1>12 DEF TypeOK, Places
<1>14. BufInv'
  BY <1>3, <1>5, SenderBuf DEF Owns, Writing, Removing
<1>15. LineInv' /\ WholePdus'
  BY <1>1, <1>3, <1>4, LineFrame
<1>16. OtherAssertions'
  BY <1>1, <1>12 DEF OtherAssertions
<1> QED
  BY <1>6, <1>12, <1>13, <1>14, <1>15, <1>16 DEF ConnInv

\* send returns with what happened to its PDU: the common part of the ends of send
\* in which nothing is written.
LEMMA FinishInv ==
  ASSUME ConnInv, NEW s \in Sender, NEW r \in BOOLEAN, send_finish(s, ConnOf[s], r),
         pc[s] \in {"signalled", "removed"}, ~dead_[ConnOf[s]] => wpdu_[ConnOf[s]].solong = OutSz,
         UNCHANGED <<pollVars, dead_, rpdu_, refno_, deleted, owner, sockVars, got, eagain, failed>>
  PROVE  ConnInv'
<1>1. /\ TypeOK /\ BufInv /\ LineInv /\ WholePdus /\ OtherAssertions /\ ConnOf[s] \in Fd
      /\ s \in SendersOf(ConnOf[s])
  BY Parts
<1>2. PICK f \in Fd : f = ConnOf[s]
  BY <1>1
<1>3. UNCHANGED <<shut, gone, out, acked, arrived, eaten>>
  BY DEF sockVars
<1>4. /\ StepOf(s) /\ pc'[s] = "sent"
      /\ ret' \in [Sender -> {"none", "true", "false"}]
      /\ wpdu_' \in [Fd -> [buf : Sender \cup {NULL}, sz : {0, OutSz}, solong : -1 .. OutSz]]
      /\ wpdu_'[f] = EmptyW /\ \A g \in Fd : g # f => wpdu_'[g] = wpdu_[g]
  BY <1>1, <1>2, Finishes
<1>5. PollTypeOK' /\ LoopInv' /\ UnmadeInv' /\ KillInv' /\ ReadInv'
  <2>1. pc'[s] \notin Removing /\ ~SenderRemoves(s)
    BY <1>4 DEF Removing, SenderRemoves
  <2>2. owner[ConnOf[s]] # "none"
    BY Made
  <2> QED BY <1>3, <1>4, <2>1, <2>2, SenderQuiet
<1>6. TypeOK'
  BY <1>1, <1>3, <1>4, <1>5 DEF TypeOK, Places, StepOf
<1>7. RefsInv'
  BY <1>4, SenderRefs DEF Using
<1>8. wpdu_[f].buf = s
  BY <1>1, <1>2 DEF BufInv, Writing, Removing
<1>9. BufInv'
  BY <1>2, <1>4, <1>8, FinishBuf
<1>10. WholePdus'
  BY <1>1, <1>3 DEF WholePdus
<1>11. LineInv'
  <2> SUFFICES ASSUME NEW g \in Fd, ~dead_'[g]
               PROVE  \E k \in Nat : /\ Len(out'[g]) = OutSz * k + wpdu_'[g].solong
                                     /\ \A i \in OutSz * k + 1 .. Len(out'[g]) : out'[g][i] = wpdu_'[g].buf
    BY DEF LineInv
  <2>1. PICK k \in Nat : /\ Len(out[g]) = OutSz * k + wpdu_[g].solong
                         /\ \A i \in OutSz * k + 1 .. Len(out[g]) : out[g][i] = wpdu_[g].buf
    BY <1>1 DEF LineInv
  <2>2. CASE g # f
    BY <1>3, <1>4, <2>1, <2>2
  <2>3. CASE g = f
    <3>1. wpdu_'[g].solong = 0
      BY <1>4, <2>3 DEF EmptyW
    <3>2. Len(out'[g]) = OutSz * k + OutSz
      BY <1>2, <1>3, <2>1, <2>3
    <3>3. OutSz * (k + 1) = OutSz * k + OutSz /\ OutSz * k \in Nat /\ OutSz \in Nat
      BY ConnConstants
    <3>4. Len(out'[g]) = OutSz * (k + 1) + wpdu_'[g].solong
      BY <3>1, <3>2, <3>3
    <3>5. ASSUME NEW i \in OutSz * (k + 1) + 1 .. Len(out'[g]) PROVE FALSE
      BY <3>2, <3>3, <3>5
    <3>6. k + 1 \in Nat
      OBVIOUS
    <3> QED BY <3>4, <3>5, <3>6
  <2> QED BY <2>2, <2>3
<1>12. OtherAssertions'
  BY <1>1 DEF OtherAssertions
<1> QED
  BY <1>5, <1>6, <1>7, <1>9, <1>10, <1>11, <1>12 DEF ConnInv

\* The end of send after a failed write, and after its PDU has been written by
\* write_cb or the connection has died.
LEMMA send_failed_Inv ==
  ASSUME ConnInv, NEW s \in Sender, send_failed(s)
  PROVE  ConnInv'
<1>1. KillInv /\ ConnOf[s] \in Fd /\ s \in SendersOf(ConnOf[s])
  BY Parts
<1>2. /\ pc[s] = "removed" /\ send_finish(s, ConnOf[s], FALSE)
      /\ UNCHANGED <<pollVars, dead_, rpdu_, refno_, deleted, owner, sockVars, got, eagain, failed>>
  BY DEF send_failed
<1>3. dead_[ConnOf[s]]
  BY <1>1, <1>2 DEF KillInv, Removing
<1> QED
  BY <1>2, <1>3, FinishInv

LEMMA send_resume_Inv ==
  ASSUME ConnInv, NEW s \in Sender, send_resume(s)
  PROVE  ConnInv'
<1>1. /\ TypeOK /\ BufInv /\ LineInv /\ WholePdus /\ OtherAssertions /\ ConnOf[s] \in Fd
      /\ s \in SendersOf(ConnOf[s])
  BY Parts
<1>2. PICK f \in Fd : f = ConnOf[s]
  BY <1>1
<1>3. /\ pc[s] = "signalled"
      /\ UNCHANGED <<pollVars, dead_, rpdu_, refno_, deleted, owner, sockVars, got, eagain, failed>>
  BY DEF send_resume
<1>4. CASE ~dead_[f] /\ wpdu_[f].solong >= 0 /\ wpdu_[f].solong < wpdu_[f].sz
  <2>1. pc' = [pc EXCEPT ![s] = "complete"] /\ UNCHANGED <<ret, wpdu_>>
    BY <1>2, <1>4 DEF send_resume
  <2>2. StepOf(s) /\ pc'[s] = "complete" /\ pc' \in [Sender -> Places]
    BY <1>1, <2>1, Moves DEF Places, StepOf, Writing
  <2>3. UNCHANGED <<shut, gone, out, acked, arrived, eaten>>
    BY <1>3 DEF sockVars
  <2>4. PollTypeOK' /\ LoopInv' /\ UnmadeInv' /\ KillInv' /\ ReadInv'
    <3>1. pc'[s] \notin Removing /\ ~SenderRemoves(s)
      BY <1>3, <2>2 DEF Removing, SenderRemoves
    <3>2. owner[ConnOf[s]] # "none"
      BY <1>3, Made
    <3> QED BY <1>3, <2>2, <2>3, <3>1, <3>2, SenderQuiet
  <2>5. TypeOK'
    BY <1>1, <1>3, <2>1, <2>2, <2>3, <2>4 DEF TypeOK, Places
  <2>6. RefsInv'
    BY <1>3, <2>2, SenderRefs DEF Using
  <2>7. BufInv'
    BY <1>3, <2>1, <2>2, SenderBuf DEF Owns, Writing
  <2>8. LineInv' /\ WholePdus'
    BY <1>1, <1>3, <2>1, <2>3, LineFrame
  <2>9. OtherAssertions'
    BY <1>1, <1>3 DEF OtherAssertions
  <2> QED BY <2>4, <2>5, <2>6, <2>7, <2>8, <2>9 DEF ConnInv
<1>5. CASE ~(~dead_[f] /\ wpdu_[f].solong >= 0 /\ wpdu_[f].solong < wpdu_[f].sz)
  <2>1. send_finish(s, ConnOf[s], ~dead_[f] /\ wpdu_[f].solong = wpdu_[f].sz)
    BY <1>2, <1>5 DEF send_resume
  <2>2. (~dead_[f] /\ wpdu_[f].solong = wpdu_[f].sz) \in BOOLEAN
    OBVIOUS
  <2>3. ~dead_[f] => wpdu_[f].solong = OutSz
    <3> SUFFICES ASSUME ~dead_[f] PROVE wpdu_[f].solong = OutSz
      OBVIOUS
    <3>1. wpdu_[f].buf = s
      BY <1>1, <1>2, <1>3 DEF BufInv, Writing
    <3>2. s # NULL
      BY ConnConstants DEF NULL
    <3>3. wpdu_[f].sz = OutSz /\ OutSz \in Nat \ {0}
      BY <1>1, <3>1, <3>2, ConnConstants DEF BufInv
    <3>4. wpdu_[f].solong >= 0 /\ wpdu_[f].solong \in -1 .. OutSz
      BY <1>1, <3>3, BufTyped DEF BufInv
    <3> QED BY <1>5, <3>3, <3>4
  <2> QED BY <1>2, <1>3, <2>1, <2>2, <2>3, FinishInv
<1> QED
  BY <1>4, <1>5

\* The sender in block_remove_fd, from its start to its end.
LEMMA send_remove_Inv ==
  ASSUME ConnInv, NEW s \in Sender, send_remove(s) \/ send_removed(s)
  PROVE  ConnInv'
<1>1. /\ TypeOK /\ LoopInv /\ BufInv /\ LineInv /\ WholePdus /\ KillInv /\ ReadInv /\ OtherAssertions
      /\ \A g \in Fd : \A t \in SendersOf(g) : t \in Sender /\ ConnOf[t] = g
      /\ ConnOf[s] \in Fd /\ s \in SendersOf(ConnOf[s])
  BY Parts
<1>2. PICK f \in Fd : f = ConnOf[s]
  BY <1>1
<1> DEFINE p == IF pc[s] = "remove" THEN "removing" ELSE "removed"
<1>3. /\ pc[s] \in {"remove", "removing"} /\ pc' = [pc EXCEPT ![s] = p]
      /\ UNCHANGED <<loopVars, objVars, ret, sockVars, got, eagain, failed>>
  BY DEF send_remove, send_removed
<1>4. UNCHANGED <<dead_, wpdu_, rpdu_, refno_, deleted, owner, shut, gone, out, acked, arrived, eaten>>
  BY <1>3 DEF objVars, sockVars
<1>5. s \in Remover
  BY ConnConstants
<1>6. /\ PollTypeOK' /\ LoopInv'
      /\ rfds_' \subseteq rfds_ /\ wfds_' \subseteq wfds_ /\ callbacks_' \subseteq callbacks_
      /\ changedone_c_ \subseteq changedone_c_'
      /\ UNCHANGED <<ppc, readable, writable, cbfd>>
      /\ \A g \in Fd : Forgotten(g) => Forgotten(g)'
  <2>1. CASE send_remove(s)
    BY <1>1, <1>2, <1>3, <1>5, <2>1, BlockRemoves DEF send_remove
  <2>2. CASE send_removed(s)
    BY <1>1, <1>2, <1>3, <2>2, BlockRemoved DEF send_removed
  <2> QED BY <2>1, <2>2
<1>7. /\ pc[s] = "remove" => f \notin rfds_' \cup wfds_' /\ s \in changedone_c_'
      /\ pc[s] = "removing" => s \notin changedone_c_
  <2>1. CASE send_remove(s)
    BY <1>1, <1>2, <1>3, <1>5, <2>1, BlockRemoves DEF send_remove
  <2>2. CASE send_removed(s)
    BY <1>1, <1>2, <1>3, <2>2, BlockRemoved DEF send_removed
  <2> QED BY <2>1, <2>2
<1>8. StepOf(s) /\ pc'[s] = p /\ pc' \in [Sender -> Places]
  <2>1. p \in Places
    BY DEF Places, Removing
  <2> HIDE DEF p
  <2> QED BY <1>1, <1>3, <2>1, Moves DEF StepOf
<1>9. \A t \in Sender : t # s => pc'[t] = pc[t]
  <2>1. pc \in [Sender -> Places]
    BY <1>1 DEF TypeOK, Places
  <2> QED BY <1>3, <2>1
<1>10. p \in {"removing", "removed"}
  OBVIOUS
<1>11. TypeOK'
  BY <1>1, <1>3, <1>4, <1>6, <1>8 DEF TypeOK, Places
<1>12. UnmadeInv'
  <2>1. owner[ConnOf[s]] # "none"
    BY <1>3, Made
  <2> QED BY <1>4, <1>6, <1>8, <2>1, SenderUnmade
<1>13. RefsInv'
  BY <1>3, <1>4, <1>8, <1>10, SenderRefs DEF Using
<1>14. BufInv'
  BY <1>3, <1>4, <1>8, <1>10, SenderBuf DEF Owns, Removing
<1>15. LineInv' /\ WholePdus'
  BY <1>1, <1>4, LineFrame
<1>16. KillInv'
  <2>1. ASSUME NEW t \in Sender, SenderRemoves(t) PROVE SenderRemoves(t)'
    BY <1>3, <1>6, <1>7, <1>8, <1>9, <2>1 DEF SenderRemoves
  <2>2. ASSUME NEW g \in Fd, OwnerRemoves(g) PROVE OwnerRemoves(g)'
    BY <1>4, <1>6, <2>2 DEF OwnerRemoves
  <2>3. ASSUME NEW g \in Fd, dead_'[g]
        PROVE  Forgotten(g)' \/ OwnerRemoves(g)' \/ \E t \in SendersOf(g) : SenderRemoves(t)'
    BY <1>1, <1>4, <1>6, <2>1, <2>2, <2>3 DEF KillInv
  <2>4. ASSUME NEW g \in Fd
        PROVE  /\ owner'[g] \in {"remove", "removing", "drop", "dropped"} => dead_'[g]
               /\ owner'[g] = "removing" => g \notin rfds_' \cup wfds_'
    BY <1>1, <1>4, <1>6 DEF KillInv
  <2>5. dead_[f]
    BY <1>1, <1>2, <1>3 DEF KillInv, Removing
  <2>6. ASSUME NEW g \in Fd, NEW t \in SendersOf(g), pc'[t] \in Removing
        PROVE  dead_'[g] /\ (pc'[t] = "removing" => g \notin rfds_' \cup wfds_')
    <3>1. CASE t = s
      BY <1>1, <1>2, <1>4, <1>7, <1>8, <2>5, <3>1
    <3>2. CASE t # s
      BY <1>1, <1>4, <1>6, <1>9, <2>6, <3>2 DEF KillInv
    <3> QED BY <3>1, <3>2
  <2> QED BY <2>3, <2>4, <2>6 DEF KillInv, Removing
<1>17. ReadInv'
  <2>1. \A g \in Fd : Readable(g) => Readable(g)'
    BY <1>4 DEF Readable, Avail, Broken
  <2> QED BY <1>1, <1>4, <1>6, <2>1, ReadFrame DEF LoopInv
<1>18. OtherAssertions'
  BY <1>1, <1>3 DEF OtherAssertions
<1> QED
  BY <1>6, <1>11, <1>12, <1>13, <1>14, <1>15, <1>16, <1>17, <1>18 DEF ConnInv

\* A sender takes the free wpdu_.
LEMMA StartBuf ==
  ASSUME ConnInv, NEW s \in Sender, StepOf(s), Owns(pc'[s]),
         wpdu_[ConnOf[s]].buf = NULL, wpdu_'[ConnOf[s]].buf = s,
         dead_'[ConnOf[s]] \/ wpdu_'[ConnOf[s]].sz = OutSz,
         wpdu_'[ConnOf[s]].sz # 0 => wpdu_'[ConnOf[s]].solong >= 0,
         \A g \in Fd : g # ConnOf[s] => wpdu_'[g] = wpdu_[g] /\ dead_'[g] = dead_[g]
  PROVE  BufInv'
<1>1. /\ TypeOK /\ BufInv /\ \A g \in Fd : \A t \in SendersOf(g) : t \in Sender /\ ConnOf[t] = g
      /\ ConnOf[s] \in Fd
  BY Parts
<1>2. PICK f \in Fd : f = ConnOf[s]
  BY <1>1
<1>3. \A t \in Sender : t # s => (Owns(pc'[t]) <=> Owns(pc[t]))
  BY DEF StepOf, Owns, Writing, Removing
<1>4. ASSUME NEW g \in Fd, g # f
      PROVE  /\ wpdu_'[g].buf = NULL => wpdu_'[g] = EmptyW
             /\ wpdu_'[g].buf # NULL => /\ ConnOf[wpdu_'[g].buf] = g
                                        /\ pc'[wpdu_'[g].buf] \in Writing \cup Removing
             /\ wpdu_'[g].buf # NULL /\ ~dead_'[g] => wpdu_'[g].sz = OutSz
             /\ wpdu_'[g].sz # 0 => wpdu_'[g].solong >= 0
             /\ \A t \in SendersOf(g) : pc'[t] \in Writing \cup Removing => wpdu_'[g].buf = t
  <2>1. wpdu_'[g] = wpdu_[g] /\ dead_'[g] = dead_[g]
    BY <1>2, <1>4
  <2>2. ASSUME wpdu_[g].buf # NULL
        PROVE  ConnOf[wpdu_[g].buf] = g /\ pc'[wpdu_[g].buf] \in Writing \cup Removing
    <3>1. PICK t \in Sender : t = wpdu_[g].buf
      BY <1>1, <2>2, BufTyped
    <3>2. ConnOf[t] = g /\ Owns(pc[t])
      BY <1>1, <2>2, <3>1 DEF BufInv, Owns
    <3>3. t # s
      BY <1>2, <1>4, <3>2
    <3>4. Owns(pc'[t])
      BY <1>3, <3>2, <3>3
    <3> QED BY <3>1, <3>2, <3>4 DEF Owns
  <2>3. ASSUME NEW t \in SendersOf(g), pc'[t] \in Writing \cup Removing PROVE wpdu_[g].buf = t
    <3>1. t \in Sender /\ t # s
      BY <1>1, <1>2, <1>4
    <3>2. Owns(pc[t])
      BY <1>3, <2>3, <3>1 DEF Owns
    <3> QED BY <1>1, <3>2 DEF BufInv, Owns
  <2> QED BY <1>1, <2>1, <2>2, <2>3 DEF BufInv
<1>5. ASSUME NEW t \in SendersOf(f), t # s PROVE pc'[t] \notin Writing \cup Removing
  <2>1. t \in Sender
    BY <1>1
  <2>2. wpdu_[f].buf # t
    BY <1>2, <2>1, ConnConstants DEF NULL
  <2>3. ~Owns(pc[t])
    BY <1>1, <2>2 DEF BufInv, Owns
  <2> QED BY <1>3, <1>5, <2>1, <2>3 DEF Owns
<1>6. wpdu_'[f].buf = s /\ s # NULL /\ pc'[s] \in Writing \cup Removing
  BY <1>2, ConnConstants DEF NULL, Owns
<1>7. (dead_'[f] \/ wpdu_'[f].sz = OutSz) /\ (wpdu_'[f].sz # 0 => wpdu_'[f].solong >= 0)
  BY <1>2
<1>8. ASSUME NEW g \in Fd
      PROVE  /\ wpdu_'[g].buf = NULL => wpdu_'[g] = EmptyW
             /\ wpdu_'[g].buf # NULL => /\ ConnOf[wpdu_'[g].buf] = g
                                        /\ pc'[wpdu_'[g].buf] \in Writing \cup Removing
             /\ wpdu_'[g].buf # NULL /\ ~dead_'[g] => wpdu_'[g].sz = OutSz
             /\ wpdu_'[g].sz # 0 => wpdu_'[g].solong >= 0
             /\ \A t \in SendersOf(g) : pc'[t] \in Writing \cup Removing => wpdu_'[g].buf = t
  <2>1. CASE g = f
    BY <1>2, <1>5, <1>6, <1>7, <2>1
  <2>2. CASE g # f
    BY <1>4, <2>2
  <2> QED BY <2>1, <2>2
<1> QED
  BY <1>8 DEF BufInv

\* On a connection that is alive and has no PDU in wpdu_, whole PDUs are on the
\* wire.
LEMMA FreeLine ==
  ASSUME ConnInv, NEW f \in Fd, ~dead_[f], wpdu_[f].buf = NULL
  PROVE  \E k \in Nat : \A x : Ends(out[f], k, 0, x)
<1>1. LineInv /\ BufInv
  BY Parts
<1>2. wpdu_[f] = EmptyW
  BY <1>1 DEF BufInv
<1>3. PICK k \in Nat : Len(out[f]) = OutSz * k + wpdu_[f].solong
  BY <1>1 DEF LineInv
<1>4. Len(out[f]) = OutSz * k + 0 /\ OutSz * k \in Nat
  BY <1>2, <1>3, ConnConstants DEF EmptyW
<1>5. ASSUME NEW i \in OutSz * k + 1 .. Len(out[f]) PROVE FALSE
  BY <1>4, <1>5
<1> QED
  BY <1>4, <1>5 DEF Ends

\* LineInv for one connection
LineOK(f) ==
  \E k \in Nat : /\ Len(out[f]) = OutSz * k + wpdu_[f].solong
                 /\ \A i \in OutSz * k + 1 .. Len(out[f]) : out[f][i] = wpdu_[f].buf

LEMMA LineChange ==
  ASSUME LineInv, NEW f \in Fd, dead_'[f] \/ LineOK(f)',
         \A g \in Fd : g # f => wpdu_'[g] = wpdu_[g] /\ dead_'[g] = dead_[g] /\ out'[g] = out[g]
  PROVE  LineInv'
<1>1. ASSUME NEW g \in Fd, ~dead_'[g] PROVE LineOK(g)'
  <2>1. CASE g = f
    BY <1>1, <2>1
  <2>2. CASE g # f
    <3>1. wpdu_'[g] = wpdu_[g] /\ dead_'[g] = dead_[g] /\ out'[g] = out[g]
      BY <2>2
    <3>2. LineOK(g)
      BY <1>1, <3>1 DEF LineInv, LineOK
    <3> QED BY <3>1, <3>2 DEF LineOK
  <2> QED BY <2>1, <2>2
<1> QED
  BY <1>1 DEF LineInv, LineOK

\* send gives up on a dead connection, or waits for wpdu_.
LEMMA send_idle_Inv ==
  ASSUME ConnInv, NEW s \in Sender, send(s), dead_[ConnOf[s]] \/ Busy(ConnOf[s])
  PROVE  ConnInv'
<1>1. /\ TypeOK /\ BufInv /\ LineInv /\ WholePdus /\ OtherAssertions /\ ConnOf[s] \in Fd
  BY Parts
<1>2. PICK f \in Fd : f = ConnOf[s]
  BY <1>1
<1>3. /\ pc[s] \in {"ref", "woken"}
      /\ UNCHANGED <<aioVars, tabVars, loopVars, dead_, wpdu_, rpdu_, refno_, deleted, owner>>
      /\ UNCHANGED <<shut, out, gone, acked, arrived, eaten, got, eagain, failed>>
      /\ \E p \in {"sent", "wait"} : pc' = [pc EXCEPT ![s] = p]
      /\ ret' = ret \/ ret' = [ret EXCEPT ![s] = "false"]
  BY <1>2 DEF send, Busy
<1>4. PICK p \in {"sent", "wait"} : pc' = [pc EXCEPT ![s] = p]
  BY <1>3
<1>5. StepOf(s) /\ pc'[s] = p /\ pc' \in [Sender -> Places]
  <2>1. p \in Places
    BY DEF Places, Waiting
  <2> QED BY <1>1, <1>4, <2>1, Moves DEF StepOf
<1>6. PollTypeOK' /\ LoopInv' /\ UnmadeInv' /\ KillInv' /\ ReadInv'
  <2>1. pc'[s] \notin Removing /\ ~SenderRemoves(s)
    BY <1>3, <1>5 DEF Removing, SenderRemoves
  <2>2. owner[ConnOf[s]] # "none"
    BY <1>3, Made
  <2>3. UNCHANGED pollVars
    BY <1>3 DEF pollVars
  <2> QED BY <1>3, <1>5, <2>1, <2>2, <2>3, SenderQuiet
<1>7. ret' \in [Sender -> {"none", "true", "false"}]
  BY <1>1, <1>3 DEF TypeOK
<1>8. TypeOK'
  BY <1>1, <1>3, <1>5, <1>6, <1>7 DEF TypeOK, Places
<1>9. RefsInv'
  BY <1>3, <1>5, SenderRefs DEF Using
<1>10. BufInv'
  BY <1>3, <1>5, SenderBuf DEF Owns, Writing, Removing
<1>11. LineInv' /\ WholePdus'
  BY <1>1, <1>3, LineFrame
<1>12. OtherAssertions'
  BY <1>1, <1>3 DEF OtherAssertions
<1> QED
  BY <1>6, <1>8, <1>9, <1>10, <1>11, <1>12 DEF ConnInv

\* The first write of send.
LEMMA send_write_Inv ==
  ASSUME ConnInv, NEW s \in Sender, send(s), ~dead_[ConnOf[s]], ~Busy(ConnOf[s])
  PROVE  ConnInv'
<1>1. /\ TypeOK /\ LoopInv /\ BufInv /\ LineInv /\ WholePdus /\ KillInv /\ ReadInv /\ OtherAssertions
      /\ ConnOf[s] \in Fd /\ s \in SendersOf(ConnOf[s])
      /\ \A g \in Fd : \A t \in SendersOf(g) : t \in Sender /\ ConnOf[t] = g
  BY Parts
<1>2. PICK f \in Fd : f = ConnOf[s]
  BY <1>1
<1>3. /\ pc[s] \in {"ref", "woken"} /\ send_write(s, f)
      /\ UNCHANGED <<loopVars, rpdu_, refno_, deleted, owner>>
      /\ UNCHANGED <<gone, acked, arrived, eaten, got, eagain, failed>>
  BY <1>2 DEF send, Busy
<1>4. ~dead_[f] /\ wpdu_[f].buf = NULL /\ owner[ConnOf[s]] # "none" /\ s # NULL
  BY <1>2, <1>3, Made, ConnConstants DEF Busy, NULL
<1>5. shut \in [Fd -> BOOLEAN] /\ dead_ \in [Fd -> BOOLEAN]
  BY <1>1 DEF TypeOK
<1> DEFINE W(d, n) ==
      /\ shut' = [shut EXCEPT ![f] = d]
      /\ out' = [out EXCEPT ![f] = @ \o [i \in 1 .. n |-> s]]
      /\ \/ /\ n = -1
            /\ dead_' = [dead_ EXCEPT ![f] = TRUE]
            /\ wpdu_' = [wpdu_ EXCEPT ![f] = [buf |-> s, sz |-> 0, solong |-> -1]]
            /\ pc' = [pc EXCEPT ![s] = "remove"]
            /\ UNCHANGED <<ret, aioVars, tabVars>>
         \/ /\ n = OutSz
            /\ send_finish(s, f, TRUE)
            /\ UNCHANGED <<dead_, aioVars, tabVars>>
         \/ /\ n \in 0 .. OutSz - 1
            /\ wpdu_' = [wpdu_ EXCEPT ![f] = [buf |-> s, sz |-> OutSz, solong |-> n]]
            /\ add_callback(f, CB_WRONLY)
            /\ pc' = [pc EXCEPT ![s] = "complete"]
            /\ UNCHANGED <<ret, dead_>>
<1>a. \E d \in {shut[f], TRUE} : \E n \in WriteResults(f, OutSz, d) : W(d, n)
  BY <1>3 DEF send_write
<1>b. PICK d \in {shut[f], TRUE} : \E n \in WriteResults(f, OutSz, d) : W(d, n)
  BY <1>a
<1>6. PICK n \in WriteResults(f, OutSz, d) : W(d, n)
  BY <1>b
<1>7. /\ shut' \in [Fd -> BOOLEAN] /\ \A g \in Fd : shut[g] => shut'[g]
  BY <1>5, <1>6
<1>8. OutSz \in Nat /\ OutSz > 0
  BY ConnConstants
<1>9. UNCHANGED <<ppc, readable, writable, cbfd>>
  BY <1>3 DEF loopVars
<1>10. ReadInv'
  <2>1. ASSUME NEW g \in Fd, Readable(g) PROVE Readable(g)'
    BY <1>3, <1>7, <2>1 DEF Readable, Avail, Broken
  <2> QED BY <1>1, <1>3, <1>9, <2>1, ReadFrame DEF LoopInv
<1>11. OtherAssertions'
  BY <1>1, <1>3 DEF OtherAssertions
<1>12. wpdu_ \in [Fd -> [buf : Sender \cup {NULL}, sz : {0, OutSz}, solong : -1 .. OutSz]]
  BY <1>1 DEF TypeOK
<1>13. PICK k \in Nat : \A x : Ends(out[f], k, 0, x)
  BY <1>4, FreeLine
<1>14. CASE /\ n = -1
            /\ dead_' = [dead_ EXCEPT ![f] = TRUE]
            /\ wpdu_' = [wpdu_ EXCEPT ![f] = [buf |-> s, sz |-> 0, solong |-> -1]]
            /\ pc' = [pc EXCEPT ![s] = "remove"]
            /\ UNCHANGED <<ret, aioVars, tabVars>>
  <2>1. UNCHANGED out
    <3>1. n \in Int /\ n = -1
      BY <1>14
    <3>2. out' = [out EXCEPT ![f] = @ \o [i \in 1 .. n |-> s]]
      BY <1>6
    <3>3. out' = [out EXCEPT ![f] = Extended(out[f], n, s)]
      BY <3>2 DEF Extended
    <3>4. out \in [Fd -> Seq(Sender)] /\ out[f] \in Seq(Sender)
      BY <1>1 DEF TypeOK
    <3>5. Extended(out[f], n, s) = out[f]
      BY <3>1, <3>4, NoUnits
    <3> QED BY <3>3, <3>4, <3>5
  <2>2. StepOf(s) /\ pc'[s] = "remove" /\ pc' \in [Sender -> Places]
    BY <1>1, <1>14, Moves DEF Places, Removing, StepOf
  <2>3. /\ dead_'[f] = TRUE /\ \A g \in Fd : g # f => dead_'[g] = dead_[g] /\ wpdu_'[g] = wpdu_[g]
        /\ wpdu_'[f] = [buf |-> s, sz |-> 0, solong |-> -1]
        /\ dead_' \in [Fd -> BOOLEAN]
    BY <1>5, <1>12, <1>14
  <2>4. [buf |-> s, sz |-> 0, solong |-> -1] \in [buf : Sender \cup {NULL}, sz : {0, OutSz}, solong : -1 .. OutSz]
    BY <1>8
  <2>5. wpdu_' \in [Fd -> [buf : Sender \cup {NULL}, sz : {0, OutSz}, solong : -1 .. OutSz]]
    BY <1>12, <1>14, <2>4
  <2>6. /\ UNCHANGED <<rfds_, wfds_, highfds_, pipe, callbacks_, pending_change_, changedone_c_>>
        /\ LoopInv' /\ \A g \in Fd : Forgotten(g) => Forgotten(g)'
    <3>1. UNCHANGED pollVars
      BY <1>3, <1>14 DEF pollVars
    <3> QED BY <1>1, <3>1, PollStays
  <2>7. TypeOK'
    BY <1>1, <1>3, <1>7, <1>9, <1>14, <2>1, <2>2, <2>3, <2>5, <2>6 DEF TypeOK, PollTypeOK, Places
  <2>8. UnmadeInv'
    BY <1>2, <1>3, <1>4, <1>9, <2>2, <2>3, <2>6, SenderUnmade
  <2>9. \A g \in Fd : dead_[g] => dead_'[g]
    BY <2>3
  <2>10. RefsInv'
    BY <1>3, <2>2, <2>9, SenderRefs DEF Using
  <2>11. BufInv'
    <3>1. wpdu_'[f].buf = s /\ wpdu_'[f].sz = 0
      BY <2>3
    <3>2. Owns(pc'[s])
      BY <2>2 DEF Owns, Removing
    <3> QED BY <1>2, <1>4, <2>2, <2>3, <3>1, <3>2, StartBuf
  <2>12. WholePdus'
    BY <1>1, <2>1 DEF WholePdus
  <2>13. LineInv'
    BY <1>1, <2>1, <2>3, LineChange
  <2>14. KillInv'
    <3>1. \A t \in Sender : t # s => pc'[t] = pc[t]
      BY <1>1, <1>14 DEF TypeOK
    <3>2. ASSUME NEW t \in Sender, SenderRemoves(t) PROVE SenderRemoves(t)'
      BY <1>3, <2>2, <2>6, <3>1, <3>2 DEF SenderRemoves
    <3>3. ASSUME NEW g \in Fd, OwnerRemoves(g) PROVE OwnerRemoves(g)'
      BY <1>3, <2>6, <3>3 DEF OwnerRemoves
    <3>4. SenderRemoves(s)'
      BY <2>2 DEF SenderRemoves
    <3>5. ASSUME NEW g \in Fd, dead_'[g]
          PROVE  Forgotten(g)' \/ OwnerRemoves(g)' \/ \E t \in SendersOf(g) : SenderRemoves(t)'
      <4>1. CASE g = f
        BY <1>1, <1>2, <3>4, <4>1
      <4>2. CASE g # f
        BY <1>1, <2>3, <2>6, <3>2, <3>3, <3>5, <4>2 DEF KillInv
      <4> QED BY <4>1, <4>2
    <3>6. ASSUME NEW g \in Fd
          PROVE  /\ owner'[g] \in {"remove", "removing", "drop", "dropped"} => dead_'[g]
                 /\ owner'[g] = "removing" => g \notin rfds_' \cup wfds_'
      BY <1>1, <1>3, <2>6, <2>9 DEF KillInv
    <3>7. ASSUME NEW g \in Fd, NEW t \in SendersOf(g), pc'[t] \in Removing
          PROVE  dead_'[g] /\ (pc'[t] = "removing" => g \notin rfds_' \cup wfds_')
      <4>1. CASE t = s
        BY <1>1, <1>2, <2>2, <2>3, <4>1
      <4>2. CASE t # s
        BY <1>1, <2>6, <2>9, <3>1, <3>7, <4>2 DEF KillInv
      <4> QED BY <4>1, <4>2
    <3> QED BY <3>5, <3>6, <3>7 DEF KillInv, Removing
  <2> QED BY <1>10, <1>11, <2>6, <2>7, <2>8, <2>10, <2>11, <2>12, <2>13, <2>14 DEF ConnInv
<1>15. CASE /\ n = OutSz
            /\ send_finish(s, f, TRUE)
            /\ UNCHANGED <<dead_, aioVars, tabVars>>
  <2>1. /\ WholePdus' /\ out' \in [Fd -> Seq(Sender)]
        /\ Ends(out'[f], k, 0 + OutSz, s)
        /\ \A g \in Fd : g # f => out'[g] = out[g]
    <3>1. Ends(out[f], k, 0, s) /\ n \in Nat /\ 0 + n <= OutSz
      BY <1>8, <1>13, <1>15
    <3> QED BY <1>1, <1>6, <1>15, <3>1, WireGrows
  <2>2. /\ StepOf(s) /\ pc'[s] = "sent"
        /\ ret' \in [Sender -> {"none", "true", "false"}]
        /\ wpdu_' \in [Fd -> [buf : Sender \cup {NULL}, sz : {0, OutSz}, solong : -1 .. OutSz]]
        /\ wpdu_'[f] = EmptyW /\ \A g \in Fd : g # f => wpdu_'[g] = wpdu_[g]
    <3>1. \E r \in BOOLEAN : send_finish(s, f, r)
      BY <1>15, Zenon
    <3>2. PICK r \in BOOLEAN : send_finish(s, f, r)
      BY <3>1
    <3> QED BY <1>1, <3>2, Finishes
  <2>3. UNCHANGED pollVars
    BY <1>3, <1>15 DEF pollVars
  <2>4. PollTypeOK' /\ LoopInv' /\ UnmadeInv' /\ KillInv'
    <3>1. pc'[s] \notin Removing /\ ~SenderRemoves(s)
      BY <1>3, <2>2 DEF Removing, SenderRemoves
    <3> QED BY <1>3, <1>4, <1>7, <1>15, <2>2, <2>3, <3>1, SenderQuiet
  <2>5. TypeOK'
    BY <1>1, <1>3, <1>7, <1>15, <2>1, <2>2, <2>4 DEF TypeOK, Places, StepOf
  <2>6. RefsInv'
    BY <1>3, <1>15, <2>2, SenderRefs DEF Using
  <2>7. BufInv'
    BY <1>2, <1>4, <1>15, <2>2, FinishBuf
  <2>8. LineOK(f)'
    <3>1. Len(out'[f]) = OutSz * k + OutSz
      BY <1>8, <2>1 DEF Ends
    <3>2. OutSz * (k + 1) = OutSz * k + OutSz /\ OutSz * k \in Nat /\ k + 1 \in Nat
      BY <1>8
    <3>3. wpdu_'[f].solong = 0
      BY <2>2 DEF EmptyW
    <3>4. Len(out'[f]) = OutSz * (k + 1) + wpdu_'[f].solong
      BY <1>8, <3>1, <3>2, <3>3
    <3>5. ASSUME NEW i \in OutSz * (k + 1) + 1 .. Len(out'[f]) PROVE FALSE
      BY <1>8, <3>1, <3>2, <3>5
    <3> QED BY <3>2, <3>4, <3>5 DEF LineOK
  <2>9. LineInv'
    BY <1>1, <1>15, <2>1, <2>2, <2>8, LineChange
  <2> QED BY <1>10, <1>11, <2>1, <2>4, <2>5, <2>6, <2>7, <2>9 DEF ConnInv
<1>16. CASE /\ n \in 0 .. OutSz - 1
            /\ wpdu_' = [wpdu_ EXCEPT ![f] = [buf |-> s, sz |-> OutSz, solong |-> n]]
            /\ add_callback(f, CB_WRONLY)
            /\ pc' = [pc EXCEPT ![s] = "complete"]
            /\ UNCHANGED <<ret, dead_>>
  <2>1. /\ WholePdus' /\ out' \in [Fd -> Seq(Sender)]
        /\ Ends(out'[f], k, 0 + n, s)
        /\ \A g \in Fd : g # f => out'[g] = out[g]
    <3>1. Ends(out[f], k, 0, s) /\ n \in Nat /\ 0 + n <= OutSz
      BY <1>8, <1>13, <1>16
    <3> QED BY <1>1, <1>6, <3>1, WireGrows
  <2>2. StepOf(s) /\ pc'[s] = "complete" /\ pc' \in [Sender -> Places]
    BY <1>1, <1>16, Moves DEF Places, Writing, StepOf
  <2>3. [buf |-> s, sz |-> OutSz, solong |-> n] \in [buf : Sender \cup {NULL}, sz : {0, OutSz}, solong : -1 .. OutSz]
    BY <1>8, <1>16
  <2>4. /\ wpdu_' \in [Fd -> [buf : Sender \cup {NULL}, sz : {0, OutSz}, solong : -1 .. OutSz]]
        /\ wpdu_'[f] = [buf |-> s, sz |-> OutSz, solong |-> n]
        /\ \A g \in Fd : g # f => wpdu_'[g] = wpdu_[g]
    BY <1>12, <1>16, <2>3
  <2>5. /\ watch_fd(f, CB_WRONLY) /\ callbacks_' = callbacks_ \cup {f}
        /\ UNCHANGED <<pending_change_, changedone_c_>>
    BY <1>16 DEF add_callback
  <2>6. /\ rfds_' \subseteq Fd /\ wfds_' \subseteq Fd /\ pipe' \in Nat
        /\ highfds_' \in Fd \cup {PipeFd} /\ highfds_' >= PipeFd
        /\ \A g : g # f => (g \in rfds_' <=> g \in rfds_) /\ (g \in wfds_' <=> g \in wfds_)
    BY <1>1, <2>5, Watches
  <2>7. PollTypeOK'
    BY <1>1, <1>9, <2>5, <2>6, TableType DEF TypeOK, PollTypeOK
  <2>8. LoopInv'
    BY <1>1, <1>3, <2>5, <2>6, LoopFrame
  <2>9. TypeOK'
    BY <1>1, <1>3, <1>7, <1>16, <2>1, <2>2, <2>4, <2>7 DEF TypeOK, Places
  <2>10. UnmadeInv'
    BY <1>2, <1>3, <1>4, <1>9, <1>16, <2>2, <2>5, <2>6, SenderUnmade
  <2>11. RefsInv'
    BY <1>3, <1>16, <2>2, SenderRefs DEF Using
  <2>12. BufInv'
    <3>1. wpdu_'[f].buf = s /\ wpdu_'[f].sz = OutSz /\ wpdu_'[f].solong >= 0
      BY <1>16, <2>4
    <3>2. Owns(pc'[s])
      BY <2>2 DEF Owns, Writing
    <3> QED BY <1>2, <1>4, <1>16, <2>2, <2>4, <3>1, <3>2, StartBuf
  <2>13. LineOK(f)'
    <3>1. wpdu_'[f].solong = 0 + n /\ wpdu_'[f].buf = s
      BY <1>16, <2>4
    <3> QED BY <2>1, <3>1 DEF LineOK, Ends
  <2>14. LineInv'
    BY <1>1, <1>16, <2>1, <2>4, <2>13, LineChange
  <2>15. KillInv'
    <3>1. ASSUME NEW g \in Fd, dead_[g]
          PROVE  /\ Forgotten(g) => Forgotten(g)'
                 /\ g \notin rfds_ \cup wfds_ => g \notin rfds_' \cup wfds_'
      <4>1. g # f
        BY <1>4, <3>1
      <4> QED BY <1>9, <2>5, <2>6, <4>1 DEF Forgotten
    <3>2. pc'[s] \notin Removing /\ ~SenderRemoves(s)
      BY <1>3, <2>2 DEF Removing, SenderRemoves
    <3> QED BY <1>3, <1>16, <2>2, <2>5, <3>1, <3>2, SenderKill
  <2> QED BY <1>10, <1>11, <2>1, <2>8, <2>9, <2>10, <2>11, <2>12, <2>14, <2>15 DEF ConnInv
<1> QED
  BY <1>6, <1>14, <1>15, <1>16

-----------------------------------------------------------------------------
(* The callbacks *)

\* At most, senders that wait for the end of their PDU on f are woken.
Signal(f) ==
  /\ pc' \in [Sender -> Places]
  /\ \A s \in Sender : \/ pc'[s] = pc[s]
                       \/ pc[s] = "complete" /\ pc'[s] = "signalled" /\ ConnOf[s] = f

LEMMA Signals ==
  ASSUME TypeOK, NEW f \in Fd, signal_complete(f) \/ UNCHANGED pc
  PROVE  Signal(f)
<1>1. pc \in [Sender -> Places]
  BY DEF TypeOK, Places
<1>2. CASE UNCHANGED pc
  BY <1>1, <1>2 DEF Signal
<1>3. CASE signal_complete(f)
  <2>1. pc' = [s \in Sender |-> IF pc[s] = "complete" /\ ConnOf[s] = f THEN "signalled" ELSE pc[s]]
    BY <1>3 DEF signal_complete
  <2>2. "signalled" \in Places
    BY DEF Places, Writing
  <2> QED BY <1>1, <2>1, <2>2 DEF Signal
<1> QED
  BY <1>2, <1>3

\* del_callback within a callback that returns: after CB_RDWR the poll thread is
\* through with f.
LEMMA Deletes ==
  ASSUME TypeOK, LoopInv, NEW f \in Fd, NEW flag, del_callback(f, flag), poll_return
  PROVE  /\ rfds_' \subseteq rfds_ /\ wfds_' \subseteq wfds_ /\ pipe' \in Nat
         /\ highfds_' \in Fd \cup {PipeFd} /\ highfds_' >= PipeFd /\ callbacks_' \subseteq callbacks_
         /\ UNCHANGED <<pending_change_, changedone_c_>>
         /\ flag = CB_RDWR => Forgotten(f)'
<1>1. /\ unwatch_fd(f, flag) /\ UNCHANGED <<pending_change_, changedone_c_>>
      /\ callbacks_' = IF f \notin rfds_' \cup wfds_' THEN callbacks_ \ {f} ELSE callbacks_
      /\ ppc' = "pick"
  BY DEF del_callback, poll_return
<1>2. /\ rfds_' \subseteq rfds_ /\ wfds_' \subseteq wfds_ /\ pipe' \in Nat
      /\ highfds_' \in Fd \cup {PipeFd} /\ highfds_' >= PipeFd
      /\ flag = CB_RDWR => f \notin rfds_' \cup wfds_'
  BY <1>1, Unwatches
<1>3. callbacks_' \subseteq callbacks_
  BY <1>1
<1>4. flag = CB_RDWR => Forgotten(f)'
  BY <1>1, <1>2 DEF Forgotten
<1> QED
  BY <1>1, <1>2, <1>3, <1>4

\* What a callback of f that returns does to the poll manager: it may take f out of
\* the table, and when it kills f the poll thread is through with f.
LEMMA CallbackTable ==
  ASSUME ConnInv, NEW f \in Fd, ppc \in {"read", "write"}, cbfd = f, poll_return,
         UNCHANGED <<aioVars, tabVars>> \/ \E flag \in {CB_WRONLY, CB_RDWR} : del_callback(f, flag),
         UNCHANGED <<refno_, deleted, owner>>, Signal(f), dead_' \in [Fd -> BOOLEAN],
         \A g \in Fd : g # f => dead_'[g] = dead_[g],
         dead_[f] => dead_'[f],
         dead_'[f] /\ ~dead_[f] => del_callback(f, CB_RDWR)
  PROVE  PollTypeOK' /\ LoopInv' /\ UnmadeInv' /\ KillInv' /\ RefsInv'
<1>1. /\ TypeOK /\ LoopInv /\ UnmadeInv /\ KillInv /\ RefsInv
      /\ \A g \in Fd : \A t \in SendersOf(g) : t \in Sender /\ ConnOf[t] = g
  BY Parts
<1>2. ppc' = "pick" /\ UNCHANGED <<readable, writable, cbfd>>
  BY DEF poll_return
<1>3. /\ rfds_' \subseteq rfds_ /\ wfds_' \subseteq wfds_ /\ pipe' \in Nat
      /\ highfds_' \in Fd \cup {PipeFd} /\ highfds_' >= PipeFd /\ callbacks_' \subseteq callbacks_
      /\ UNCHANGED <<pending_change_, changedone_c_>>
  <2>1. CASE UNCHANGED <<aioVars, tabVars>>
    BY <1>1, <2>1 DEF aioVars, tabVars, TypeOK, PollTypeOK, LoopInv
  <2>2. ASSUME NEW flag \in {CB_WRONLY, CB_RDWR}, del_callback(f, flag)
        PROVE  /\ rfds_' \subseteq rfds_ /\ wfds_' \subseteq wfds_ /\ pipe' \in Nat
               /\ highfds_' \in Fd \cup {PipeFd} /\ highfds_' >= PipeFd /\ callbacks_' \subseteq callbacks_
               /\ UNCHANGED <<pending_change_, changedone_c_>>
    BY <1>1, <2>2, Deletes
  <2> QED BY <2>1, <2>2
<1>4. dead_'[f] /\ ~dead_[f] => Forgotten(f)'
  BY <1>1, Deletes
<1>5. PollTypeOK'
  BY <1>1, <1>2, <1>3, TableType DEF TypeOK, PollTypeOK
<1>6. LoopInv'
  BY <1>1, <1>2, <1>3 DEF LoopInv
<1>7. owner[f] # "none"
  BY <1>1 DEF UnmadeInv
<1>8. UnmadeInv'
  <2> SUFFICES ASSUME NEW g \in Fd, owner'[g] = "none"
               PROVE  /\ ~dead_'[g]
                      /\ g \notin rfds_' \cup wfds_' \cup callbacks_' \cup readable' \cup writable'
                      /\ ppc' \in {"read", "write"} => cbfd' # g
                      /\ \A s \in SendersOf(g) : pc'[s] = "idle"
    BY DEF UnmadeInv
  <2>1. owner[g] = "none" /\ g # f
    BY <1>7
  <2>2. ASSUME NEW s \in SendersOf(g) PROVE pc'[s] = "idle"
    <3>1. s \in Sender /\ pc[s] = "idle"
      BY <1>1, <2>1 DEF UnmadeInv
    <3> QED BY <3>1 DEF Signal
  <2> QED BY <1>1, <1>2, <1>3, <2>1, <2>2 DEF UnmadeInv
<1>9. \A g \in Fd : dead_[g] => dead_'[g]
  OBVIOUS
<1>10. KillInv'
  <2>1. ASSUME NEW t \in Sender, pc[t] \in Removing \/ pc'[t] \in Removing PROVE pc'[t] = pc[t]
    BY <2>1 DEF Signal, Removing
  <2>2. ASSUME NEW t \in Sender, SenderRemoves(t) PROVE SenderRemoves(t)'
    BY <1>3, <2>1, <2>2 DEF SenderRemoves, Removing
  <2>3. ASSUME NEW g \in Fd, OwnerRemoves(g) PROVE OwnerRemoves(g)'
    BY <1>3, <2>3 DEF OwnerRemoves
  <2>4. ASSUME NEW g \in Fd, Forgotten(g) PROVE Forgotten(g)'
    BY <1>2, <1>3, <2>4 DEF Forgotten
  <2>5. ASSUME NEW g \in Fd, dead_'[g]
        PROVE  Forgotten(g)' \/ OwnerRemoves(g)' \/ \E t \in SendersOf(g) : SenderRemoves(t)'
    <3>1. CASE dead_[g]
      BY <1>1, <2>2, <2>3, <2>4, <3>1 DEF KillInv
    <3>2. CASE ~dead_[g]
      <4>1. g = f
        BY <2>5, <3>2
      <4> QED BY <1>4, <2>5, <3>2, <4>1
    <3> QED BY <3>1, <3>2
  <2>6. ASSUME NEW g \in Fd
        PROVE  /\ owner'[g] \in {"remove", "removing", "drop", "dropped"} => dead_'[g]
               /\ owner'[g] = "removing" => g \notin rfds_' \cup wfds_'
    BY <1>1, <1>3, <1>9 DEF KillInv
  <2>7. ASSUME NEW g \in Fd, NEW t \in SendersOf(g), pc'[t] \in Removing
        PROVE  dead_'[g] /\ (pc'[t] = "removing" => g \notin rfds_' \cup wfds_')
    <3>1. pc'[t] = pc[t]
      BY <1>1, <2>1, <2>7
    <3> QED BY <1>1, <1>3, <1>9, <2>7, <3>1 DEF KillInv
  <2> QED BY <2>5, <2>6, <2>7 DEF KillInv, Removing
<1>11. RefsInv'
  <2>1. \A t \in Sender : Using(pc'[t]) <=> Using(pc[t])
    BY DEF Signal, Using
  <2>2. \A g \in Fd : Owning(g)' = Owning(g)
    BY DEF Owning
  <2> QED BY <1>1, <1>9, <2>1, <2>2, RefsFrame
<1> QED
  BY <1>5, <1>6, <1>8, <1>10, <1>11

\* wpdu_ stays with its sender.
LEMMA CallbackBuf ==
  ASSUME ConnInv, NEW f \in Fd, Signal(f), UNCHANGED wpdu_, \A g \in Fd : dead_[g] => dead_'[g]
  PROVE  BufInv'
<1>1. TypeOK /\ BufInv
  BY Parts
<1>2. \A t \in Sender : Owns(pc'[t]) <=> Owns(pc[t])
  BY DEF Signal, Owns, Writing, Removing
<1> QED
  BY <1>1, <1>2, BufFrame

\* What a read may return, and the units it yields.
LEMMA ReadReturns ==
  ASSUME TypeOK, NEW f \in Fd, NEW pos \in Nat, NEW n \in Nat, NEW r \in ReadResults(f, pos, n)
  PROVE  r[2] \in Nat /\ r[2] <= n
<1>1. arrived[f] - pos \in Int
  BY DEF TypeOK
<1>2. arrived[f] - pos > 0 => AtMost(arrived[f] - pos, n) \in Nat /\ AtMost(arrived[f] - pos, n) <= n
  BY <1>1 DEF AtMost
<1>3. \/ arrived[f] - pos > 0 /\ r = <<"ok", AtMost(arrived[f] - pos, n)>>
      \/ r = <<"end", 0>> \/ r = <<"again", 0>> \/ r = <<"error", 0>>
  BY DEF ReadResults
<1> QED
  BY <1>2, <1>3

LEMMA UnitsSeq ==
  ASSUME NEW pos \in Nat, NEW n \in Nat
  PROVE  Units(pos, n) \in Seq(Nat) /\ Len(Units(pos, n)) = n
<1>1. \A i \in 1 .. n : pos + i \in Nat
  OBVIOUS
<1> QED
  BY <1>1 DEF Units

LEMMA Concats ==
  ASSUME NEW a \in Seq(Nat), NEW b \in Seq(Nat)
  PROVE  a \o b \in Seq(Nat) /\ Len(a \o b) = Len(a) + Len(b)
OBVIOUS

\* A possible end of readpdu
GoodOutcome(o) ==
  /\ o.succ \in BOOLEAN /\ o.again \in BOOLEAN /\ o.pos \in Nat
  /\ o.buf \in Seq(Nat) /\ Len(o.buf) <= InSz

LEMMA OutcomeGood ==
  ASSUME NEW u \in BOOLEAN, NEW b \in Seq(Nat), NEW p \in Nat, NEW a \in BOOLEAN, Len(b) <= InSz
  PROVE  GoodOutcome(Outcome(u, b, p, a))
BY DEF GoodOutcome, Outcome

LEMMA BodyOutcome ==
  ASSUME TypeOK, NEW f \in Fd, NEW b \in Seq(Nat), NEW pos \in Nat, Len(b) <= InSz,
         NEW o \in BodyRead(f, b, pos)
  PROVE  GoodOutcome(o)
<1>1. InSz \in Nat /\ Len(b) \in Nat /\ InSz - Len(b) \in Nat /\ eagain \in BOOLEAN
  BY ConnConstants DEF TypeOK
<1>2. << >> \in Seq(Nat) /\ Len(<< >>) = 0
  OBVIOUS
<1>3. PICK r \in ReadResults(f, pos, InSz - Len(b)) :
        o = CASE r[1] = "ok"    -> Outcome(TRUE, b \o Units(pos, r[2]), pos + r[2], eagain)
              [] r[1] = "again" -> Outcome(TRUE, b, pos, TRUE)
              [] r[1] = "end"   -> Outcome(eagain, IF eagain THEN b ELSE <<>>, pos, eagain)
              [] OTHER          -> Outcome(FALSE, <<>>, pos, FALSE)
  BY DEF BodyRead
<1>4. r[2] \in Nat /\ r[2] <= InSz - Len(b)
  BY <1>1, ReadReturns
<1>5. CASE r[1] = "ok"
  <2> DEFINE u == Units(pos, r[2])
  <2>1. u \in Seq(Nat) /\ Len(u) = r[2]
    BY <1>4, UnitsSeq
  <2>2. o = Outcome(TRUE, b \o u, pos + r[2], eagain)
    BY <1>3, <1>5
  <2> HIDE DEF u
  <2>3. b \o u \in Seq(Nat) /\ Len(b \o u) = Len(b) + Len(u)
    BY <2>1, Concats
  <2>4. Len(b \o u) <= InSz /\ pos + r[2] \in Nat
    BY <1>1, <1>4, <2>1, <2>3
  <2> QED BY <1>1, <2>2, <2>3, <2>4 DEF GoodOutcome, Outcome
<1>6. CASE r[1] = "again"
  BY <1>1, <1>3, <1>6 DEF GoodOutcome, Outcome
<1>7. CASE r[1] = "end"
  <2>1. o = Outcome(eagain, IF eagain THEN b ELSE <<>>, pos, eagain)
    BY <1>3, <1>7
  <2>2. CASE eagain
    BY <1>1, <2>1, <2>2 DEF GoodOutcome, Outcome
  <2>3. CASE ~eagain
    BY <1>1, <1>2, <2>1, <2>3 DEF GoodOutcome, Outcome
  <2> QED BY <2>2, <2>3
<1>8. CASE r[1] \notin {"ok", "again", "end"}
  <2>1. o = Outcome(FALSE, <<>>, pos, FALSE)
    BY <1>3, <1>8
  <2> QED BY <1>1, <1>2, <2>1 DEF GoodOutcome, Outcome
<1> QED
  BY <1>5, <1>6, <1>7, <1>8

LEMMA HeaderOutcome ==
  ASSUME TypeOK, NEW f \in Fd, NEW o \in HeaderRead(f)
  PROVE  GoodOutcome(o)
<1>1. /\ eaten[f] \in Nat /\ eagain \in BOOLEAN
      /\ HdrSz \in Nat /\ InSz \in Nat /\ HdrSz <= InSz
  BY ConnConstants DEF TypeOK
<1>2. PICK r \in ReadResults(f, eaten[f], HdrSz) :
        o \in IF r[1] = "ok" /\ WholeHeader(r[2])
              THEN BodyRead(f, Units(eaten[f], r[2]), eaten[f] + r[2])
              ELSE {Outcome(FALSE, <<>>, eaten[f] + r[2], eagain /\ r[1] # "error")}
  BY DEF HeaderRead
<1>3. r[2] \in Nat /\ r[2] <= HdrSz
  BY <1>1, ReadReturns
<1>4. eaten[f] + r[2] \in Nat
  BY <1>1, <1>3
<1>5. CASE r[1] = "ok" /\ WholeHeader(r[2])
  <2> DEFINE u == Units(eaten[f], r[2])
  <2>1. u \in Seq(Nat) /\ Len(u) = r[2]
    BY <1>1, <1>3, UnitsSeq
  <2>2. o \in BodyRead(f, u, eaten[f] + r[2])
    BY <1>2, <1>5
  <2> HIDE DEF u
  <2>3. Len(u) <= InSz
    BY <1>1, <1>3, <2>1
  <2> QED BY <1>4, <2>1, <2>2, <2>3, BodyOutcome
<1>6. CASE ~(r[1] = "ok" /\ WholeHeader(r[2]))
  <2>1. o = Outcome(FALSE, <<>>, eaten[f] + r[2], eagain /\ r[1] # "error")
    BY <1>2, <1>6
  <2>2. << >> \in Seq(Nat) /\ Len(<< >>) = 0 /\ (eagain /\ r[1] # "error") \in BOOLEAN
    BY <1>1
  <2> QED BY <1>1, <1>4, <2>1, <2>2 DEF GoodOutcome, Outcome
<1> QED
  BY <1>5, <1>6

\* read_cb after readpdu.
LEMMA AfterReadInv ==
  ASSUME ConnInv, NEW f \in Fd, ppc = "read", cbfd = f, ~dead_[f], NEW o, GoodOutcome(o),
         AfterRead(f, o), poll_return,
         UNCHANGED <<failed, wpdu_, refno_, deleted, owner, ret, shut, gone, out, acked, arrived>>
  PROVE  ConnInv'
<1>1. /\ TypeOK /\ LoopInv /\ LineInv /\ WholePdus /\ ReadInv /\ OtherAssertions
  BY Parts
<1> DEFINE r == [buf |-> o.buf, sz |-> IF o.buf = <<>> THEN 0 ELSE InSz]
<1>2. /\ eaten' = [eaten EXCEPT ![f] = o.pos] /\ eagain' = o.again
      /\ IF o.succ
         THEN UNCHANGED <<aioVars, tabVars, dead_, pc>>
         ELSE /\ del_callback(f, CB_RDWR)
              /\ dead_' = [dead_ EXCEPT ![f] = TRUE]
              /\ signal_complete(f)
  BY DEF AfterRead, read_signal
<1>3. \/ /\ got' = [got EXCEPT ![f] = Append(@, r.buf)]
         /\ rpdu_' = [rpdu_ EXCEPT ![f] = EmptyR]
      \/ rpdu_' = [rpdu_ EXCEPT ![f] = r] /\ UNCHANGED got
  BY DEF AfterRead, Reset
<1>4. /\ dead_ \in [Fd -> BOOLEAN] /\ eaten \in [Fd -> Nat] /\ got \in [Fd -> Seq(Seq(Nat))]
      /\ rpdu_ \in [Fd -> [buf : Seq(Nat), sz : {0, InSz}]]
  BY <1>1 DEF TypeOK
<1>5. /\ o.succ \in BOOLEAN /\ o.again \in BOOLEAN /\ o.pos \in Nat
      /\ o.buf \in Seq(Nat) /\ Len(o.buf) <= InSz
  BY DEF GoodOutcome
<1>6. /\ eaten' \in [Fd -> Nat] /\ eagain' \in BOOLEAN /\ \A g \in Fd : g # f => eaten'[g] = eaten[g]
  BY <1>2, <1>4, <1>5
<1>7. /\ dead_' \in [Fd -> BOOLEAN] /\ \A g \in Fd : g # f => dead_'[g] = dead_[g]
      /\ dead_'[f] => del_callback(f, CB_RDWR)
      /\ UNCHANGED <<aioVars, tabVars>> \/ del_callback(f, CB_RDWR)
      /\ signal_complete(f) \/ UNCHANGED pc
  <2>1. CASE o.succ
    BY <1>2, <1>4, <2>1
  <2>2. CASE ~o.succ
    BY <1>2, <1>4, <2>2
  <2> QED BY <2>1, <2>2
<1>8. Signal(f)
  BY <1>1, <1>7, Signals
<1>9. PollTypeOK' /\ LoopInv' /\ UnmadeInv' /\ KillInv' /\ RefsInv'
  BY <1>7, <1>8, CallbackTable
<1>10. \A g \in Fd : dead_[g] => dead_'[g]
  BY <1>7
<1>11. BufInv' /\ LineInv' /\ WholePdus'
  BY <1>1, <1>8, <1>10, CallbackBuf, LineFrame
<1>12. /\ EmptyR \in [buf : Seq(Nat), sz : {0, InSz}] /\ Len(EmptyR.buf) <= InSz
       /\ r \in [buf : Seq(Nat), sz : {0, InSz}] /\ Len(r.buf) <= InSz /\ r.buf = o.buf
  BY <1>5, ConnConstants DEF EmptyR
<1> HIDE DEF r
<1>13. \E e \in {EmptyR, r} : rpdu_' = [rpdu_ EXCEPT ![f] = e]
  BY <1>3
<1>14. PICK e \in {EmptyR, r} : rpdu_' = [rpdu_ EXCEPT ![f] = e]
  BY <1>13
<1>15. e \in [buf : Seq(Nat), sz : {0, InSz}] /\ Len(e.buf) <= InSz
  BY <1>12
<1>16. /\ rpdu_' \in [Fd -> [buf : Seq(Nat), sz : {0, InSz}]]
       /\ rpdu_'[f] = e /\ \A g \in Fd : g # f => rpdu_'[g] = rpdu_[g]
  BY <1>4, <1>14, <1>15
<1>17. got' \in [Fd -> Seq(Seq(Nat))]
  <2>1. CASE UNCHANGED got
    BY <1>4, <2>1
  <2>2. CASE got' = [got EXCEPT ![f] = Append(@, r.buf)]
    <3>1. got[f] \in Seq(Seq(Nat)) /\ r.buf \in Seq(Nat)
      BY <1>4, <1>5, <1>12
    <3>2. Append(got[f], r.buf) \in Seq(Seq(Nat))
      BY <3>1
    <3> QED BY <1>4, <2>2, <3>2
  <2> QED BY <1>3, <2>1, <2>2
<1>18. TypeOK'
  BY <1>1, <1>6, <1>7, <1>8, <1>9, <1>16, <1>17 DEF TypeOK, Signal, Places
<1>19. ReadInv'
  <2>1. ppc' = "pick" /\ readable' = readable /\ f \notin readable /\ readable \subseteq Fd
    BY <1>1 DEF poll_return, LoopInv, TypeOK, PollTypeOK
  <2>2. ASSUME NEW g \in readable PROVE Readable(g)'
    <3>1. g \in Fd /\ g # f /\ Readable(g)
      BY <1>1, <2>1 DEF ReadInv
    <3>2. eaten'[g] = eaten[g] /\ arrived'[g] = arrived[g] /\ shut'[g] = shut[g] /\ gone'[g] = gone[g]
      BY <1>6, <3>1
    <3> QED BY <3>1, <3>2 DEF Readable, Avail, Broken
  <2>3. ASSUME NEW g \in Fd PROVE Len(rpdu_'[g].buf) <= InSz
    BY <1>1, <1>15, <1>16 DEF ReadInv
  <2> QED BY <2>1, <2>2, <2>3 DEF ReadInv
<1>20. OtherAssertions'
  BY <1>1 DEF OtherAssertions
<1> QED
  BY <1>9, <1>11, <1>18, <1>19, <1>20 DEF ConnInv

\* read_cb.  VERIFY(errno != EAGAIN) holds: select found data or the end of the
\* stream, and nobody else has read since.
LEMMA read_cb_Inv ==
  ASSUME ConnInv, NEW f \in Fd, read_cb(f)
  PROVE  ConnInv'
<1>1. /\ TypeOK /\ LoopInv /\ LineInv /\ WholePdus /\ ReadInv /\ OtherAssertions
  BY Parts
<1>2. /\ ppc = "read" /\ cbfd = f
      /\ UNCHANGED <<wpdu_, refno_, deleted, owner, ret, shut, gone, out, acked, arrived>>
  BY DEF read_cb
<1>3. /\ rpdu_[f] \in [buf : Seq(Nat), sz : {0, InSz}] /\ eaten[f] \in Nat /\ eagain \in BOOLEAN
  BY <1>1 DEF TypeOK
<1>4. rpdu_[f].buf \in Seq(Nat) /\ Len(rpdu_[f].buf) <= InSz
  BY <1>1, <1>3 DEF ReadInv
<1>5. CASE dead_[f]
  <2>1. poll_return /\ UNCHANGED <<aioVars, tabVars, dead_, rpdu_, pc, eaten, got, eagain, failed>>
    BY <1>5 DEF read_cb
  <2>2. Signal(f) /\ dead_ \in [Fd -> BOOLEAN]
    BY <1>1, <2>1, Signals DEF TypeOK
  <2>3. PollTypeOK' /\ LoopInv' /\ UnmadeInv' /\ KillInv' /\ RefsInv'
    BY <1>2, <2>1, <2>2, CallbackTable
  <2>4. BufInv' /\ LineInv' /\ WholePdus'
    BY <1>1, <1>2, <2>1, <2>2, CallbackBuf, LineFrame
  <2>5. TypeOK'
    BY <1>1, <1>2, <2>1, <2>3 DEF TypeOK
  <2>6. ReadInv'
    <3>1. ppc' = "pick" /\ readable' = readable
      BY <2>1 DEF poll_return
    <3>2. \A g : Readable(g)' <=> Readable(g)
      BY <1>2, <2>1 DEF Readable, Avail, Broken
    <3> QED BY <1>1, <1>2, <2>1, <3>1, <3>2 DEF ReadInv
  <2>7. OtherAssertions'
    BY <1>1, <2>1 DEF OtherAssertions
  <2> QED BY <2>3, <2>4, <2>5, <2>6, <2>7 DEF ConnInv
<1>6. CASE ~dead_[f]
  <2>1. <<"again", 0>> \notin ReadResults(f, eaten[f], HdrSz)
    <3>1. arrived[f] - eaten[f] > 0 \/ Broken(f)
      BY <1>1, <1>2 DEF ReadInv, Readable, Avail
    <3> QED BY <3>1 DEF ReadResults
  <2>2. \E o : GoodOutcome(o) /\ AfterRead(f, o) /\ poll_return /\ UNCHANGED failed
    <3>1. CASE Full(rpdu_[f])
      <4>1. /\ AfterRead(f, Outcome(TRUE, rpdu_[f].buf, eaten[f], eagain))
            /\ poll_return /\ UNCHANGED failed
        BY <1>6, <3>1 DEF read_cb, Full
      <4>2. GoodOutcome(Outcome(TRUE, rpdu_[f].buf, eaten[f], eagain))
        BY <1>3, <1>4 DEF GoodOutcome, Outcome
      <4> QED BY <4>1, <4>2
    <3>2. CASE rpdu_[f].sz # 0 /\ ~Full(rpdu_[f])
      <4>1. /\ \E o \in BodyRead(f, rpdu_[f].buf, eaten[f]) : AfterRead(f, o)
            /\ poll_return /\ UNCHANGED failed
        BY <1>6, <3>2 DEF read_cb
      <4>2. PICK o \in BodyRead(f, rpdu_[f].buf, eaten[f]) : AfterRead(f, o)
        BY <4>1
      <4>3. GoodOutcome(o)
        BY <1>1, <1>3, <1>4, BodyOutcome
      <4> QED BY <4>1, <4>2, <4>3
    <3>3. CASE rpdu_[f].sz = 0
      <4>1. /\ \E o \in HeaderRead(f) : AfterRead(f, o)
            /\ poll_return /\ UNCHANGED failed
        BY <1>6, <2>1, <3>3 DEF read_cb, Full
      <4>2. PICK o \in HeaderRead(f) : AfterRead(f, o)
        BY <4>1
      <4>3. GoodOutcome(o)
        BY <1>1, HeaderOutcome
      <4> QED BY <4>1, <4>2, <4>3
    <3> QED BY <3>1, <3>2, <3>3
  <2>3. PICK o : GoodOutcome(o) /\ AfterRead(f, o) /\ poll_return /\ UNCHANGED failed
    BY <2>2
  <2> QED BY <1>2, <1>6, <2>3, AfterReadInv
<1> QED
  BY <1>5, <1>6

\* A step that changes nothing, or only reports write_cb's assertion.
LEMMA Stutter ==
  ASSUME ConnInv, UNCHANGED <<pollVars, objVars, sendVars, sockVars, got, eagain>>,
         failed' \in {failed, "write_cb"}
  PROVE  ConnInv'
<1>1. /\ TypeOK /\ LoopInv /\ UnmadeInv /\ RefsInv /\ BufInv /\ LineInv /\ WholePdus
      /\ KillInv /\ ReadInv /\ OtherAssertions
  BY Parts
<1>2. /\ UNCHANGED <<rfds_, wfds_, highfds_, pipe, callbacks_, pending_change_, changedone_c_,
                     ppc, readable, writable, cbfd>>
      /\ LoopInv' /\ \A g \in Fd : Forgotten(g) => Forgotten(g)'
  BY <1>1, PollStays
<1>3. /\ UNCHANGED <<dead_, wpdu_, rpdu_, refno_, deleted, owner, pc, ret>>
      /\ UNCHANGED <<shut, gone, out, acked, arrived, eaten>>
  BY DEF objVars, sendVars, sockVars
<1>4. TypeOK' /\ OtherAssertions'
  BY <1>1, <1>2, <1>3 DEF TypeOK, PollTypeOK, OtherAssertions
<1>5. UnmadeInv'
  BY <1>1, <1>2, <1>3 DEF UnmadeInv
<1>6. RefsInv' /\ BufInv' /\ LineInv' /\ WholePdus'
  BY <1>1, <1>3, RefsFrame, BufFrame, LineFrame DEF Owning
<1>7. KillInv'
  BY <1>1, <1>2, <1>3, KillFrame
<1>8. ReadInv'
  <2>1. \A g \in Fd : Readable(g) => Readable(g)'
    BY <1>3 DEF Readable, Avail, Broken
  <2> QED BY <1>1, <1>2, <1>3, <2>1, ReadFrame DEF LoopInv
<1> QED
  BY <1>2, <1>4, <1>5, <1>6, <1>7, <1>8 DEF ConnInv

\* What the round has yet to read stays readable in a callback that reads nothing.
LEMMA CallbackRead ==
  ASSUME ReadInv, ppc \in {"read", "write"}, poll_return,
         UNCHANGED <<rpdu_, shut, gone, arrived, eaten>>
  PROVE  ReadInv'
<1>1. ppc' = "pick" /\ readable' = readable
  BY DEF poll_return
<1>2. \A g : Readable(g)' <=> Readable(g)
  BY DEF Readable, Avail, Broken
<1> QED
  BY <1>1, <1>2 DEF ReadInv

\* write_cb with nothing to write: there is no PDU, or all of it is written.
LEMMA WriteNothing ==
  ASSUME ConnInv, NEW f \in Fd, ppc = "write", cbfd = f, poll_return,
         UNCHANGED <<aioVars, tabVars>> \/ del_callback(f, CB_WRONLY),
         signal_complete(f) \/ UNCHANGED pc,
         UNCHANGED <<dead_, wpdu_, rpdu_, refno_, deleted, owner, ret>>,
         UNCHANGED <<shut, gone, out, acked, arrived, eaten, got, eagain, failed>>
  PROVE  ConnInv'
<1>1. /\ TypeOK /\ LineInv /\ WholePdus /\ ReadInv /\ OtherAssertions
  BY Parts
<1>2. Signal(f) /\ dead_ \in [Fd -> BOOLEAN]
  BY <1>1, Signals DEF TypeOK
<1>3. PollTypeOK' /\ LoopInv' /\ UnmadeInv' /\ KillInv' /\ RefsInv'
  BY <1>2, CallbackTable
<1>4. BufInv' /\ LineInv' /\ WholePdus'
  BY <1>1, <1>2, CallbackBuf, LineFrame
<1>5. TypeOK' /\ OtherAssertions'
  BY <1>1, <1>2, <1>3 DEF TypeOK, Signal, Places, OtherAssertions
<1>6. ReadInv'
  BY <1>1, CallbackRead
<1> QED
  BY <1>3, <1>4, <1>5, <1>6 DEF ConnInv

\* The fields of wpdu_ change, but not its owner.
LEMMA CallbackBufChange ==
  ASSUME ConnInv, NEW f \in Fd, Signal(f), wpdu_[f].buf # NULL,
         wpdu_'[f].buf = wpdu_[f].buf, dead_'[f] \/ wpdu_'[f].sz = OutSz,
         wpdu_'[f].sz # 0 => wpdu_'[f].solong >= 0,
         \A g \in Fd : g # f => wpdu_'[g] = wpdu_[g] /\ dead_'[g] = dead_[g]
  PROVE  BufInv'
<1>1. TypeOK /\ BufInv /\ \A g \in Fd : \A t \in SendersOf(g) : t \in Sender /\ ConnOf[t] = g
  BY Parts
<1>2. \A t \in Sender : Owns(pc'[t]) <=> Owns(pc[t])
  BY DEF Signal, Owns, Writing, Removing
<1>3. ASSUME NEW g \in Fd
      PROVE  /\ wpdu_'[g].buf # NULL => /\ ConnOf[wpdu_'[g].buf] = g
                                        /\ pc'[wpdu_'[g].buf] \in Writing \cup Removing
             /\ \A t \in SendersOf(g) : pc'[t] \in Writing \cup Removing => wpdu_'[g].buf = t
  <2>1. wpdu_'[g].buf = wpdu_[g].buf
    BY <1>3
  <2>2. ASSUME wpdu_[g].buf # NULL
        PROVE  ConnOf[wpdu_[g].buf] = g /\ pc'[wpdu_[g].buf] \in Writing \cup Removing
    <3>1. PICK t \in Sender : t = wpdu_[g].buf
      BY <1>1, <2>2, BufTyped
    <3>2. ConnOf[t] = g /\ Owns(pc[t])
      BY <1>1, <2>2, <3>1 DEF BufInv, Owns
    <3> QED BY <1>2, <3>1, <3>2 DEF Owns
  <2>3. ASSUME NEW t \in SendersOf(g), pc'[t] \in Writing \cup Removing PROVE wpdu_[g].buf = t
    <3>1. t \in Sender /\ Owns(pc[t])
      BY <1>1, <1>2, <2>3 DEF Owns
    <3> QED BY <1>1, <3>1 DEF BufInv, Owns
  <2> QED BY <2>1, <2>2, <2>3
<1>4. ASSUME NEW g \in Fd
      PROVE  /\ wpdu_'[g].buf = NULL => wpdu_'[g] = EmptyW
             /\ wpdu_'[g].buf # NULL /\ ~dead_'[g] => wpdu_'[g].sz = OutSz
             /\ wpdu_'[g].sz # 0 => wpdu_'[g].solong >= 0
  <2>1. CASE g = f
    BY <2>1
  <2>2. CASE g # f
    BY <1>1, <2>2 DEF BufInv
  <2> QED BY <2>1, <2>2
<1> QED
  BY <1>3, <1>4 DEF BufInv

\* write_cb.
LEMMA write_cb_Inv ==
  ASSUME ConnInv, NEW f \in Fd, write_cb(f)
  PROVE  ConnInv'
<1>1. /\ TypeOK /\ LoopInv /\ BufInv /\ LineInv /\ WholePdus /\ ReadInv /\ OtherAssertions
  BY Parts
<1>2. /\ ppc = "write" /\ cbfd = f
      /\ UNCHANGED <<rpdu_, refno_, deleted, owner, ret, shut, gone, acked, arrived, eaten, got>>
  BY DEF write_cb
<1>3. /\ wpdu_[f].buf \in Sender \cup {NULL} /\ wpdu_[f].sz \in {0, OutSz}
      /\ wpdu_[f].solong \in -1 .. OutSz /\ OutSz \in Nat /\ OutSz > 0
  BY <1>1, BufTyped, ConnConstants
<1>4. CASE dead_[f]
  <2>1. failed' = "write_cb" /\ UNCHANGED <<pollVars, dead_, wpdu_, pc, out, eagain>>
    BY <1>4 DEF write_cb
  <2>2. UNCHANGED <<pollVars, objVars, sendVars, sockVars, got, eagain>>
    BY <1>2, <2>1 DEF objVars, sendVars, sockVars
  <2> QED BY <2>1, <2>2, Stutter
<1>5. CASE ~dead_[f] /\ wpdu_[f].sz = 0
  <2>1. del_callback(f, CB_WRONLY) /\ poll_return /\ UNCHANGED <<dead_, wpdu_, pc, out, eagain, failed>>
    BY <1>5 DEF write_cb
  <2> QED BY <1>2, <2>1, WriteNothing
<1>6. CASE ~dead_[f] /\ wpdu_[f].sz # 0 /\ wpdu_[f].solong = wpdu_[f].sz
  <2>1. /\ signal_complete(f) /\ poll_return
        /\ UNCHANGED <<aioVars, tabVars, dead_, wpdu_, out, eagain, failed>>
    <3>1. ~(wpdu_[f].solong < wpdu_[f].sz)
      BY <1>3, <1>6
    <3> QED BY <1>6, <3>1 DEF write_cb
  <2> QED BY <1>2, <2>1, WriteNothing
<1>7. CASE ~dead_[f] /\ wpdu_[f].sz # 0 /\ wpdu_[f].solong # wpdu_[f].sz
  <2>1. PICK n \in WriteResults(f, wpdu_[f].sz - wpdu_[f].solong, shut[f]) :
          /\ out' = [out EXCEPT ![f] = @ \o [i \in 1 .. n |-> wpdu_[f].buf]]
          /\ eagain' = IF n = 0 THEN TRUE ELSE IF n = -1 THEN FALSE ELSE eagain
          /\ dead_' = [dead_ EXCEPT ![f] = n = -1]
          /\ wpdu_' = [wpdu_ EXCEPT ![f].solong = IF n = -1 THEN -1 ELSE @ + n,
                                    ![f].sz = IF n = -1 THEN 0 ELSE @]
          /\ IF n = -1 \/ wpdu_[f].solong + n = wpdu_[f].sz THEN signal_complete(f) ELSE UNCHANGED pc
          /\ IF n = -1 THEN del_callback(f, CB_RDWR) ELSE UNCHANGED <<aioVars, tabVars>>
    BY <1>7 DEF write_cb
  <2>2. poll_return /\ UNCHANGED failed
    BY <1>7 DEF write_cb
  <2>3. wpdu_[f].buf # NULL
    BY <1>1, <1>7 DEF BufInv, EmptyW
  <2>4. PICK x \in Sender : x = wpdu_[f].buf
    BY <1>3, <2>3
  <2>5. wpdu_[f].sz = OutSz /\ wpdu_[f].solong >= 0
    BY <1>1, <1>3, <1>7 DEF BufInv
  <2>6. PICK p \in Nat : p = wpdu_[f].solong
    BY <1>3, <2>5
  <2>7. p < OutSz /\ OutSz - p \in Nat /\ OutSz - p > 0
    BY <1>3, <1>7, <2>5, <2>6
  <2>8. n \in -1 .. OutSz - p
    <3>1. n \in WriteResults(f, OutSz - p, shut[f]) /\ shut[f] \in BOOLEAN
      BY <1>1, <2>5, <2>6 DEF TypeOK
    <3> QED BY <1>1, <2>7, <3>1, WriteReturns
  <2>9. /\ wpdu_ \in [Fd -> [buf : Sender \cup {NULL}, sz : {0, OutSz}, solong : -1 .. OutSz]]
        /\ wpdu_[f] \in [buf : Sender \cup {NULL}, sz : {0, OutSz}, solong : -1 .. OutSz]
        /\ dead_ \in [Fd -> BOOLEAN] /\ eagain \in BOOLEAN
    BY <1>1 DEF TypeOK
  <2> DEFINE w == [buf |-> x, sz |-> IF n = -1 THEN 0 ELSE OutSz, solong |-> IF n = -1 THEN -1 ELSE p + n]
  <2>10. wpdu_'[f] = w /\ \A g \in Fd : g # f => wpdu_'[g] = wpdu_[g]
    BY <2>1, <2>4, <2>5, <2>6, <2>9
  <2>11. w \in [buf : Sender \cup {NULL}, sz : {0, OutSz}, solong : -1 .. OutSz]
    BY <1>3, <2>7, <2>8
  <2>12. wpdu_' = [wpdu_ EXCEPT ![f] = wpdu_'[f]]
    BY <2>1, <2>9
  <2>13. w.buf = x /\ (n # -1 => w.sz = OutSz /\ w.solong = p + n) /\ (n = -1 => w.sz = 0)
    OBVIOUS
  <2> HIDE DEF w
  <2>14. wpdu_' \in [Fd -> [buf : Sender \cup {NULL}, sz : {0, OutSz}, solong : -1 .. OutSz]]
    BY <2>9, <2>10, <2>11, <2>12
  <2>15. /\ dead_' \in [Fd -> BOOLEAN] /\ dead_'[f] = (n = -1)
         /\ \A g \in Fd : g # f => dead_'[g] = dead_[g]
    <3>1. (n = -1) \in BOOLEAN
      OBVIOUS
    <3> QED BY <2>1, <2>9, <3>1
  <2>16. eagain' \in BOOLEAN
    BY <2>1, <2>9
  <2>17. Signal(f)
    BY <1>1, <2>1, Signals
  <2>18. PollTypeOK' /\ LoopInv' /\ UnmadeInv' /\ KillInv' /\ RefsInv'
    <3>1. UNCHANGED <<aioVars, tabVars>> \/ del_callback(f, CB_RDWR)
      BY <2>1
    <3>2. dead_'[f] => del_callback(f, CB_RDWR)
      BY <2>1, <2>15
    <3> QED BY <1>2, <1>7, <2>2, <2>15, <2>17, <3>1, <3>2, CallbackTable
  <2>19. BufInv'
    <3>1. wpdu_'[f].buf = wpdu_[f].buf /\ (dead_'[f] \/ wpdu_'[f].sz = OutSz)
      BY <2>4, <2>10, <2>13, <2>15
    <3>2. wpdu_'[f].sz # 0 => wpdu_'[f].solong >= 0
      BY <2>8, <2>10, <2>13
    <3> QED BY <2>3, <2>10, <2>15, <2>17, <3>1, <3>2, CallbackBufChange
  <2>20. ReadInv'
    BY <1>1, <1>2, <2>2, CallbackRead
  <2>21. OtherAssertions'
    BY <1>1, <2>2 DEF OtherAssertions
  <2>22. WholePdus' /\ out' \in [Fd -> Seq(Sender)] /\ LineInv'
    <3>1. CASE n = -1
      <4>1. out' = [out EXCEPT ![f] = Extended(out[f], n, x)]
        BY <2>1, <2>4 DEF Extended
      <4>2. out \in [Fd -> Seq(Sender)] /\ out[f] \in Seq(Sender)
        BY <1>1 DEF TypeOK
      <4>3. n \in Int
        BY <3>1
      <4>4. Extended(out[f], n, x) = out[f]
        BY <3>1, <4>2, <4>3, NoUnits
      <4>5. out' = out
        BY <4>1, <4>2, <4>4
      <4>6. LineInv'
        BY <1>1, <2>10, <2>15, <3>1, <4>5, LineChange
      <4> QED BY <1>1, <4>2, <4>5, <4>6 DEF WholePdus
    <3>2. CASE n # -1
      <4>1. n \in Nat /\ p + n <= OutSz
        BY <1>3, <2>7, <2>8, <3>2
      <4>2. PICK k \in Nat : /\ Len(out[f]) = OutSz * k + wpdu_[f].solong
                             /\ \A i \in OutSz * k + 1 .. Len(out[f]) : out[f][i] = wpdu_[f].buf
        BY <1>1, <1>7 DEF LineInv
      <4>3. Ends(out[f], k, p, x)
        BY <2>4, <2>6, <4>2 DEF Ends
      <4>4. out' = [out EXCEPT ![f] = @ \o [i \in 1 .. n |-> x]]
        BY <2>1, <2>4
      <4>5. /\ WholePdus' /\ out' \in [Fd -> Seq(Sender)]
            /\ Ends(out'[f], k, p + n, x)
            /\ \A g \in Fd : g # f => out'[g] = out[g]
        BY <1>1, <4>1, <4>3, <4>4, WireGrows
      <4>6. LineOK(f)'
        <5>1. wpdu_'[f].solong = p + n /\ wpdu_'[f].buf = x
          BY <2>10, <2>13, <3>2
        <5> QED BY <4>5, <5>1 DEF LineOK, Ends
      <4>7. LineInv'
        BY <1>1, <2>10, <2>15, <4>5, <4>6, LineChange
      <4> QED BY <4>5, <4>7
    <3> QED BY <3>1, <3>2
  <2>23. TypeOK'
    BY <1>1, <1>2, <2>2, <2>14, <2>15, <2>16, <2>17, <2>18, <2>22 DEF TypeOK, Signal, Places
  <2> QED BY <2>18, <2>19, <2>20, <2>21, <2>22, <2>23 DEF ConnInv
<1> QED
  BY <1>4, <1>5, <1>6, <1>7

-----------------------------------------------------------------------------
(* The theorems *)

\* Every step keeps the invariant.
LEMMA NextConn == ConnInv /\ [Next]_vars => ConnInv'
<1> SUFFICES ASSUME ConnInv, [Next]_vars PROVE ConnInv'
  OBVIOUS
<1>1. CASE UNCHANGED vars
  BY <1>1, Stutter DEF vars
<1>2. CASE PollStep
  BY <1>2, poll_top_Inv, poll_snapshot_Inv, poll_pick_Inv, read_cb_Inv, write_cb_Inv DEF PollStep
<1>3. CASE PollSelect \/ PollInterrupted
  BY <1>3, PollSelect_Inv, PollInterrupted_Inv
<1>4. ASSUME NEW s \in Sender, incref(s) \/ SendStep(s) PROVE ConnInv'
  <2>1. CASE send(s)
    BY <2>1, send_idle_Inv, send_write_Inv
  <2>2. CASE incref(s) \/ sender_decref(s)
    BY <2>2, incref_Inv, sender_decref_Inv
  <2>3. CASE send_resume(s) \/ send_failed(s)
    BY <2>3, send_resume_Inv, send_failed_Inv
  <2>4. CASE send_remove(s) \/ send_removed(s)
    BY <2>4, send_remove_Inv
  <2> QED BY <1>4, <2>1, <2>2, <2>3, <2>4 DEF SendStep
<1>5. ASSUME NEW f \in Fd, connection(f) \/ closeconn(f) \/ CloseStep(f) PROVE ConnInv'
  BY <1>5, connection_Inv, closeconn_Inv, close_remove_Inv, owner_decref_Inv DEF CloseStep
<1>6. ASSUME NEW f \in Fd, PeerSends(f) \/ PeerReads(f) \/ PeerCloses(f) PROVE ConnInv'
  BY <1>6, Peer_Inv
<1> QED
  BY <1>1, <1>2, <1>3, <1>4, <1>5, <1>6 DEF Next

\* The inductive invariant of a connection under any interleaving of its senders,
\* its owner, the poll thread and the peer.
THEOREM ConnInvCorrect == Spec => []ConnInv
<1>1. Init => ConnInv
  BY InitConn
<1>2. ConnInv /\ [Next]_vars => ConnInv'
  BY NextConn
<1> QED
  BY <1>1, <1>2, PTL DEF Spec

\* Every variable of the connections and of the poll manager keeps its type; among
\* them, the search of unwatch_fd for the new highest descriptor always finds one.
THEOREM ConnTypeCorrect == Spec => []TypeOK
<1>1. ConnInv => TypeOK
  BY DEF ConnInv
<1> QED
  BY <1>1, ConnInvCorrect, PTL

\* connection::send and write_cb together put whole PDUs on the wire, whatever write
\* accepts each time: only the last one may be torn, and no PDU is cut by another.
THEOREM WholePdusCorrect == Spec => []WholePdus
<1>1. ConnInv => WholePdus
  BY DEF ConnInv
<1> QED
  BY <1>1, ConnInvCorrect, PTL

\* Why no callback of a deleted connection runs: the last reference is gone only
\* when the poll thread is through with the connection.
LEMMA NoneLeft == ConnInv => CallbackOnLive
<1> SUFFICES ASSUME ConnInv, ppc \in {"read", "write"}, deleted[cbfd] PROVE FALSE
  BY DEF CallbackOnLive
<1>1. /\ LoopInv /\ KillInv /\ RefsInv
      /\ \A g \in Fd : \A s \in SendersOf(g) : s \in Sender /\ ConnOf[s] = g
  BY Parts
<1>2. PICK f \in Fd : f = cbfd
  BY <1>1 DEF LoopInv
<1>3. refno_[f] = 0 /\ dead_[f] /\ refno_[f] = Owning(f) + Cardinality(Holding(f))
  BY <1>1, <1>2 DEF RefsInv
<1>4. Cardinality(Holding(f)) \in Nat /\ Owning(f) \in {0, 1}
  BY HoldingFinite DEF Owning
<1>5. Owning(f) = 0 /\ Cardinality(Holding(f)) = 0
  BY <1>3, <1>4
<1>6. CASE Forgotten(f)
  BY <1>2, <1>6 DEF Forgotten
<1>7. CASE OwnerRemoves(f)
  BY <1>5, <1>7 DEF OwnerRemoves, Owning
<1>8. ASSUME NEW s \in SendersOf(f), SenderRemoves(s) PROVE FALSE
  <2>1. s \in Sender /\ ConnOf[s] = f /\ Using(pc[s])
    BY <1>1, <1>8 DEF SenderRemoves, Using
  <2>2. Cardinality(Holding(f)) >= 1
    BY <2>1, HoldingCounts
  <2> QED BY <1>5, <2>2
<1> QED
  BY <1>1, <1>3, <1>6, <1>7, <1>8 DEF KillInv

\* The poll thread looks callbacks_ up without PollMgr's lock and never enters a
\* callback of a connection that decref has deleted.
THEOREM CallbackOnLiveCorrect == Spec => []CallbackOnLive
<1>1. ConnInv => CallbackOnLive
  BY NoneLeft
<1> QED
  BY <1>1, ConnInvCorrect, PTL

\* VERIFY(errno != EAGAIN) in readpdu and VERIFY(!wpdu_.buf) in ~connection never
\* fail: what select found readable stays so until read_cb, and the owner of wpdu_
\* holds a reference of its own.
THEOREM OtherAssertionsCorrect == Spec => []OtherAssertions
<1>1. ConnInv => OtherAssertions
  BY DEF ConnInv
<1> QED
  BY <1>1, ConnInvCorrect, PTL

=============================================================================
