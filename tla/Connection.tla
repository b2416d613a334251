----------------------------- MODULE Connection -----------------------------
(***************************************************************************)
(* connection, the object under every RPC: senders that share one socket   *)
(* through wpdu_, the two callbacks that the poll thread runs, the owner   *)
(* that closes and drops it, and the reference count that decides when it  *)
(* is deleted.  An action is one critical section of connection::m_ (or of *)
(* ref_m_), or one call into PollMgr made without m_.  The socket, the     *)
(* kernel's buffers and the peer are the environment.                      *)
(*                                                                         *)
(* Data is counted in units, not bytes: a PDU is OutSz or InSz units, the  *)
(* first HdrSz of which are its length field.                              *)
(***************************************************************************)
EXTENDS PollMgr, Sequences

CONSTANTS
  Sender,     \* the calls of connection::send, one PDU each
  ConnOf,     \* the connection each sender uses
  NIn,        \* how many PDUs the peer sends on each connection
  HdrSz,      \* units of the length field
  OutSz, InSz, \* units of a PDU that is sent, received
  SndBuf,     \* units the kernel buffers before the peer reads them
  Server,     \* the owner is a tcpsconn (rpcs), else an rpcc
  Lossy,      \* lossy_ # 0: send may shut the socket down first
  MayRefuse   \* the chanmgr may be unable to take a PDU (rpcs with a full pool)

ASSUME ConnConstants ==
  /\ ConnOf \in [Sender -> Fd]
  /\ NIn \in [Fd -> Nat]
  /\ HdrSz \in Nat \ {0} /\ OutSz \in Nat /\ InSz \in Nat /\ SndBuf \in Nat \ {0}
  /\ HdrSz < OutSz /\ HdrSz < InSz
  /\ Server \in BOOLEAN /\ Lossy \in BOOLEAN /\ MayRefuse \in BOOLEAN
  /\ Remover = Sender \cup Fd   \* a sender, or the owner of a connection
  /\ IsFiniteSet(Sender) /\ Sender \cap Fd = {} /\ "null" \notin Sender

VARIABLES
  dead_,
  wpdu_,     \* buf (the sender whose PDU it is, or NULL), sz, solong
  rpdu_,     \* buf (the units read so far), sz, solong = Len(buf)
  refno_,
  deleted,   \* the object was deleted and its descriptor closed
  owner,     \* the owner's place: tcpsconn or rpcc, which holds one reference
  pc,        \* each sender's place in send
  ret,       \* what send returned
  shut,      \* shutdown(fd_) was called
  gone,      \* the peer closed its end
  out,       \* the senders of the units that write accepted, in order
  acked,     \* how many of them the peer has read
  arrived,   \* how many units of the peer's stream have arrived
  eaten,     \* how many of those read has returned
  got,       \* history: the buffers that the chanmgr consumed
  eagain,    \* errno of the poll thread is EAGAIN
  failed     \* the assertion that aborted the process, or "none"

NULL == "null"

objVars  == <<dead_, wpdu_, rpdu_, refno_, deleted, owner>>
sendVars == <<pc, ret>>
sockVars == <<shut, gone, out, acked, arrived, eaten>>
vars == <<pollVars, objVars, sendVars, sockVars, got, eagain, failed>>

\* The calls of send on the connection f
SendersOf(f) == {s \in Sender : ConnOf[s] = f}

EmptyW == [buf |-> NULL, sz |-> 0, solong |-> 0]
EmptyR == [buf |-> <<>>, sz |-> 0]

Waiting == {"wait", "woken"}          \* in the first loop of send
Writing == {"complete", "signalled"}  \* in the second one
Removing == {"remove", "removing", "removed"} \* in block_remove_fd

TypeOK ==
  /\ PollTypeOK
  /\ dead_ \in [Fd -> BOOLEAN]
  /\ wpdu_ \in [Fd -> [buf : Sender \cup {NULL}, sz : {0, OutSz}, solong : -1 .. OutSz]]
  /\ rpdu_ \in [Fd -> [buf : Seq(Nat), sz : {0, InSz}]]
  /\ refno_ \in [Fd -> Nat]
  /\ deleted \in [Fd -> BOOLEAN]
  /\ owner \in [Fd -> {"none", "own", "remove", "removing", "drop", "dropped"}]
  /\ pc \in [Sender -> {"idle", "ref", "sent", "done"} \cup Waiting \cup Writing \cup Removing]
  /\ ret \in [Sender -> {"none", "true", "false"}]
  /\ shut \in [Fd -> BOOLEAN] /\ gone \in [Fd -> BOOLEAN]
  /\ out \in [Fd -> Seq(Sender)]
  /\ acked \in [Fd -> Nat] /\ arrived \in [Fd -> Nat] /\ eaten \in [Fd -> Nat]
  /\ got \in [Fd -> Seq(Seq(Nat))]
  /\ eagain \in BOOLEAN
  /\ failed \in {"none", "write_cb", "readpdu", "~connection"}

Init ==
  /\ PollInit
  /\ dead_ = [f \in Fd |-> FALSE]
  /\ wpdu_ = [f \in Fd |-> EmptyW]
  /\ rpdu_ = [f \in Fd |-> EmptyR]
  /\ refno_ = [f \in Fd |-> 0]
  /\ deleted = [f \in Fd |-> FALSE]
  /\ owner = [f \in Fd |-> "none"]
  /\ pc = [s \in Sender |-> "idle"]
  /\ ret = [s \in Sender |-> "none"]
  /\ shut = [f \in Fd |-> FALSE]
  /\ gone = [f \in Fd |-> FALSE]
  /\ out = [f \in Fd |-> <<>>]
  /\ acked = [f \in Fd |-> 0]
  /\ arrived = [f \in Fd |-> 0]
  /\ eaten = [f \in Fd |-> 0]
  /\ got = [f \in Fd |-> <<>>]
  /\ eagain = FALSE
  /\ failed = "none"

-----------------------------------------------------------------------------
(* The socket *)

Broken(f) == shut[f] \/ gone[f]
Room(f)   == SndBuf - (Len(out[f]) - acked[f])
Avail(f)  == arrived[f] - eaten[f]

ReadyR == {f \in Fd : Avail(f) > 0 \/ Broken(f)}
ReadyW == {f \in Fd : Room(f) > 0 \/ Broken(f)}

AtMost(n, m) == IF n <= m THEN n ELSE m

\* What write of n units may return: -1 is an error, 0 stands for EAGAIN.  After
\* shutdown it fails; when only the peer is gone, it may also still be accepted,
\* in part or as a whole.  (Such a socket is writable or in error, not full.)
WriteResults(f, n, down) ==
  IF down THEN {-1}
  ELSE IF gone[f] THEN {-1} \cup 1 .. n
  ELSE IF Room(f) <= 0 THEN {0}
  ELSE 1 .. AtMost(Room(f), n)

\* What read of n units at position pos may return: some units, the end of the
\* stream, EAGAIN, or another error.
ReadResults(f, pos, n) ==
  LET avail == arrived[f] - pos
  IN (IF avail > 0 THEN {<<"ok", AtMost(avail, n)>>}
      ELSE IF Broken(f) THEN {<<"end", 0>>} ELSE {<<"again", 0>>})
     \cup (IF gone[f] THEN {<<"error", 0>>} ELSE {})

\* The n units after position pos of the peer's stream, which is 1, 2, 3, ...
Units(pos, n) == [i \in 1 .. n |-> pos + i]

PeerSends(f) ==
  /\ ~Broken(f) /\ owner[f] # "none"
  /\ arrived[f] < NIn[f] * InSz
  /\ arrived' = [arrived EXCEPT ![f] = @ + 1]
  /\ UNCHANGED <<pollVars, objVars, sendVars, shut, gone, out, acked, eaten, got, eagain, failed>>

PeerReads(f) ==
  /\ ~gone[f]
  /\ acked[f] < Len(out[f])
  /\ acked' = [acked EXCEPT ![f] = Len(out[f])]
  /\ UNCHANGED <<pollVars, objVars, sendVars, shut, gone, out, arrived, eaten, got, eagain, failed>>

PeerCloses(f) ==
  /\ ~gone[f] /\ owner[f] # "none"
  /\ gone' = [gone EXCEPT ![f] = TRUE]
  /\ UNCHANGED <<pollVars, objVars, sendVars, shut, out, acked, arrived, eaten, got, eagain, failed>>

-----------------------------------------------------------------------------
(* The owner: the constructor, closeconn, and the reference it holds *)

\* Mutant: the creator's reference is not counted.
NoRefs(f) == 0

\* refno_(1): the creator holds a reference.
InitialRefs(f) == 1

\* connection::connection, made by tcpsconn::process_accept or connect_to_dst
connection(f) ==
  /\ owner[f] = "none"
  /\ owner' = [owner EXCEPT ![f] = "own"]
  /\ refno_' = [refno_ EXCEPT ![f] = InitialRefs(f)]
  /\ add_callback(f, CB_RDONLY)
  /\ UNCHANGED <<loopVars, dead_, wpdu_, rpdu_, deleted, sendVars, sockVars, got, eagain, failed>>

\* closeconn under m_, by ~tcpsconn at any moment, and by ~rpcc when no call is
\* under way.  On a dead connection it returns at once, which is also how
\* process_accept and get_refconn drop a dead connection.
closeconn(f) ==
  /\ owner[f] = "own"
  /\ Server \/ dead_[f] \/ \A s \in SendersOf(f) : pc[s] \in {"idle", "done"}
  /\ owner' = [owner EXCEPT ![f] = IF dead_[f] THEN "drop" ELSE "remove"]
  /\ dead_' = [dead_ EXCEPT ![f] = TRUE]
  /\ shut' = [shut EXCEPT ![f] = @ \/ ~dead_[f]]
  /\ UNCHANGED <<pollVars, wpdu_, rpdu_, refno_, deleted, sendVars, gone, out, acked, arrived,
                 eaten, got, eagain, failed>>

close_remove(f) ==
  /\ owner[f] = "remove"
  /\ owner' = [owner EXCEPT ![f] = "removing"]
  /\ block_remove_fd(f, f)
  /\ UNCHANGED <<loopVars, dead_, wpdu_, rpdu_, refno_, deleted, sendVars, sockVars, got,
                 eagain, failed>>

close_removed(f) ==
  /\ owner[f] = "removing"
  /\ owner' = [owner EXCEPT ![f] = "drop"]
  /\ removed_fd(f, f)
  /\ UNCHANGED <<loopVars, dead_, wpdu_, rpdu_, refno_, deleted, sendVars, sockVars, got,
                 eagain, failed>>

\* decref deletes a dead connection with its last reference; the destructor
\* asserts that no PDU is being sent.
decref(f) ==
  /\ refno_' = [refno_ EXCEPT ![f] = @ - 1]
  /\ deleted' = [deleted EXCEPT ![f] = refno_[f] = 1 /\ dead_[f]]
  /\ failed' = IF refno_[f] = 1 /\ dead_[f] /\ wpdu_[f].buf # NULL
               THEN "~connection" ELSE failed

owner_decref(f) ==
  /\ owner[f] = "drop"
  /\ owner' = [owner EXCEPT ![f] = "dropped"]
  /\ decref(f)
  /\ UNCHANGED <<pollVars, dead_, wpdu_, rpdu_, sendVars, sockVars, got, eagain>>

-----------------------------------------------------------------------------
(* connection::send, and the reference its caller holds meanwhile *)

\* rpcc::get_refconn or rpcs::got_pdu, through the owner's reference
incref(s) ==
  LET f == ConnOf[s]
  IN /\ pc[s] = "idle"
     /\ owner[f] = "own"
     /\ pc' = [pc EXCEPT ![s] = "ref"]
     /\ refno_' = [refno_ EXCEPT ![f] = @ + 1]
     /\ UNCHANGED <<pollVars, dead_, wpdu_, rpdu_, deleted, owner, ret, sockVars, got, eagain, failed>>

sender_decref(s) ==
  /\ pc[s] = "sent"
  /\ pc' = [pc EXCEPT ![s] = "done"]
  /\ decref(ConnOf[s])
  /\ UNCHANGED <<pollVars, dead_, wpdu_, rpdu_, owner, ret, sockVars, got, eagain>>

\* Mutant: the first loop of send tests dead_ only.
NeverBusy(f) == FALSE

Busy(f) == wpdu_[f].buf # NULL

\* The end of send: the result, wpdu_ is free again, and pthread_cond_broadcast
\* wakes the senders that wait for it.
send_finish(s, f, result) ==
  /\ ret' = [ret EXCEPT ![s] = IF result THEN "true" ELSE "false"]
  /\ wpdu_' = [wpdu_ EXCEPT ![f] = EmptyW]
  /\ pc' = [t \in Sender |-> IF t = s THEN "sent"
                             ELSE IF pc[t] = "wait" /\ ConnOf[t] = f THEN "woken" ELSE pc[t]]

\* The first write, under m_: it completes, or is continued by write_cb, or
\* fails and kills the connection.
send_write(s, f) ==
  \E down \in IF Lossy THEN {shut[f], TRUE} ELSE {shut[f]} :
  \E n \in WriteResults(f, OutSz, down) :
    /\ shut' = [shut EXCEPT ![f] = down]
    /\ out' = [out EXCEPT ![f] = @ \o [i \in 1 .. n |-> s]]
    /\ \/ /\ n = -1
          /\ dead_' = [dead_ EXCEPT ![f] = TRUE]
          /\ wpdu_' = [wpdu_ EXCEPT ![f] = [buf |-> s, sz |-> 0, solong |-> -1]]
          /\ pc' = [pc EXCEPT ![s] = "remove"]
          /\ UNCHANGED <<ret, aioVars, tabVars>>
       \/ /\ n = OutSz
          /\ send_finish(s, f, TRUE)
          /\ UNCHANGED <<dead_, aioVars, tabVars>>
       \/ /\ n \in 0 .. OutSz - 1
          /\ wpdu_' = [wpdu_ EXCEPT ![f] = [buf |-> s, sz |-> OutSz, solong |-> n]]
          /\ add_callback(f, CB_WRONLY)
          /\ pc' = [pc EXCEPT ![s] = "complete"]
          /\ UNCHANGED <<ret, dead_>>

send(s) ==
  LET f == ConnOf[s]
  IN /\ pc[s] \in {"ref", "woken"}
     /\ \/ /\ dead_[f]
           /\ pc' = [pc EXCEPT ![s] = "sent"]
           /\ ret' = [ret EXCEPT ![s] = "false"]
           /\ UNCHANGED <<aioVars, tabVars, dead_, wpdu_, shut, out>>
        \/ /\ ~dead_[f] /\ Busy(f)
           /\ pc' = [pc EXCEPT ![s] = "wait"]
           /\ UNCHANGED <<aioVars, tabVars, dead_, wpdu_, ret, shut, out>>
        \/ /\ ~dead_[f] /\ ~Busy(f)
           /\ send_write(s, f)
     /\ UNCHANGED <<loopVars, rpdu_, refno_, deleted, owner, gone, acked, arrived, eaten, got,
                    eagain, failed>>

\* Awake in the second loop of send
send_resume(s) ==
  LET f == ConnOf[s]
      w == wpdu_[f]
  IN /\ pc[s] = "signalled"
     /\ IF ~dead_[f] /\ w.solong >= 0 /\ w.solong < w.sz
        THEN pc' = [pc EXCEPT ![s] = "complete"] /\ UNCHANGED <<ret, wpdu_>>
        ELSE send_finish(s, f, ~dead_[f] /\ w.solong = w.sz)
     /\ UNCHANGED <<pollVars, dead_, rpdu_, refno_, deleted, owner, sockVars, got, eagain, failed>>

\* After a failed write: block_remove_fd without m_, and then the end of send
send_remove(s) ==
  /\ pc[s] = "remove"
  /\ pc' = [pc EXCEPT ![s] = "removing"]
  /\ block_remove_fd(s, ConnOf[s])
  /\ UNCHANGED <<loopVars, objVars, ret, sockVars, got, eagain, failed>>

send_removed(s) ==
  /\ pc[s] = "removing"
  /\ pc' = [pc EXCEPT ![s] = "removed"]
  /\ removed_fd(s, ConnOf[s])
  /\ UNCHANGED <<loopVars, objVars, ret, sockVars, got, eagain, failed>>

send_failed(s) ==
  /\ pc[s] = "removed"
  /\ send_finish(s, ConnOf[s], FALSE)
  /\ UNCHANGED <<pollVars, dead_, rpdu_, refno_, deleted, owner, sockVars, got, eagain, failed>>

-----------------------------------------------------------------------------
(* The callbacks, run by the poll thread under m_ *)

\* pthread_cond_signal(&send_complete_): at most one sender waits for it.
signal_complete(f) ==
  pc' = [s \in Sender |-> IF pc[s] = "complete" /\ ConnOf[s] = f THEN "signalled" ELSE pc[s]]

\* Mutant: the end of the connection is not signalled.
no_signal(f) == UNCHANGED pc

\* read_cb wakes the sender of a connection that it finds dead.
read_signal(f) == signal_complete(f)

write_cb(f) ==
  /\ ppc = "write" /\ cbfd = f
  /\ \/ /\ dead_[f]
        /\ failed' = "write_cb"    \* VERIFY(!dead_)
        /\ UNCHANGED <<pollVars, dead_, wpdu_, pc, out, eagain>>
     \/ /\ ~dead_[f] /\ wpdu_[f].sz = 0
        /\ del_callback(f, CB_WRONLY)
        /\ poll_return
        /\ UNCHANGED <<dead_, wpdu_, pc, out, eagain, failed>>
     \/ /\ ~dead_[f] /\ wpdu_[f].sz # 0 /\ wpdu_[f].solong = wpdu_[f].sz
        /\ signal_complete(f)
        /\ poll_return
        /\ UNCHANGED <<aioVars, tabVars, dead_, wpdu_, out, eagain, failed>>
     \/ /\ ~dead_[f] /\ wpdu_[f].sz # 0 /\ wpdu_[f].solong < wpdu_[f].sz
        /\ \E n \in WriteResults(f, wpdu_[f].sz - wpdu_[f].solong, shut[f]) :
             LET done == wpdu_[f].solong + n = wpdu_[f].sz
             IN /\ out' = [out EXCEPT ![f] = @ \o [i \in 1 .. n |-> wpdu_[f].buf]]
                /\ eagain' = IF n = 0 THEN TRUE ELSE IF n = -1 THEN FALSE ELSE eagain
                /\ dead_' = [dead_ EXCEPT ![f] = n = -1]
                /\ wpdu_' = [wpdu_ EXCEPT ![f].solong = IF n = -1 THEN -1 ELSE @ + n,
                                          ![f].sz = IF n = -1 THEN 0 ELSE @]
                /\ IF n = -1 \/ done THEN signal_complete(f) ELSE UNCHANGED pc
                /\ IF n = -1 THEN del_callback(f, CB_RDWR) ELSE UNCHANGED <<aioVars, tabVars>>
        /\ poll_return
        /\ UNCHANGED failed
  /\ UNCHANGED <<rpdu_, refno_, deleted, owner, ret, shut, gone, acked, arrived, eaten, got>>

\* An outcome of readpdu: what it returns, rpdu_.buf, the position in the stream
\* and whether errno is EAGAIN afterwards.
Outcome(succ, buf, pos, again) == [succ |-> succ, buf |-> buf, pos |-> pos, again |-> again]

\* The read of the body.  At the end of the stream read leaves errno alone, and
\* an EAGAIN from an earlier call counts as one from this call.
BodyRead(f, buf, pos) ==
  {CASE r[1] = "ok"    -> Outcome(TRUE, buf \o Units(pos, r[2]), pos + r[2], eagain)
     [] r[1] = "again" -> Outcome(TRUE, buf, pos, TRUE)
     [] r[1] = "end"   -> Outcome(eagain, IF eagain THEN buf ELSE <<>>, pos, eagain)
     [] OTHER          -> Outcome(FALSE, <<>>, pos, FALSE)
   : r \in ReadResults(f, pos, InSz - Len(buf))}

\* A length field that has arrived in part is a failure.
WholeHeader(n) == n = HdrSz

\* readpdu of a new PDU: the length field first, then what there is of the body
HeaderRead(f) ==
  UNION {IF r[1] = "ok" /\ WholeHeader(r[2])
         THEN BodyRead(f, Units(eaten[f], r[2]), eaten[f] + r[2])
         ELSE {Outcome(FALSE, <<>>, eaten[f] + r[2], eagain /\ r[1] # "error")}
         : r \in ReadResults(f, eaten[f], HdrSz)}

\* Mutant: a PDU is complete one unit after its end.
OverFull(r) == r.sz # 0 /\ Len(r.buf) > r.sz

\* rpdu_ holds a complete PDU.
Full(r) == r.sz # 0 /\ Len(r.buf) = r.sz

\* Mutant: a PDU that was consumed stays in rpdu_.
NotReset(r) == r

\* rpdu_ after the chanmgr has consumed it
Reset(r) == EmptyR

\* read_cb on a connection that is alive, after readpdu ended with o: a failure
\* is the end of the connection, and a complete PDU goes to the chanmgr.
AfterRead(f, o) ==
  LET r == [buf |-> o.buf, sz |-> IF o.buf = <<>> THEN 0 ELSE InSz]
  IN /\ eaten' = [eaten EXCEPT ![f] = o.pos]
     /\ eagain' = o.again
     /\ IF o.succ
        THEN UNCHANGED <<aioVars, tabVars, dead_, pc>>
        ELSE /\ del_callback(f, CB_RDWR)
             /\ dead_' = [dead_ EXCEPT ![f] = TRUE]
             /\ read_signal(f)
     /\ \/ /\ Full(r)
           /\ got' = [got EXCEPT ![f] = Append(@, r.buf)]
           /\ rpdu_' = [rpdu_ EXCEPT ![f] = Reset(r)]
        \/ /\ Full(r) => MayRefuse
           /\ rpdu_' = [rpdu_ EXCEPT ![f] = r]
           /\ UNCHANGED got

read_cb(f) ==
  /\ ppc = "read" /\ cbfd = f
  /\ \/ /\ dead_[f]
        /\ poll_return
        /\ UNCHANGED <<aioVars, tabVars, dead_, rpdu_, pc, eaten, got, eagain, failed>>
     \/ /\ ~dead_[f] /\ Full(rpdu_[f])
        /\ AfterRead(f, Outcome(TRUE, rpdu_[f].buf, eaten[f], eagain))
        /\ poll_return
        /\ UNCHANGED failed
     \/ /\ ~dead_[f] /\ rpdu_[f].sz # 0 /\ ~Full(rpdu_[f])
        /\ \E o \in BodyRead(f, rpdu_[f].buf, eaten[f]) : AfterRead(f, o)
        /\ poll_return
        /\ UNCHANGED failed
     \/ /\ ~dead_[f] /\ rpdu_[f].sz = 0
        /\ IF <<"again", 0>> \in ReadResults(f, eaten[f], HdrSz)
           THEN /\ failed' = "readpdu"    \* VERIFY(errno != EAGAIN)
                /\ UNCHANGED <<pollVars, dead_, rpdu_, pc, eaten, got, eagain>>
           ELSE /\ \E o \in HeaderRead(f) : AfterRead(f, o)
                /\ poll_return
                /\ UNCHANGED failed
  /\ UNCHANGED <<wpdu_, refno_, deleted, owner, ret, shut, gone, out, acked, arrived>>

-----------------------------------------------------------------------------
PollKeeps == UNCHANGED <<objVars, sendVars, sockVars, got, failed>>

PollSelect == poll_select(ReadyR, ReadyW) /\ UNCHANGED eagain /\ PollKeeps

\* errno is EINTR afterwards.
PollInterrupted == poll_eintr /\ eagain' = FALSE /\ PollKeeps

PollStep ==
  \/ (poll_top \/ poll_snapshot \/ poll_pick) /\ UNCHANGED eagain /\ PollKeeps
  \/ \E f \in Fd : read_cb(f) \/ write_cb(f)

SendStep(s) ==
  \/ send(s) \/ send_resume(s)
  \/ send_remove(s) \/ send_removed(s) \/ send_failed(s)
  \/ sender_decref(s)

CloseStep(f) == close_remove(f) \/ close_removed(f) \/ owner_decref(f)

Next ==
  /\ failed = "none"
  /\ \/ PollStep \/ PollSelect \/ PollInterrupted
     \/ \E s \in Sender : incref(s) \/ SendStep(s)
     \/ \E f \in Fd : connection(f) \/ closeconn(f) \/ CloseStep(f)
     \/ \E f \in Fd : PeerSends(f) \/ PeerReads(f) \/ PeerCloses(f)

Spec == Init /\ [][Next]_vars

\* Every thread that can take a step takes one, the poll thread among them, and
\* signals do not interrupt every select.  The peer reads what it is sent (it
\* runs the same poll loop) unless it goes away; it need not send.
FairSpec ==
  /\ Spec
  /\ WF_vars(failed = "none" /\ PollStep)
  /\ SF_vars(failed = "none" /\ PollSelect)
  /\ \A s \in Sender : WF_vars(failed = "none" /\ SendStep(s))
  /\ \A f \in Fd : WF_vars(failed = "none" /\ CloseStep(f))
  /\ \A f \in Fd : WF_vars(failed = "none" /\ PeerReads(f))

-----------------------------------------------------------------------------
(* Properties *)

\* Whatever the senders, the poll thread and the owner do, the units on the
\* wire are whole PDUs one after the other, with at most the last one torn:
\* wpdu_ belongs to one sender from its first write to its last.
WholePdus ==
  \A f \in Fd : \A i \in 1 .. Len(out[f]) :
    out[f][i] = out[f][OutSz * ((i - 1) \div OutSz) + 1]

\* The poll thread, which looks up callbacks_ without a lock, never enters a
\* callback of a connection that decref has deleted.
CallbackOnLive == ppc \in {"read", "write"} => ~deleted[cbfd]

\* Of the assertions on these paths, VERIFY(errno != EAGAIN) in readpdu and
\* VERIFY(!wpdu_.buf) in the destructor never fail.
OtherAssertions == failed \in {"none", "write_cb"}

\* What the peer's stream holds of the PDU with number k
PduUnits(k) == Units((k - 1) * InSz, InSz)

\* The PDU that a buffer holds, or 0 when it is not one whole PDU
PduOf(f, b) == IF \E k \in 1 .. NIn[f] : b = PduUnits(k)
               THEN CHOOSE k \in 1 .. NIn[f] : b = PduUnits(k) ELSE 0

\* The abstract state of PduChannel, for the connection f
LineOf(f) == [i \in 1 .. Len(out[f]) \div OutSz |-> out[f][i * OutSz]]
GotOf(f)  == [i \in 1 .. Len(got[f]) |-> PduOf(f, got[f][i])]
ResOf(f)  == [s \in SendersOf(f) |-> ret[s]]

Chan(f) == INSTANCE PduChannel WITH
  Sender <- SendersOf(f), NIn <- NIn[f], up <- ~dead_[f],
  line <- LineOf(f), got <- GotOf(f), res <- ResOf(f)

\* A connection implements the channel of PduChannel: partial reads and writes,
\* waiting senders, callbacks and the removal from the poll loop all map to
\* whole PDUs that are sent and received one at a time until the connection dies.
ImplementsPduChannel ==
  /\ \A f \in Fd : Chan(f)!Init
  /\ [][\A f \in Fd : [Chan(f)!Next]_(Chan(f)!vars)]_vars

\* send returns, if the process does not abort and the owner does not close the
\* connection meanwhile: every wait in it is ended by the poll thread, by another
\* sender or by the end of the connection.
SendReturns ==
  \A s \in Sender :
    pc[s] = "ref" ~> (pc[s] = "done" \/ failed # "none" \/ owner[ConnOf[s]] = "remove")

\* block_remove_fd returns: the self-pipe gets the poll thread out of select,
\* and the broadcast at the top of its loop is not lost.
RemoveReturns == \A t \in Remover : t \in changedone_c_ ~> (t \notin changedone_c_ \/ failed # "none")

\* A connection whose peer is gone is found dead, unless the peer left in the
\* middle of a PDU (or the chanmgr keeps refusing one).
EofNoticed ==
  \A f \in Fd : gone[f] ~> (dead_[f] \/ rpdu_[f].sz # 0 \/ failed # "none")

\* A PDU that has arrived is consumed, or held in rpdu_ because the chanmgr
\* refused it, or lost with its connection.
PduConsumed ==
  \A f \in Fd : \A k \in 1 .. NIn[f] :
    arrived[f] >= k * InSz ~>
      (Len(got[f]) >= k \/ Full(rpdu_[f]) \/ dead_[f] \/ failed # "none")

\* write_cb's own assertion, VERIFY(!dead_)
WriteCbAlive == failed # "write_cb"

-----------------------------------------------------------------------------
(* The inductive invariant behind the safety properties *)

\* Where the poll thread is: highfds_ covers the pipe, a thread that waits for
\* changedone_c_ has announced a change, and a round starts with empty sets.
LoopInv ==
  /\ highfds_ >= PipeFd
  /\ changedone_c_ # {} => pending_change_
  /\ ppc \in {"top", "snapshot"} => readable = {} /\ writable = {}
  /\ ppc \in {"read", "write"} => cbfd \in Fd \ readable

\* A connection that has not been made is unknown to everybody.
UnmadeInv ==
  \A f \in Fd : owner[f] = "none" =>
    /\ ~dead_[f]
    /\ f \notin rfds_ \cup wfds_ \cup callbacks_ \cup readable \cup writable
    /\ ppc \in {"read", "write"} => cbfd # f
    /\ \A s \in SendersOf(f) : pc[s] = "idle"

\* The references to f: the owner's, and one for each call of send.
Owning(f)  == IF owner[f] \in {"own", "remove", "removing", "drop"} THEN 1 ELSE 0
Holding(f) == {s \in Sender : ConnOf[s] = f /\ pc[s] \notin {"idle", "done"}}

RefsInv ==
  \A f \in Fd : /\ refno_[f] = Owning(f) + Cardinality(Holding(f))
                /\ deleted[f] => refno_[f] = 0 /\ dead_[f]

\* wpdu_ belongs to the sender that is between its first write and the end of
\* send, and as long as the connection is alive to nobody who has failed.
BufInv ==
  \A f \in Fd :
    /\ wpdu_[f].buf = NULL => wpdu_[f] = EmptyW
    /\ wpdu_[f].buf # NULL => /\ ConnOf[wpdu_[f].buf] = f
                              /\ pc[wpdu_[f].buf] \in Writing \cup Removing
    /\ wpdu_[f].buf # NULL /\ ~dead_[f] => wpdu_[f].sz = OutSz
    /\ wpdu_[f].sz # 0 => wpdu_[f].solong >= 0
    /\ \A s \in SendersOf(f) : pc[s] \in Writing \cup Removing => wpdu_[f].buf = s

\* While f is alive, what is on the wire ends with the part of the PDU in wpdu_
\* that has been written, behind k whole PDUs.
LineInv ==
  \A f \in Fd : ~dead_[f] =>
    \E k \in Nat : /\ Len(out[f]) = OutSz * k + wpdu_[f].solong
                   /\ \A i \in OutSz * k + 1 .. Len(out[f]) : out[f][i] = wpdu_[f].buf

\* The poll thread is through with f: neither this round nor a later one calls a
\* callback of f.
Forgotten(f) ==
  /\ f \notin rfds_ \cup wfds_
  /\ f \in callbacks_ => f \notin readable \cup writable
  /\ ppc \in {"read", "write"} => cbfd # f

\* The thread t is about to remove f from the poll manager, or waits there.
SenderRemoves(s) == pc[s] = "remove" \/ (pc[s] = "removing" /\ s \in changedone_c_)
OwnerRemoves(f)  == owner[f] = "remove" \/ (owner[f] = "removing" /\ f \in changedone_c_)

\* A dead connection is forgotten, or whoever found it dead is on his way to have
\* it forgotten and still refers to it.
KillInv ==
  \A f \in Fd :
    /\ dead_[f] => \/ Forgotten(f) \/ OwnerRemoves(f)
                   \/ \E s \in SendersOf(f) : SenderRemoves(s)
    /\ owner[f] \in {"remove", "removing", "drop", "dropped"} => dead_[f]
    /\ owner[f] = "removing" => f \notin rfds_ \cup wfds_
    /\ \A s \in SendersOf(f) : pc[s] \in Removing => dead_[f]
    /\ \A s \in SendersOf(f) : pc[s] = "removing" => f \notin rfds_ \cup wfds_

\* What the round has yet to read can be read: only read_cb takes data away.
Readable(f) == Avail(f) > 0 \/ Broken(f)

ReadInv ==
  /\ ppc \in {"pick", "read", "write"} => \A f \in readable : Readable(f)
  /\ ppc = "read" => Readable(cbfd)
  /\ \A f \in Fd : Len(rpdu_[f].buf) <= InSz

\* What the peer sent and read_cb took is the PDUs in got and then the part in
\* rpdu_, in the order of the stream.
StreamInv ==
  \A f \in Fd :
    /\ eaten[f] <= arrived[f] /\ arrived[f] <= NIn[f] * InSz
    /\ Len(got[f]) <= NIn[f]
    /\ \A i \in 1 .. Len(got[f]) : got[f][i] = PduUnits(i)
    /\ ~dead_[f] =>
         /\ eaten[f] = Len(got[f]) * InSz + Len(rpdu_[f].buf)
         /\ rpdu_[f].buf = Units(Len(got[f]) * InSz, Len(rpdu_[f].buf))
         /\ rpdu_[f].sz = 0 => rpdu_[f].buf = <<>>

\* A sender's PDU goes to the wire once: there is nothing of it before its first
\* write, and before the part that wpdu_ counts.  Until the end of send there is
\* no result.
OnceInv ==
  /\ \A s \in Sender : pc[s] \in {"idle", "ref"} \cup Waiting =>
       \A i \in 1 .. Len(out[ConnOf[s]]) : out[ConnOf[s]][i] # s
  /\ \A s \in Sender : pc[s] \notin {"sent", "done"} => ret[s] = "none"
  /\ \A f \in Fd : ~dead_[f] =>
       \A i \in 1 .. Len(out[f]) - wpdu_[f].solong : out[f][i] # wpdu_[f].buf

ConnInv ==
  /\ TypeOK /\ LoopInv /\ UnmadeInv /\ RefsInv /\ BufInv /\ LineInv /\ WholePdus
  /\ KillInv /\ ReadInv /\ OtherAssertions

=============================================================================
