----------------------------- MODULE RpcProofs ------------------------------
(***************************************************************************)
(* Theorems about Rpc, for every set of threads and of jobs and for every  *)
(* bound.  The first part: MessagesInv says what the threads, the jobs and *)
(* the connections hold, ExecutionInv what the server knows of what it has *)
(* executed.  The second part is about what callers are told: a success    *)
(* means that the call was executed, a refusal that it was not and never   *)
(* will be, and as long as a caller waits the server keeps its reply.  Its *)
(* first lemmas say what a step can do to the messages, to the callers and *)
(* to the results; the invariants follow from these alone.                 *)
(***************************************************************************)
EXTENDS Rpc, Integers, WellFoundedInduction, TLAPS

-----------------------------------------------------------------------------
(* The window of answered xids: what update_xid_rep does to it *)

\* A non-empty set of naturals has a least element.
LEMMA LeastExists ==
  ASSUME NEW W \in SUBSET Nat, W # {}
  PROVE  \E f \in W : \A y \in W : f <= y
<1>1. IsWellFoundedOn(OpToRel(<, Nat), Nat)
  BY NatLessThanWellFounded
<1>2. PICK f \in W : \A y \in W : <<y, f>> \notin OpToRel(<, Nat)
  BY <1>1, WFMin, Zenon
<1>3. \A y \in W : <<y, f>> \in OpToRel(<, Nat) <=> y < f
  BY DEF OpToRel
<1>4. \A y \in W : ~(y < f)
  BY <1>2, <1>3, Zenon
<1> QED
  BY <1>4

\* A non-empty set of naturals with an upper bound has a greatest element.
LEMMA GreatestExists ==
  ASSUME NEW W \in SUBSET Nat, W # {}, NEW b \in Nat, \A y \in W : y <= b
  PROVE  \E m \in W : \A y \in W : y <= m
<1> DEFINE D == {d \in Nat : b - d \in W}
<1>1. PICK w \in W : TRUE
  OBVIOUS
<1>2. b - w \in D
  <2>1. w \in Nat /\ w <= b
    BY <1>1
  <2>2. b - w \in Nat /\ b - (b - w) = w
    BY <2>1
  <2> QED BY <2>2
<1>3. PICK d \in D : \A e \in D : d <= e
  <2>1. D \in SUBSET Nat /\ D # {}
    BY <1>2
  <2> HIDE DEF D
  <2> QED BY <2>1, LeastExists
<1>4. ASSUME NEW y \in W
      PROVE  y <= b - d
  <2>1. b - y \in Nat /\ b - (b - y) = y
    OBVIOUS
  <2>2. b - y \in D
    BY <2>1
  <2>3. d <= b - y
    BY <1>3, <2>2
  <2> QED BY <2>3, <1>3
<1> QED
  BY <1>3, <1>4

\* The front of a window is its least element.
LEMMA FrontLeast ==
  ASSUME NEW W \in SUBSET Nat, W # {}
  PROVE  Front(W) \in W /\ \A y \in W : Front(W) <= y
<1>1. \E f \in W : \A y \in W : f <= y
  BY LeastExists
<1> QED
  BY <1>1 DEF Front

\* An xid above the front that is not in a bounded window stays above the
\* front when the window is compressed: the client never acknowledges a call
\* that has not been answered.
LEMMA CompressKeepsGaps ==
  ASSUME NEW W \in SUBSET Nat, W # {}, NEW x \in Nat, x \notin W, Front(W) < x
  PROVE  \E z \in Compress(W) : z < x
<1> DEFINE B == {z \in W : z < x}
<1>1. B \in SUBSET Nat /\ B # {} /\ \A z \in B : z <= x
  <2>1. Front(W) \in W
    BY FrontLeast
  <2>2. Front(W) \in B
    BY <2>1
  <2>3. B \in SUBSET Nat
    OBVIOUS
  <2>4. ASSUME NEW z \in B PROVE z <= x
    <3>1. z \in Nat /\ z < x
      OBVIOUS
    <3> QED BY <3>1
  <2> QED BY <2>2, <2>3, <2>4
<1>2. PICK m \in B : \A z \in B : z <= m
  <2> HIDE DEF B
  <2> QED BY <1>1, GreatestExists
<1>3. m \in W /\ m < x
  BY <1>2
<1>4. m + 1 \notin W
  <2> SUFFICES ASSUME m + 1 \in W PROVE FALSE
    OBVIOUS
  <2>1. m + 1 # x
    OBVIOUS
  <2>2. m + 1 < x
    BY <1>3, <2>1
  <2>3. m + 1 \in B
    BY <2>2
  <2> QED BY <1>2, <2>3, <1>3
<1>5. m \in Compress(W)
  BY <1>3, <1>4 DEF Compress
<1> QED
  BY <1>3, <1>5

\* A bounded window is not emptied by compression.
LEMMA CompressNonEmpty ==
  ASSUME NEW W \in SUBSET Nat, W # {}, NEW b \in Nat, \A y \in W : y <= b
  PROVE  Compress(W) # {} /\ Compress(W) \subseteq W
<1>1. PICK m \in W : \A y \in W : y <= m
  BY GreatestExists
<1>2. m + 1 \notin W
  BY <1>1
<1>3. m \in Compress(W)
  BY <1>1, <1>2 DEF Compress
<1> QED
  BY <1>3 DEF Compress

\* update_xid_rep keeps the window non-empty and adds nothing but the xid.
LEMMA UpdateWindow ==
  ASSUME NEW b \in Nat, NEW W \in SUBSET (0 .. b), W # {}, NEW x \in 0 .. b
  PROVE  update_xid_rep(W, x) # {} /\ update_xid_rep(W, x) \subseteq W \cup {x}
<1> DEFINE V == W \cup {x}
<1>1. V \in SUBSET Nat /\ V # {} /\ \A y \in V : y <= b
  OBVIOUS
<1>2. Compress(V) # {} /\ Compress(V) \subseteq V
  <2> HIDE DEF V
  <2> QED BY <1>1, CompressNonEmpty
<1> QED
  BY <1>2 DEF update_xid_rep

\* Answering y leaves a gap at every other xid that was one, and the front
\* below it.
LEMMA UpdateKeepsGaps ==
  ASSUME NEW b \in Nat, NEW W \in SUBSET (0 .. b), W # {}, NEW x \in Nat, NEW y \in 0 .. b,
         x \notin W, Front(W) < x, x # y
  PROVE  x \notin update_xid_rep(W, y) /\ Front(update_xid_rep(W, y)) < x
<1> DEFINE V == W \cup {y}
<1>1. CASE y <= Front(W)
  BY <1>1 DEF update_xid_rep
<1>2. CASE ~(y <= Front(W))
  <2>1. V \in SUBSET Nat /\ V # {} /\ x \notin V /\ \A z \in V : z <= b
    OBVIOUS
  <2>2. Front(W) \in W /\ Front(W) \in Nat
    <3>1. W \in SUBSET Nat
      OBVIOUS
    <3> QED BY <3>1, FrontLeast
  <2>3. Front(V) \in Nat /\ Front(V) <= Front(W)
    <3>1. Front(W) \in V
      BY <2>2
    <3> HIDE DEF V
    <3>2. Front(V) \in V /\ \A z \in V : Front(V) <= z
      BY <2>1, FrontLeast
    <3> QED BY <2>1, <3>1, <3>2
  <2>4. Front(V) < x
    BY <2>2, <2>3
  <2> HIDE DEF V
  <2>5. PICK z \in Compress(V) : z < x
    BY <2>1, <2>4, CompressKeepsGaps
  <2>6. Compress(V) # {} /\ Compress(V) \subseteq V
    BY <2>1, CompressNonEmpty
  <2>7. Front(Compress(V)) \in Compress(V) /\ Front(Compress(V)) <= z
    BY <2>1, <2>5, <2>6, FrontLeast
  <2>8. Front(Compress(V)) \in Nat /\ z \in Nat
    BY <2>1, <2>5, <2>6, <2>7
  <2>9. Front(Compress(V)) < x /\ x \notin Compress(V)
    BY <2>1, <2>5, <2>6, <2>7, <2>8
  <2> QED BY <1>2, <2>9 DEF update_xid_rep, V
<1> QED
  BY <1>1, <1>2

-----------------------------------------------------------------------------
(* Facts about the data *)

Outcome == [srv : 0 .. MaxNonce, ret : Ret, from : 0 .. MaxNonce]

\* The empty request is not a request.
LEMMA NoReqFacts == NoReq \notin Request /\ NoReq.xid = 0
BY DEF NoReq, Request, Xid

\* The caller of a thread outside call1, an idle job and an open outcome are
\* well typed.
LEMMA EmptyTypes == NoCall \in Caller /\ IdleJob \in Job /\ Open \in Outcome
<1> USE ChanConstants, ClientConstants
<1>1. 0 \in 0 .. MaxNonce /\ 0 \in 0 .. MaxConn /\ 0 \in 0 .. MaxRetrans
  OBVIOUS
<1>2. "none" \in Ret
  BY DEF Ret
<1>3. NoCall \in Caller
  BY <1>1, <1>2 DEF NoCall, Caller
<1>4. IdleJob \in Job
  BY <1>1 DEF IdleJob, Job, JobPC
<1>5. Open \in Outcome
  BY <1>1, <1>2 DEF Open, Outcome
<1> QED
  BY <1>3, <1>4, <1>5

\* Nothing about a caller that holds no request can be wrong.
LEMMA EmptyOK ==
  ASSUME NEW n
  PROVE  WellFormed(NoCall.req, n) /\ WellFormed(NoCall.forgot, n) /\ WellFormed(IdleJob.req, n)
BY DEF NoCall, IdleJob, WellFormed

-----------------------------------------------------------------------------
(* The initial state *)

\* The initial state satisfies the invariant about messages.
LEMMA InitMessages == Init => MessagesInv
<1> SUFFICES ASSUME Init PROVE MessagesInv
  OBVIOUS
<1> USE ChanConstants, ClientConstants DEF Init, ChanInit, ClientInit, ServerInit
<1>1. ChanInv
  BY DEF ChanInv, ChanTypeOK
<1>2. ClientTypeOK
  <2>1. ca \in [Thread -> Caller] /\ outcome \in [Xid -> Outcome]
    BY EmptyTypes
  <2>2. pc \in [Thread -> PC]
    BY DEF PC
  <2>3. xid \in 1 .. MaxXid + 1
    OBVIOUS
  <2>4. srv_nonce \in 0 .. MaxNonce /\ chan \in 0 .. MaxConn
    OBVIOUS
  <2>5. win \in SUBSET (0 .. MaxXid)
    OBVIOUS
  <2>6. xid_rep_done \in -1 .. MaxXid
    OBVIOUS
  <2> QED BY <2>1, <2>2, <2>3, <2>4, <2>5, <2>6 DEF ClientTypeOK, Outcome
<1>3. ClientInv
  BY <1>2, EmptyOK DEF ClientInv, CallerOK, WellFormed
<1>4. ServerInv
  BY EmptyTypes, EmptyOK DEF ServerInv, ServerTypeOK, EmptyWindow, Nonce, JobOK, IdleJob
<1> QED
  BY <1>1, <1>3, <1>4 DEF MessagesInv

-----------------------------------------------------------------------------
(* The connections *)

\* Losing one end of a connection.
LEMMA EndDiesKeepsChan ==
  ASSUME ChanInv, xid' = xid, NEW k \in Conn, ClientEndDies(k) \/ ServerEndDies(k)
  PROVE  ChanInv'
<1>1. CASE ClientEndDies(k)
  <2>1. s2c' \in [Conn -> Seq(Reply)] /\ \A j \in Conn : j # k => s2c'[j] = s2c[j]
    BY <1>1 DEF ClientEndDies, ChanInv, ChanTypeOK
  <2>2. s2c'[k] = <<>>
    BY <1>1 DEF ClientEndDies, ChanInv, ChanTypeOK
  <2>3. ChanTypeOK'
    BY <1>1, <2>1 DEF ClientEndDies, ChanInv, ChanTypeOK
  <2> QED
    BY <1>1, <2>1, <2>2, <2>3 DEF ClientEndDies, ChanInv
<1>2. CASE ServerEndDies(k)
  <2>1. c2s' \in [Conn -> Seq(Request)] /\ \A j \in Conn : j # k => c2s'[j] = c2s[j]
    BY <1>2 DEF ServerEndDies, ChanInv, ChanTypeOK
  <2>2. c2s'[k] = <<>>
    BY <1>2 DEF ServerEndDies, ChanInv, ChanTypeOK
  <2>3. ChanTypeOK'
    BY <1>2, <2>1 DEF ServerEndDies, ChanInv, ChanTypeOK
  <2> QED
    BY <1>2, <2>1, <2>2, <2>3 DEF ServerEndDies, ChanInv
<1> QED
  BY <1>1, <1>2

\* connection::send at the client's end.
LEMMA ClientSendKeepsChan ==
  ASSUME ChanInv, xid' = xid, NEW k \in Conn, NEW m \in Request, WellFormed(m, xid),
         ClientSend(k, m)
  PROVE  ChanInv'
<1>1. CASE ClientEndDies(k)
  BY <1>1, EndDiesKeepsChan
<1>2. CASE /\ c2s' = [c2s EXCEPT ![k] = IF sdead[k] THEN @ ELSE Append(@, m)]
           /\ UNCHANGED <<nconn, cdead, sdead, s2c>>
  <2>1. c2s[k] \in Seq(Request)
    BY DEF ChanInv, ChanTypeOK
  <2>2. /\ c2s' \in [Conn -> Seq(Request)]
        /\ \A j \in Conn : j # k => c2s'[j] = c2s[j]
        /\ c2s'[k] = c2s[k] \/ c2s'[k] = Append(c2s[k], m)
    BY <1>2, <2>1 DEF ChanInv, ChanTypeOK
  <2>3. ChanTypeOK'
    BY <1>2, <2>2 DEF ChanInv, ChanTypeOK
  <2>4. \A i \in 1 .. Len(c2s'[k]) : WellFormed(c2s'[k][i], xid)
    BY <2>1, <2>2 DEF ChanInv
  <2>5. \A j \in Conn : \A i \in 1 .. Len(c2s'[j]) : WellFormed(c2s'[j][i], xid)
    BY <2>2, <2>4 DEF ChanInv
  <2> QED
    BY <1>2, <2>3, <2>5 DEF ChanInv
<1> QED
  BY <1>1, <1>2 DEF ClientSend

\* connection::send at the server's end.
LEMMA ServerSendKeepsChan ==
  ASSUME ChanInv, xid' = xid, NEW k \in Conn, NEW m \in Reply, m.xid < xid, ServerSend(k, m)
  PROVE  ChanInv'
<1>1. CASE ServerEndDies(k)
  BY <1>1, EndDiesKeepsChan
<1>2. CASE /\ s2c' = [s2c EXCEPT ![k] = IF cdead[k] THEN @ ELSE Append(@, m)]
           /\ UNCHANGED <<nconn, cdead, sdead, c2s>>
  <2>1. s2c[k] \in Seq(Reply)
    BY DEF ChanInv, ChanTypeOK
  <2>2. /\ s2c' \in [Conn -> Seq(Reply)]
        /\ \A j \in Conn : j # k => s2c'[j] = s2c[j]
        /\ s2c'[k] = s2c[k] \/ s2c'[k] = Append(s2c[k], m)
    BY <1>2, <2>1 DEF ChanInv, ChanTypeOK
  <2>3. ChanTypeOK'
    BY <1>2, <2>2 DEF ChanInv, ChanTypeOK
  <2>4. \A i \in 1 .. Len(s2c'[k]) : s2c'[k][i].xid < xid
    BY <2>1, <2>2 DEF ChanInv
  <2> QED
    BY <1>2, <2>2, <2>3, <2>4 DEF ChanInv
<1> QED
  BY <1>1, <1>2 DEF ServerSend

-----------------------------------------------------------------------------
(* Components that a step leaves alone *)

\* A step that leaves the connections and xid_ alone keeps ChanInv.
LEMMA ChanUnchanged ==
  ASSUME ChanInv, UNCHANGED <<chanVars, xid>>
  PROVE  ChanInv'
BY DEF ChanInv, ChanTypeOK, chanVars

\* A step that leaves the server and xid_ alone keeps ServerInv.
LEMMA ServerUnchanged ==
  ASSUME ServerInv, UNCHANGED <<serverVars, xid>>
  PROVE  ServerInv'
BY DEF ServerInv, ServerTypeOK, serverVars, JobOK

\* A step that leaves the client alone keeps ClientInv.
LEMMA ClientUnchanged ==
  ASSUME ClientInv, UNCHANGED clientVars
  PROVE  ClientInv'
BY DEF ClientInv, ClientTypeOK, clientVars, CallerOK

-----------------------------------------------------------------------------
(* The threads inside call1 *)

\* A step that moves thread t to l and leaves it with the caller c.
LEMMA ThreadStep ==
  ASSUME ClientInv, xid' = xid, NEW t \in Thread, NEW c \in Caller, NEW l \in PC,
         pc' = [pc EXCEPT ![t] = l], ca' = [ca EXCEPT ![t] = c],
         WellFormed(c.req, xid), WellFormed(c.forgot, xid),
         l # "idle" => c.req \in Request,
         l \in {"dup", "forgot", "send"} => c.ch \in Conn,
         l = "forgot" => c.forgot \in Request
  PROVE  /\ pc' \in [Thread -> PC] /\ ca' \in [Thread -> Caller]
         /\ \A u \in Thread : CallerOK(u)'
<1>1. pc' \in [Thread -> PC] /\ ca' \in [Thread -> Caller]
  BY DEF ClientInv, ClientTypeOK
<1>2. CallerOK(t)'
  <2>1. pc'[t] = l /\ ca'[t] = c
    BY DEF ClientInv, ClientTypeOK
  <2> QED BY <2>1 DEF CallerOK
<1>3. ASSUME NEW u \in Thread, u # t
      PROVE  CallerOK(u)'
  <2>1. pc'[u] = pc[u] /\ ca'[u] = ca[u]
    BY <1>3 DEF ClientInv, ClientTypeOK
  <2> QED BY <2>1 DEF CallerOK, ClientInv
<1> QED
  BY <1>1, <1>2, <1>3

\* What a thread inside call1 holds.
LEMMA CallerFacts ==
  ASSUME ClientInv, NEW t \in Thread
  PROVE  /\ ca[t] \in Caller /\ pc[t] \in PC
         /\ WellFormed(ca[t].req, xid) /\ WellFormed(ca[t].forgot, xid)
         /\ pc[t] # "idle" => ca[t].req \in Request
         /\ pc[t] \in {"dup", "forgot", "send"} => ca[t].ch \in Conn
         /\ pc[t] = "forgot" => ca[t].forgot \in Request
         /\ [ca EXCEPT ![t] = ca[t]] = ca
BY DEF ClientInv, ClientTypeOK, CallerOK

\* A request stays well formed when another call is made.
LEMMA WellFormedNext ==
  ASSUME NEW r \in Request \cup {NoReq}, NEW n \in Nat, WellFormed(r, n)
  PROVE  WellFormed(r, n + 1)
BY DEF WellFormed, Request, Xid

\* The start of rpcc::call1, which takes the next xid and packs the front of the window as xid_rep, keeps MessagesInv.
LEMMA call1_Inv ==
  ASSUME MessagesInv, NEW t \in Thread, NEW p \in Proc, call1(t, p), UNCHANGED serverVars
  PROVE  MessagesInv'
<1> USE ChanConstants, ClientConstants
<1> DEFINE r == [xid |-> xid, proc |-> p, srv |-> srv_nonce, rep |-> Front(win)]
<1>1. ClientInv
  BY DEF MessagesInv
<1>2. Front(win) \in 0 .. xid - 1 /\ xid \in Xid
  <2>1. win \in SUBSET Nat /\ win # {}
    BY <1>1 DEF ClientInv, ClientTypeOK
  <2>2. Front(win) \in win
    BY <2>1, FrontLeast
  <2>3. Front(win) \in 0 .. xid - 1
    BY <1>1, <2>2 DEF ClientInv
  <2>4. xid <= MaxXid
    BY DEF call1
  <2> QED BY <1>1, <2>3, <2>4 DEF ClientInv, ClientTypeOK, Xid
<1>3. r \in Request /\ r.xid = xid /\ r.rep < r.xid
  BY <1>1, <1>2 DEF ClientInv, ClientTypeOK, Xid, Request
<1> HIDE DEF r
<1> DEFINE c == [NoCall EXCEPT !.req = r]
<1>4. /\ pc' = [pc EXCEPT ![t] = "conn"]
      /\ ca' = [ca EXCEPT ![t] = c]
      /\ xid' = xid + 1
      /\ outcome' = [outcome EXCEPT ![xid].srv = srv_nonce]
      /\ UNCHANGED <<bind_done, srv_nonce, chan, destroy_wait, win, dup_req,
                     xid_rep_done, cpc, chanVars>>
  BY DEF call1, r, Goto
<1>5. c \in Caller /\ c.req = r /\ c.forgot = NoReq
  BY <1>3, EmptyTypes DEF Caller, NoCall
<1> HIDE DEF c
<1>6. xid \in Nat /\ xid' = xid + 1
  BY <1>2, <1>4 DEF Xid
<1>7. ClientTypeOK'
  <2>1. pc' \in [Thread -> PC] /\ ca' \in [Thread -> Caller]
    BY <1>1, <1>4, <1>5 DEF ClientInv, ClientTypeOK, PC
  <2>2. xid' \in 1 .. MaxXid + 1
    BY <1>2, <1>4 DEF Xid
  <2>3. outcome' \in [Xid -> Outcome]
    BY <1>1, <1>2, <1>4 DEF ClientInv, ClientTypeOK, Outcome
  <2> QED BY <1>1, <1>4, <2>1, <2>2, <2>3 DEF ClientInv, ClientTypeOK, Outcome
<1>8. ASSUME NEW u \in Thread PROVE CallerOK(u)'
  <2>1. CASE u = t
    <3>1. pc'[t] = "conn" /\ ca'[t] = c
      BY <1>1, <1>4 DEF ClientInv, ClientTypeOK
    <3>2. WellFormed(r, xid') /\ WellFormed(NoReq, xid')
      BY <1>3, <1>6 DEF WellFormed
    <3> QED BY <2>1, <3>1, <3>2, <1>3, <1>5 DEF CallerOK
  <2>2. CASE u # t
    <3>1. pc'[u] = pc[u] /\ ca'[u] = ca[u]
      BY <1>1, <1>4, <2>2 DEF ClientInv, ClientTypeOK
    <3>2. ca[u].req \in Request \cup {NoReq} /\ ca[u].forgot \in Request \cup {NoReq}
      BY <1>1, CallerFacts DEF Caller
    <3>3. WellFormed(ca[u].req, xid') /\ WellFormed(ca[u].forgot, xid')
      BY <1>1, <1>6, <3>2, CallerFacts, WellFormedNext
    <3> QED BY <1>1, <3>1, <3>3, CallerFacts DEF CallerOK
  <2> QED BY <2>1, <2>2
<1>9. ClientInv'
  <2>1. WellFormed(dup_req, xid)'
    BY <1>1, <1>4, <1>6, WellFormedNext DEF ClientInv, ClientTypeOK
  <2>2. win' # {} /\ win' \subseteq 0 .. xid' - 1
    BY <1>1, <1>4 DEF ClientInv, ClientTypeOK
  <2> QED BY <1>7, <1>8, <2>1, <2>2 DEF ClientInv
<1>10. ChanInv'
  <2>1. ASSUME NEW k \in Conn, NEW i \in 1 .. Len(c2s[k])
        PROVE  WellFormed(c2s[k][i], xid')
    <3>1. c2s[k][i] \in Request /\ WellFormed(c2s[k][i], xid)
      BY DEF MessagesInv, ChanInv, ChanTypeOK
    <3> QED BY <1>6, <3>1, WellFormedNext
  <2>2. ASSUME NEW k \in Conn, NEW i \in 1 .. Len(s2c[k])
        PROVE  s2c[k][i].xid < xid'
    <3>1. s2c[k][i] \in Reply /\ s2c[k][i].xid < xid
      BY DEF MessagesInv, ChanInv, ChanTypeOK
    <3>2. s2c[k][i].xid \in Nat
      BY <3>1 DEF Reply, Xid
    <3> QED BY <1>6, <3>1, <3>2
  <2>3. ChanTypeOK' /\ c2s' = c2s /\ s2c' = s2c
    BY <1>4 DEF chanVars, MessagesInv, ChanInv, ChanTypeOK
  <2> QED BY <2>1, <2>2, <2>3 DEF ChanInv
<1>11. ServerInv'
  <2>1. ASSUME NEW w \in Worker PROVE JobOK(w)'
    <3>1. job[w].req \in Request \cup {NoReq} /\ JobOK(w) /\ job' = job
      BY DEF MessagesInv, ServerInv, ServerTypeOK, Job, serverVars
    <3>2. WellFormed(job[w].req, xid')
      BY <1>6, <3>1, WellFormedNext DEF JobOK
    <3> QED BY <3>1, <3>2 DEF JobOK
  <2>2. ServerTypeOK'
    BY DEF MessagesInv, ServerInv, ServerTypeOK, serverVars
  <2> QED BY <2>1, <2>2 DEF ServerInv
<1> QED
  BY <1>9, <1>10, <1>11 DEF MessagesInv

\* rpcc::get_refconn, which returns the live connection or dials a new one, keeps MessagesInv.
LEMMA get_refconn_Inv ==
  ASSUME MessagesInv, NEW t \in Thread, get_refconn(t), UNCHANGED serverVars
  PROVE  MessagesInv'
<1> USE ChanConstants, ClientConstants
<1>1. ClientInv /\ ChanInv /\ ServerInv
  BY DEF MessagesInv
<1>2. /\ pc[t] = "conn"
      /\ UNCHANGED <<xid, bind_done, srv_nonce, destroy_wait, win, dup_req, xid_rep_done,
                     cpc, outcome, cdead, sdead, c2s, s2c>>
  BY DEF get_refconn
<1>3. \E n \in 0 .. MaxConn, c \in 0 .. MaxConn, d \in 0 .. MaxConn, l \in PC :
        /\ nconn' = n /\ chan' = d
        /\ ca' = [ca EXCEPT ![t] = [ca[t] EXCEPT !.ch = c]]
        /\ pc' = [pc EXCEPT ![t] = l]
        /\ l \in {"dup", "send"} => c \in Conn
        /\ l \in {"dup", "send", "wait", "erase"}
  <2>1. WithChannel \in {"dup", "send"} /\ AfterTransmit(t) \in {"wait", "erase"}
    BY DEF WithChannel, AfterTransmit
  <2>2. nconn \in 0 .. MaxConn /\ chan \in 0 .. MaxConn /\ ca[t].ch \in 0 .. MaxConn
    BY <1>1, CallerFacts DEF ChanInv, ChanTypeOK, ClientInv, ClientTypeOK, Caller
  <2>3. {"dup", "send", "wait", "erase"} \subseteq PC
    BY DEF PC
  <2>4. CASE Usable(chan) /\ ca' = [ca EXCEPT ![t].ch = chan] /\ Goto(t, WithChannel)
             /\ UNCHANGED <<chan, nconn>>
    <3>1. chan \in Conn
      BY <2>4 DEF Usable
    <3> QED BY <2>1, <2>2, <2>3, <2>4, <3>1 DEF Goto
  <2>5. CASE /\ nconn < MaxConn /\ nconn' = nconn + 1 /\ chan' = nconn + 1
             /\ ca' = [ca EXCEPT ![t].ch = nconn + 1] /\ Goto(t, WithChannel)
    <3>1. nconn + 1 \in Conn /\ nconn + 1 \in 0 .. MaxConn
      BY <2>2, <2>5 DEF Conn
    <3> QED BY <2>1, <2>3, <2>5, <3>1 DEF Goto
  <2>6. CASE /\ chan' = 0 /\ UNCHANGED <<ca, nconn>>
             /\ Goto(t, IF ca[t].ch = 0 THEN AfterTransmit(t) ELSE WithChannel)
    <3>1. ca' = [ca EXCEPT ![t] = [ca[t] EXCEPT !.ch = ca[t].ch]]
      <4>1. [ca[t] EXCEPT !.ch = ca[t].ch] = ca[t]
        BY <1>1, CallerFacts DEF Caller
      <4> QED BY <1>1, <2>6, <4>1, CallerFacts
    <3>2. ca[t].ch # 0 => ca[t].ch \in Conn
      BY <2>2 DEF Conn
    <3> DEFINE l == IF ca[t].ch = 0 THEN AfterTransmit(t) ELSE WithChannel
    <3>3. /\ l \in {"dup", "send"} => ca[t].ch \in Conn
          /\ l \in {"dup", "send", "wait", "erase"} /\ l \in PC
      BY <2>1, <2>3, <3>2
    <3>4. nconn' = nconn /\ chan' = 0 /\ pc' = [pc EXCEPT ![t] = l] /\ 0 \in 0 .. MaxConn
      BY <2>6 DEF Goto
    <3> HIDE DEF l
    <3> QED BY <2>2, <3>1, <3>3, <3>4
  <2> QED BY <2>4, <2>5, <2>6 DEF get_refconn
<1>4. PICK n \in 0 .. MaxConn, c \in 0 .. MaxConn, d \in 0 .. MaxConn, l \in PC :
        /\ nconn' = n /\ chan' = d
        /\ ca' = [ca EXCEPT ![t] = [ca[t] EXCEPT !.ch = c]]
        /\ pc' = [pc EXCEPT ![t] = l]
        /\ l \in {"dup", "send"} => c \in Conn
        /\ l \in {"dup", "send", "wait", "erase"}
  BY <1>3
<1> DEFINE e == [ca[t] EXCEPT !.ch = c]
<1>5. e \in Caller /\ e.req = ca[t].req /\ e.forgot = ca[t].forgot /\ e.ch = c
  BY <1>1, CallerFacts DEF Caller
<1> HIDE DEF e
<1>6. /\ pc' \in [Thread -> PC] /\ ca' \in [Thread -> Caller]
      /\ \A u \in Thread : CallerOK(u)'
  <2>1. ca' = [ca EXCEPT ![t] = e]
    BY <1>4 DEF e
  <2> QED BY <1>1, <1>2, <1>4, <1>5, <2>1, CallerFacts, ThreadStep
<1>7. ClientInv'
  BY <1>1, <1>2, <1>4, <1>6 DEF ClientInv, ClientTypeOK
<1>8. ChanInv'
  BY <1>1, <1>2, <1>4 DEF ChanInv, ChanTypeOK
<1> QED
  BY <1>1, <1>2, <1>7, <1>8, ServerUnchanged DEF MessagesInv

\* The decision of call1 to send the finished request dup_req_ again keeps MessagesInv.
LEMMA take_forgot_Inv ==
  ASSUME MessagesInv, NEW t \in Thread, take_forgot(t), UNCHANGED serverVars
  PROVE  MessagesInv'
<1>1. ClientInv /\ ChanInv /\ ServerInv
  BY DEF MessagesInv
<1>2. /\ pc[t] = "dup"
      /\ UNCHANGED <<xid, bind_done, srv_nonce, chan, destroy_wait, win, xid_rep_done,
                     cpc, outcome, chanVars>>
  BY DEF take_forgot
<1>3. dup_req \in Request \cup {NoReq} /\ WellFormed(dup_req, xid)
  BY <1>1 DEF ClientInv, ClientTypeOK
<1>4. CASE dup_req.xid # 0 /\ xid_rep_done > dup_req.xid
  <2> DEFINE e == [ca[t] EXCEPT !.forgot = dup_req]
  <2>1. /\ ca' = [ca EXCEPT ![t] = e] /\ dup_req' = NoReq
        /\ pc' = [pc EXCEPT ![t] = "forgot"]
    BY <1>4 DEF take_forgot, Goto
  <2>2. dup_req \in Request
    BY <1>3, <1>4, NoReqFacts
  <2>3. e \in Caller /\ e.req = ca[t].req /\ e.forgot = dup_req /\ e.ch = ca[t].ch
    BY <1>1, <1>3, CallerFacts DEF Caller
  <2> HIDE DEF e
  <2>4. /\ pc' \in [Thread -> PC] /\ ca' \in [Thread -> Caller]
        /\ \A u \in Thread : CallerOK(u)'
    <3>1. "forgot" \in PC
      BY DEF PC
    <3> QED BY <1>1, <1>2, <1>3, <2>1, <2>2, <2>3, <3>1, CallerFacts, ThreadStep
  <2>5. WellFormed(dup_req', xid)
    BY <2>1 DEF WellFormed
  <2>6. ClientInv'
    BY <1>1, <1>2, <2>1, <2>4, <2>5 DEF ClientInv, ClientTypeOK
  <2> QED BY <1>1, <1>2, <2>6, ChanUnchanged, ServerUnchanged DEF MessagesInv
<1>5. CASE ~(dup_req.xid # 0 /\ xid_rep_done > dup_req.xid)
  <2>1. ca' = ca /\ dup_req' = dup_req /\ pc' = [pc EXCEPT ![t] = "send"]
    BY <1>5 DEF take_forgot, Goto
  <2>2. /\ pc' \in [Thread -> PC] /\ ca' \in [Thread -> Caller]
        /\ \A u \in Thread : CallerOK(u)'
    <3>1. "send" \in PC /\ ca' = [ca EXCEPT ![t] = ca[t]]
      BY <1>1, <2>1, CallerFacts DEF PC
    <3> QED BY <1>1, <1>2, <2>1, <3>1, CallerFacts, ThreadStep
  <2>3. ClientInv'
    BY <1>1, <1>2, <2>1, <2>2 DEF ClientInv, ClientTypeOK
  <2> QED BY <1>1, <1>2, <2>3, ChanUnchanged, ServerUnchanged DEF MessagesInv
<1> QED
  BY <1>4, <1>5


\* Sending dup_req_ again keeps MessagesInv.
LEMMA send_forgot_Inv ==
  ASSUME MessagesInv, NEW t \in Thread, send_forgot(t), UNCHANGED serverVars
  PROVE  MessagesInv'
<1>1. ClientInv /\ ChanInv /\ ServerInv
  BY DEF MessagesInv
<1> DEFINE e == [ca[t] EXCEPT !.forgot = NoReq]
<1>2. /\ pc[t] = "forgot"
      /\ ca' = [ca EXCEPT ![t] = e] /\ pc' = [pc EXCEPT ![t] = "send"]
      /\ ClientSend(ca[t].ch, ca[t].forgot)
      /\ UNCHANGED <<xid, bind_done, srv_nonce, chan, destroy_wait, win, dup_req,
                     xid_rep_done, cpc, outcome>>
  BY DEF send_forgot, Goto
<1>3. /\ e \in Caller /\ e.req = ca[t].req /\ e.forgot = NoReq /\ e.ch = ca[t].ch
      /\ WellFormed(e.forgot, xid)
  BY <1>1, CallerFacts DEF Caller, WellFormed
<1> HIDE DEF e
<1>4. /\ pc' \in [Thread -> PC] /\ ca' \in [Thread -> Caller]
      /\ \A u \in Thread : CallerOK(u)'
  <2>1. "send" \in PC
    BY DEF PC
  <2> QED BY <1>1, <1>2, <1>3, <2>1, CallerFacts, ThreadStep
<1>5. ClientInv'
  BY <1>1, <1>2, <1>4 DEF ClientInv, ClientTypeOK
<1>6. ChanInv'
  BY <1>1, <1>2, CallerFacts, ClientSendKeepsChan
<1> QED
  BY <1>1, <1>2, <1>5, <1>6, ServerUnchanged DEF MessagesInv

\* Sending, or sending again, the request of call1 keeps MessagesInv.
LEMMA send_req_Inv ==
  ASSUME MessagesInv, NEW t \in Thread, send_req(t), UNCHANGED serverVars
  PROVE  MessagesInv'
<1>1. ClientInv /\ ChanInv /\ ServerInv
  BY DEF MessagesInv
<1>2. /\ pc[t] = "send"
      /\ ca' = ca /\ pc' = [pc EXCEPT ![t] = AfterTransmit(t)]
      /\ ClientSend(ca[t].ch, ca[t].req)
      /\ UNCHANGED <<xid, bind_done, srv_nonce, chan, destroy_wait, win, dup_req,
                     xid_rep_done, cpc, outcome>>
  BY DEF send_req, Goto
<1>3. AfterTransmit(t) \in {"wait", "erase"} /\ {"wait", "erase"} \subseteq PC
  BY DEF AfterTransmit, PC
<1>4. /\ pc' \in [Thread -> PC] /\ ca' \in [Thread -> Caller]
      /\ \A u \in Thread : CallerOK(u)'
  <2>1. ca' = [ca EXCEPT ![t] = ca[t]]
    BY <1>1, <1>2, CallerFacts
  <2> QED BY <1>1, <1>2, <1>3, <2>1, CallerFacts, ThreadStep
<1>5. ClientInv'
  BY <1>1, <1>2, <1>4 DEF ClientInv, ClientTypeOK
<1>6. ChanInv'
  BY <1>1, <1>2, CallerFacts, ClientSendKeepsChan
<1> QED
  BY <1>1, <1>2, <1>5, <1>6, ServerUnchanged DEF MessagesInv

\* The two ways a wait ends in another transmission.
LEMMA retransmit_Inv ==
  ASSUME MessagesInv, NEW t \in Thread, retransmit(t) \/ last_transmit(t),
         UNCHANGED serverVars
  PROVE  MessagesInv'
<1> USE ChanConstants, ClientConstants
<1>1. ClientInv /\ ChanInv /\ ServerInv
  BY DEF MessagesInv
<1>2. PICK e \in Caller :
        /\ e.req = ca[t].req /\ e.forgot = ca[t].forgot
        /\ ca' = [ca EXCEPT ![t] = e]
  <2>1. ca[t] \in Caller
    BY <1>1, CallerFacts
  <2>2. CASE retransmit(t)
    <3> DEFINE f == [ca[t] EXCEPT !.tries = @ + 1]
    <3>1. f \in Caller /\ f.req = ca[t].req /\ f.forgot = ca[t].forgot
      BY <2>1, <2>2 DEF retransmit, Caller
    <3>2. ca' = [ca EXCEPT ![t] = f]
      BY <2>2 DEF retransmit
    <3> QED BY <3>1, <3>2
  <2>3. CASE last_transmit(t)
    <3> DEFINE f == [ca[t] EXCEPT !.last = TRUE]
    <3>1. f \in Caller /\ f.req = ca[t].req /\ f.forgot = ca[t].forgot
      BY <2>1 DEF Caller
    <3>2. ca' = [ca EXCEPT ![t] = f]
      BY <2>3 DEF last_transmit
    <3> QED BY <3>1, <3>2
  <2> QED BY <2>2, <2>3
<1>3. /\ pc[t] = "wait" /\ pc' = [pc EXCEPT ![t] = "conn"]
      /\ UNCHANGED <<xid, bind_done, srv_nonce, chan, destroy_wait, win, dup_req,
                     xid_rep_done, cpc, outcome, chanVars>>
  BY DEF retransmit, last_transmit, Goto
<1>4. /\ pc' \in [Thread -> PC] /\ ca' \in [Thread -> Caller]
      /\ \A u \in Thread : CallerOK(u)'
  <2>1. "conn" \in PC
    BY DEF PC
  <2> QED BY <1>1, <1>2, <1>3, <2>1, CallerFacts, ThreadStep
<1>5. ClientInv'
  BY <1>1, <1>3, <1>4 DEF ClientInv, ClientTypeOK
<1> QED
  BY <1>1, <1>3, <1>5, ChanUnchanged, ServerUnchanged DEF MessagesInv

\* call1 returns.
LEMMA ReturnStep ==
  ASSUME ClientInv, xid' = xid, NEW t \in Thread, pc[t] # "idle", Return(t)
  PROVE  /\ pc' \in [Thread -> PC] /\ ca' \in [Thread -> Caller]
         /\ \A u \in Thread : CallerOK(u)'
         /\ outcome' \in [Xid -> Outcome]
<1> DEFINE bound == ca[t].req.proc = "bind" /\ Result(t) = "ok"
<1>1. /\ pc' = [pc EXCEPT ![t] = IF bound THEN "bound" ELSE "idle"]
      /\ ca' = [ca EXCEPT ![t] = IF bound THEN ca[t] ELSE NoCall]
  BY CallerFacts DEF Return, Goto
<1>2. {"bound", "idle"} \subseteq PC
  BY DEF PC
<1>3. /\ pc' \in [Thread -> PC] /\ ca' \in [Thread -> Caller]
      /\ \A u \in Thread : CallerOK(u)'
  <2>1. CASE bound
    BY <1>1, <1>2, <2>1, CallerFacts, ThreadStep
  <2>2. CASE ~bound
    BY <1>1, <1>2, <2>2, EmptyTypes, EmptyOK, ThreadStep
  <2> QED BY <2>1, <2>2
<1>4. outcome' \in [Xid -> Outcome]
  <2>1. ca[t].req.xid \in Xid
    BY CallerFacts DEF Request
  <2>2. Result(t) \in Ret /\ ca[t].from \in 0 .. MaxNonce
    BY CallerFacts DEF Result, Caller, Ret
  <2>3. outcome \in [Xid -> Outcome]
    BY DEF ClientInv, ClientTypeOK, Outcome
  <2> QED BY <2>1, <2>2, <2>3 DEF Return, Outcome
<1> QED
  BY <1>3, <1>4

\* The window after update_xid_rep, for the xid of a call that was made.
LEMMA WindowStep ==
  ASSUME ClientInv, NEW x \in Xid, x < xid
  PROVE  /\ update_xid_rep(win, x) # {}
         /\ update_xid_rep(win, x) \subseteq 0 .. xid - 1
         /\ update_xid_rep(win, x) \subseteq 0 .. MaxXid
<1> USE ChanConstants
<1>1. xid \in 1 .. MaxXid + 1
  BY DEF ClientInv, ClientTypeOK
<1>2. xid - 1 \in Nat /\ win \in SUBSET (0 .. xid - 1) /\ win # {} /\ x \in 0 .. xid - 1
  BY <1>1 DEF ClientInv, Xid
<1>3. update_xid_rep(win, x) # {} /\ update_xid_rep(win, x) \subseteq win \cup {x}
  BY <1>2, UpdateWindow
<1>4. win \cup {x} \subseteq 0 .. xid - 1 /\ 0 .. xid - 1 \subseteq 0 .. MaxXid
  BY <1>1, <1>2
<1> QED
  BY <1>3, <1>4


\* The end of call1, which takes the call out of calls_, keeps MessagesInv.
LEMMA erase_Inv ==
  ASSUME MessagesInv, NEW t \in Thread, erase(t), UNCHANGED serverVars
  PROVE  MessagesInv'
<1>1. ClientInv /\ ChanInv /\ ServerInv
  BY DEF MessagesInv
<1>2. /\ pc[t] \in {"erase", "wait"}
      /\ win' = update_xid_rep(win, ca[t].req.xid)
      /\ cpc' \in {"woken", cpc}
      /\ UNCHANGED <<xid, bind_done, srv_nonce, chan, destroy_wait, dup_req,
                     xid_rep_done, chanVars>>
  BY DEF erase, LoopEnds
<1>3. /\ pc' \in [Thread -> PC] /\ ca' \in [Thread -> Caller]
      /\ \A u \in Thread : CallerOK(u)'
      /\ outcome' \in [Xid -> Outcome]
  <2>1. CASE Return(t)
    BY <1>1, <1>2, <2>1, ReturnStep
  <2>2. CASE Goto(t, "lossy") /\ UNCHANGED <<ca, outcome>>
    <3>1. /\ pc' = [pc EXCEPT ![t] = "lossy"] /\ "lossy" \in PC
          /\ ca' = [ca EXCEPT ![t] = ca[t]]
      BY <1>1, <2>2, CallerFacts DEF Goto, PC
    <3>2. outcome' \in [Xid -> Outcome]
      BY <1>1, <2>2 DEF ClientInv, ClientTypeOK, Outcome
    <3> QED BY <1>1, <1>2, <3>1, <3>2, CallerFacts, ThreadStep
  <2> QED BY <2>1, <2>2 DEF erase
<1>4. win' # {} /\ win' \subseteq 0 .. xid - 1 /\ win' \subseteq 0 .. MaxXid
  <2>1. ca[t].req \in Request /\ WellFormed(ca[t].req, xid)
    BY <1>1, <1>2, CallerFacts
  <2>2. ca[t].req.xid \in Xid /\ ca[t].req.xid < xid
    BY <2>1, NoReqFacts DEF Request, WellFormed
  <2> QED BY <1>1, <1>2, <2>2, WindowStep
<1>5. ClientInv'
  BY <1>1, <1>2, <1>3, <1>4 DEF ClientInv, ClientTypeOK, Outcome
<1> QED
  BY <1>1, <1>2, <1>5, ChanUnchanged, ServerUnchanged DEF MessagesInv

\* Storing a finished request in dup_req_ keeps MessagesInv.
LEMMA keep_dup_req_Inv ==
  ASSUME MessagesInv, NEW t \in Thread, keep_dup_req(t), UNCHANGED serverVars
  PROVE  MessagesInv'
<1> USE ChanConstants
<1>1. ClientInv /\ ChanInv /\ ServerInv
  BY DEF MessagesInv
<1>2. /\ pc[t] = "lossy" /\ Return(t)
      /\ dup_req' \in {ca[t].req, dup_req}
      /\ xid_rep_done' \in {ca[t].req.rep, xid_rep_done}
      /\ UNCHANGED <<xid, bind_done, srv_nonce, chan, destroy_wait, win, cpc, chanVars>>
  BY DEF keep_dup_req
<1>3. /\ pc' \in [Thread -> PC] /\ ca' \in [Thread -> Caller]
      /\ \A u \in Thread : CallerOK(u)'
      /\ outcome' \in [Xid -> Outcome]
  BY <1>1, <1>2, ReturnStep
<1>4. ca[t].req \in Request /\ WellFormed(ca[t].req, xid) /\ ca[t].req.rep \in 0 .. MaxXid
  BY <1>1, <1>2, CallerFacts DEF Request
<1>5. xid_rep_done' \in -1 .. MaxXid
  BY <1>1, <1>2, <1>4 DEF ClientInv, ClientTypeOK
<1>6. dup_req' \in Request \cup {NoReq} /\ WellFormed(dup_req', xid)
  BY <1>1, <1>2, <1>4 DEF ClientInv, ClientTypeOK
<1>7. ClientInv'
  BY <1>1, <1>2, <1>3, <1>5, <1>6 DEF ClientInv, ClientTypeOK, Outcome
<1> QED
  BY <1>1, <1>2, <1>7, ChanUnchanged, ServerUnchanged DEF MessagesInv

\* rpcc::bind, which stores the nonce of the server instance, keeps MessagesInv.
LEMMA bind_Inv ==
  ASSUME MessagesInv, NEW t \in Thread, bind(t), UNCHANGED serverVars
  PROVE  MessagesInv'
<1>1. ClientInv /\ ChanInv /\ ServerInv
  BY DEF MessagesInv
<1>2. /\ ca' = [ca EXCEPT ![t] = NoCall] /\ pc' = [pc EXCEPT ![t] = "idle"]
      /\ bind_done' = TRUE /\ srv_nonce' = ca[t].from
      /\ UNCHANGED <<xid, chan, destroy_wait, win, dup_req, xid_rep_done, cpc, outcome,
                     chanVars>>
  BY DEF bind, Goto
<1>3. /\ pc' \in [Thread -> PC] /\ ca' \in [Thread -> Caller]
      /\ \A u \in Thread : CallerOK(u)'
  <2>1. "idle" \in PC
    BY DEF PC
  <2> QED BY <1>1, <1>2, <2>1, EmptyTypes, EmptyOK, ThreadStep
<1>4. srv_nonce' \in 0 .. MaxNonce
  BY <1>1, <1>2, CallerFacts DEF Caller
<1>5. ClientInv'
  BY <1>1, <1>2, <1>3, <1>4 DEF ClientInv, ClientTypeOK
<1> QED
  BY <1>1, <1>2, <1>5, ChanUnchanged, ServerUnchanged DEF MessagesInv

-----------------------------------------------------------------------------
(* The upcall and cancel() *)

\* A step that only changes the answers that callers hold.
LEMMA AnswerStep ==
  ASSUME ClientInv, xid' = xid, pc' = pc,
         NEW S \in SUBSET Thread, NEW r \in Ret, NEW n \in 0 .. MaxNonce,
         ca' = [t \in Thread |->
                  IF t \in S THEN [ca[t] EXCEPT !.done = TRUE, !.ret = r, !.from = n]
                             ELSE ca[t]]
  PROVE  /\ ca' \in [Thread -> Caller]
         /\ \A u \in Thread : CallerOK(u)'
<1>1. ASSUME NEW u \in Thread
      PROVE  /\ ca'[u] \in Caller /\ ca'[u].req = ca[u].req
             /\ ca'[u].forgot = ca[u].forgot /\ ca'[u].ch = ca[u].ch
  <2>1. CASE u \in S
    <3>1. ca'[u] = [ca[u] EXCEPT !.done = TRUE, !.ret = r, !.from = n]
      BY <2>1
    <3>2. ca[u] \in Caller
      BY CallerFacts
    <3> QED BY <3>1, <3>2 DEF Caller
  <2>2. CASE u \notin S
    <3>1. ca'[u] = ca[u] /\ ca[u] \in Caller
      BY <2>2, CallerFacts
    <3> QED BY <3>1
  <2> QED BY <2>1, <2>2
<1>2. ca' \in [Thread -> Caller]
  BY <1>1
<1>3. ASSUME NEW u \in Thread PROVE CallerOK(u)'
  BY <1>1, CallerFacts DEF CallerOK
<1> QED
  BY <1>2, <1>3

\* rpcc::got_pdu, which completes a call and updates the window, keeps MessagesInv.
LEMMA rpcc_got_pdu_Inv ==
  ASSUME MessagesInv, NEW k \in Conn, rpcc_got_pdu(k), UNCHANGED serverVars
  PROVE  MessagesInv'
<1>1. ClientInv /\ ChanInv /\ ServerInv
  BY DEF MessagesInv
<1> DEFINE h == Head(s2c[k])
           S == {t \in Thread : t \in Outstanding /\ ca[t].req.xid = h.xid /\ ~ca[t].done}
<1>2. s2c[k] \in Seq(Reply) /\ s2c[k] # <<>>
  BY <1>1 DEF ChanInv, ChanTypeOK, rpcc_got_pdu
<1>3. /\ h \in Reply /\ h = s2c[k][1] /\ 1 \in 1 .. Len(s2c[k])
      /\ h.xid \in Xid /\ h.ret \in Ret /\ h.from \in 0 .. MaxNonce
  <2>1. h \in Reply /\ h = s2c[k][1] /\ 1 \in 1 .. Len(s2c[k])
    BY <1>2
  <2> QED BY <2>1, ChanConstants DEF Reply, Ret, Nonce
<1>4. h.xid < xid
  BY <1>1, <1>3 DEF ChanInv
<1>5. /\ win' = update_xid_rep(win, h.xid)
      /\ s2c' = [s2c EXCEPT ![k] = Tail(s2c[k])]
      /\ UNCHANGED <<pc, xid, bind_done, srv_nonce, chan, destroy_wait, dup_req,
                     xid_rep_done, cpc, outcome, nconn, cdead, sdead, c2s>>
  BY DEF rpcc_got_pdu
<1>6. ca' = [t \in Thread |->
               IF t \in S THEN [ca[t] EXCEPT !.done = TRUE, !.ret = h.ret, !.from = h.from]
                          ELSE ca[t]]
  BY DEF rpcc_got_pdu
<1>7. ca' \in [Thread -> Caller] /\ \A u \in Thread : CallerOK(u)'
  <2>1. S \in SUBSET Thread
    OBVIOUS
  <2> HIDE DEF S, h
  <2> QED BY <1>1, <1>3, <1>5, <1>6, <2>1, AnswerStep
<1>8. ClientInv'
  <2>1. win' # {} /\ win' \subseteq 0 .. xid - 1 /\ win' \subseteq 0 .. MaxXid
    BY <1>1, <1>3, <1>4, <1>5, WindowStep
  <2> QED BY <1>1, <1>5, <1>7, <2>1 DEF ClientInv, ClientTypeOK
<1>9. ChanInv'
  <2>1. /\ s2c' \in [Conn -> Seq(Reply)] /\ s2c'[k] = Tail(s2c[k])
        /\ \A j \in Conn : j # k => s2c'[j] = s2c[j]
    BY <1>1, <1>2, <1>5 DEF ChanInv, ChanTypeOK
  <2>2. ChanTypeOK'
    BY <1>1, <1>5, <2>1 DEF ChanInv, ChanTypeOK
  <2>3. ASSUME NEW i \in 1 .. Len(s2c'[k]) PROVE s2c'[k][i].xid < xid
    <3>1. i + 1 \in 1 .. Len(s2c[k]) /\ s2c'[k][i] = s2c[k][i + 1]
      BY <1>2, <2>1
    <3> QED BY <1>1, <3>1 DEF ChanInv
  <2> QED BY <1>1, <1>5, <2>1, <2>2, <2>3 DEF ChanInv
<1> QED
  BY <1>1, <1>5, <1>8, <1>9, ServerUnchanged DEF MessagesInv

\* rpcc::cancel and its wait for calls_ to become empty keep MessagesInv.
LEMMA cancel_Inv ==
  ASSUME MessagesInv, CancelStep, UNCHANGED serverVars
  PROVE  MessagesInv'
<1>1. ClientInv /\ ChanInv /\ ServerInv
  BY DEF MessagesInv
<1>2. CASE cancel
  <2>1. /\ ca' = [t \in Thread |->
                    IF t \in Outstanding
                    THEN [ca[t] EXCEPT !.done = TRUE, !.ret = "cancel", !.from = 0]
                    ELSE ca[t]]
        /\ destroy_wait' = (destroy_wait \/ Outstanding # {})
        /\ cpc' \in {"done", "wait"}
        /\ UNCHANGED <<pc, xid, bind_done, srv_nonce, chan, win, dup_req, xid_rep_done,
                       outcome, chanVars>>
    BY <1>2 DEF cancel
  <2>2. Outstanding \in SUBSET Thread /\ "cancel" \in Ret /\ 0 \in 0 .. MaxNonce
    BY ChanConstants DEF Outstanding, Ret
  <2>3. ca' \in [Thread -> Caller] /\ \A u \in Thread : CallerOK(u)'
    BY <1>1, <2>1, <2>2, AnswerStep
  <2>4. destroy_wait' \in BOOLEAN
    BY <2>1
  <2>5. ClientInv'
    BY <1>1, <2>1, <2>3, <2>4 DEF ClientInv, ClientTypeOK
  <2> QED BY <1>1, <2>1, <2>5, ChanUnchanged, ServerUnchanged DEF MessagesInv
<1>3. CASE cancel_recheck
  <2>1. /\ cpc' \in {"done", "wait"}
        /\ UNCHANGED <<pc, ca, xid, bind_done, srv_nonce, chan, destroy_wait, win, dup_req,
                       xid_rep_done, outcome, chanVars>>
    BY <1>3 DEF cancel_recheck
  <2>2. ClientInv'
    BY <1>1, <2>1 DEF ClientInv, ClientTypeOK, CallerOK
  <2> QED BY <1>1, <2>1, <2>2, ChanUnchanged, ServerUnchanged DEF MessagesInv
<1> QED
  BY <1>2, <1>3 DEF CancelStep


-----------------------------------------------------------------------------
(* The jobs of the server *)

\* A step that leaves worker w with the job j.
LEMMA JobStep ==
  ASSUME ServerInv, xid' = xid, NEW w \in Worker, NEW j \in Job,
         job' = [job EXCEPT ![w] = j],
         WellFormed(j.req, xid),
         j.pc # "idle" => j.req \in Request /\ j.conn \in Conn,
         j.pc \in {"reply", "send"} => j.ret \in SrvRet
  PROVE  job' \in [Worker -> Job] /\ \A v \in Worker : JobOK(v)'
<1>1. job' \in [Worker -> Job] /\ job'[w] = j
  BY DEF ServerInv, ServerTypeOK
<1>2. JobOK(w)'
  BY <1>1 DEF JobOK
<1>3. ASSUME NEW v \in Worker, v # w
      PROVE  JobOK(v)'
  <2>1. job'[v] = job[v]
    BY <1>3 DEF ServerInv, ServerTypeOK
  <2> QED BY <2>1 DEF JobOK, ServerInv
<1> QED
  BY <1>1, <1>2, <1>3

\* What a job holds.
LEMMA JobFacts ==
  ASSUME ServerInv, NEW w \in Worker
  PROVE  /\ job[w] \in Job /\ WellFormed(job[w].req, xid)
         /\ job[w].pc # "idle" =>
              /\ job[w].req \in Request /\ job[w].conn \in Conn
              /\ job[w].req.xid \in Xid /\ job[w].req.xid < xid
              /\ job[w].req.rep < job[w].req.xid
         /\ job[w].pc \in {"reply", "send"} => job[w].ret \in SrvRet
<1>1. job[w] \in Job /\ JobOK(w)
  BY DEF ServerInv, ServerTypeOK
<1> QED
  BY <1>1, NoReqFacts DEF JobOK, WellFormed, Request

\* A step that moves the job of w to l with the return code r.
LEMMA MoveStep ==
  ASSUME ServerInv, xid' = xid, NEW w \in Worker, job[w].pc # "idle",
         NEW l \in JobPC, NEW r \in SrvRet \cup {"none"},
         job' = [job EXCEPT ![w] = [job[w] EXCEPT !.pc = l, !.ret = r]],
         l \in {"reply", "send"} => r \in SrvRet
  PROVE  job' \in [Worker -> Job] /\ \A v \in Worker : JobOK(v)'
<1> DEFINE j == [job[w] EXCEPT !.pc = l, !.ret = r]
<1>1. j \in Job /\ j.pc = l /\ j.ret = r /\ j.req = job[w].req /\ j.conn = job[w].conn
  BY JobFacts DEF Job
<1>2. job' = [job EXCEPT ![w] = j]
  OBVIOUS
<1> HIDE DEF j
<1> QED
  BY <1>1, <1>2, JobFacts, JobStep

\* rpcs::got_pdu, which turns a request into a job, keeps MessagesInv.
LEMMA rpcs_got_pdu_Inv ==
  ASSUME MessagesInv, NEW w \in Worker, NEW k \in Conn, rpcs_got_pdu(w, k),
         UNCHANGED clientVars
  PROVE  MessagesInv'
<1>1. ClientInv /\ ChanInv /\ ServerInv /\ xid' = xid
  BY DEF MessagesInv, clientVars
<1>2. c2s[k] \in Seq(Request) /\ c2s[k] # <<>>
  BY <1>1 DEF ChanInv, ChanTypeOK, rpcs_got_pdu
<1> DEFINE h == Head(c2s[k])
           j == [pc |-> "dispatch", conn |-> k, req |-> h, ret |-> "none"]
<1>3. h \in Request /\ h = c2s[k][1] /\ 1 \in 1 .. Len(c2s[k])
  BY <1>2
<1>4. WellFormed(h, xid)
  BY <1>1, <1>3 DEF ChanInv
<1>5. /\ job' = [job EXCEPT ![w] = j]
      /\ c2s' = [c2s EXCEPT ![k] = Tail(c2s[k])]
      /\ UNCHANGED <<nonce, rwin, conns, exec, nconn, cdead, sdead, s2c>>
  BY DEF rpcs_got_pdu
<1> HIDE DEF h
<1>6. j \in Job /\ j.pc = "dispatch" /\ j.req = h /\ j.conn = k
  BY <1>3, ChanConstants DEF Job, JobPC, Conn
<1> HIDE DEF j
<1>7. ServerInv'
  <2>1. job' \in [Worker -> Job] /\ \A v \in Worker : JobOK(v)'
    BY <1>1, <1>3, <1>4, <1>5, <1>6, JobStep
  <2> QED BY <1>1, <1>5, <2>1 DEF ServerInv, ServerTypeOK
<1>8. ChanInv'
  <2>1. /\ c2s' \in [Conn -> Seq(Request)] /\ c2s'[k] = Tail(c2s[k])
        /\ \A i \in Conn : i # k => c2s'[i] = c2s[i]
    BY <1>1, <1>2, <1>5 DEF ChanInv, ChanTypeOK
  <2>2. ChanTypeOK'
    BY <1>1, <1>5, <2>1 DEF ChanInv, ChanTypeOK
  <2>3. ASSUME NEW i \in 1 .. Len(c2s'[k]) PROVE WellFormed(c2s'[k][i], xid)
    <3>1. i + 1 \in 1 .. Len(c2s[k]) /\ c2s'[k][i] = c2s[k][i + 1]
      BY <1>2, <2>1
    <3> QED BY <1>1, <3>1 DEF ChanInv
  <2> QED BY <1>1, <1>5, <2>1, <2>2, <2>3 DEF ChanInv
<1> QED
  BY <1>1, <1>7, <1>8, ClientUnchanged DEF MessagesInv

\* The start of rpcs::dispatch, with its tests of the procedure and of the nonce, keeps MessagesInv.
LEMMA dispatch_Inv ==
  ASSUME MessagesInv, NEW w \in Worker, dispatch(w), UNCHANGED clientVars
  PROVE  MessagesInv'
<1>1. ClientInv /\ ChanInv /\ ServerInv /\ xid' = xid
  BY DEF MessagesInv, clientVars
<1>2. job[w].pc = "dispatch" /\ UNCHANGED <<nonce, rwin, exec, chanVars>>
  BY DEF dispatch
<1>3. job[w] \in Job /\ job[w].conn \in Conn
  BY <1>1, <1>2, JobFacts
<1>4. conns' \in 0 .. MaxConn
  BY <1>1, <1>3 DEF dispatch, Latest, ServerInv, ServerTypeOK, Conn
<1>5. PICK l \in JobPC, r \in SrvRet \cup {"none"} :
        /\ job' = [job EXCEPT ![w] = [job[w] EXCEPT !.pc = l, !.ret = r]]
        /\ l \in {"reply", "send"} => r \in SrvRet
  <2>1. CASE OldInstance(job[w].req)
    <3>1. job' = [job EXCEPT ![w] = [job[w] EXCEPT !.pc = "send", !.ret = "oldsrv"]]
      BY <1>1, <2>1 DEF dispatch, ServerInv, ServerTypeOK
    <3> QED BY <3>1 DEF JobPC, SrvRet
  <2>2. CASE ~OldInstance(job[w].req)
    <3> DEFINE l == IF Retrans THEN "check" ELSE "run"
    <3>1. job' = [job EXCEPT ![w] = [job[w] EXCEPT !.pc = l]]
      BY <2>2 DEF dispatch
    <3>2. [job[w] EXCEPT !.pc = l] = [job[w] EXCEPT !.pc = l, !.ret = job[w].ret]
      BY <1>3 DEF Job
    <3>3. l \in JobPC /\ l \notin {"reply", "send"} /\ job[w].ret \in SrvRet \cup {"none"}
      BY <1>3 DEF JobPC, Job
    <3> QED BY <3>1, <3>2, <3>3
  <2> QED BY <2>1, <2>2
<1>6. job' \in [Worker -> Job] /\ \A v \in Worker : JobOK(v)'
  BY <1>1, <1>2, <1>5, MoveStep
<1>7. ServerInv'
  BY <1>1, <1>2, <1>4, <1>6 DEF ServerInv, ServerTypeOK
<1> QED
  BY <1>1, <1>2, <1>7, ClientUnchanged, ChanUnchanged DEF MessagesInv

\* A job is finished or never gets further.
LEMMA IdleStep ==
  ASSUME ServerInv, xid' = xid, NEW w \in Worker, job' = [job EXCEPT ![w] = IdleJob]
  PROVE  job' \in [Worker -> Job] /\ \A v \in Worker : JobOK(v)'
<1>1. IdleJob.pc = "idle"
  BY DEF IdleJob
<1> QED
  BY <1>1, EmptyTypes, EmptyOK, JobStep

\* rpcs::checkduplicate_and_update keeps MessagesInv.
LEMMA checkduplicate_Inv ==
  ASSUME MessagesInv, NEW w \in Worker, checkduplicate_and_update(w), UNCHANGED clientVars
  PROVE  MessagesInv'
<1>1. ClientInv /\ ChanInv /\ ServerInv /\ xid' = xid
  BY DEF MessagesInv, clientVars
<1>2. job[w].pc = "check" /\ UNCHANGED <<nonce, conns, exec, chanVars>>
  BY DEF checkduplicate_and_update
<1>3. job[w] \in Job
  BY <1>1, JobFacts
<1>4. rwin' \in [Xid -> {"none", "inprogress", "done"}]
  BY <1>1 DEF checkduplicate_and_update, Inserted, ServerInv, ServerTypeOK
<1>5. job' \in [Worker -> Job] /\ \A v \in Worker : JobOK(v)'
  <2>1. CASE job' = [job EXCEPT ![w] = IdleJob]
    BY <1>1, <2>1, IdleStep
  <2>2. CASE \E r \in {"ok", "atmostonce"} : job' = [job EXCEPT ![w].pc = "send", ![w].ret = r]
    <3>1. PICK r \in {"ok", "atmostonce"} : job' = [job EXCEPT ![w].pc = "send", ![w].ret = r]
      BY <2>2
    <3>2. job' = [job EXCEPT ![w] = [job[w] EXCEPT !.pc = "send", !.ret = r]]
      BY <1>1, <3>1 DEF ServerInv, ServerTypeOK
    <3>3. "send" \in JobPC /\ r \in SrvRet
      BY DEF JobPC, SrvRet
    <3> QED BY <1>1, <1>2, <3>2, <3>3, MoveStep
  <2>3. CASE job' = [job EXCEPT ![w].pc = "run"]
    <3>1. [job[w] EXCEPT !.pc = "run"] = [job[w] EXCEPT !.pc = "run", !.ret = job[w].ret]
      BY <1>3 DEF Job
    <3>2. "run" \in JobPC /\ job[w].ret \in SrvRet \cup {"none"}
      BY <1>3 DEF JobPC, Job
    <3> QED BY <1>1, <1>2, <2>3, <3>1, <3>2, MoveStep
  <2> QED BY <2>1, <2>2, <2>3 DEF checkduplicate_and_update
<1>6. ServerInv'
  BY <1>1, <1>2, <1>4, <1>5 DEF ServerInv, ServerTypeOK
<1> QED
  BY <1>1, <1>2, <1>6, ClientUnchanged, ChanUnchanged DEF MessagesInv

\* Running the handler and rpcs::add_reply keep MessagesInv.
LEMMA run_handler_Inv ==
  ASSUME MessagesInv, NEW w \in Worker, run_handler(w), UNCHANGED clientVars
  PROVE  MessagesInv'
<1>1. ClientInv /\ ChanInv /\ ServerInv /\ xid' = xid
  BY DEF MessagesInv, clientVars
<1>2. job[w].pc = "run" /\ UNCHANGED <<nonce, conns, chanVars>>
  BY DEF run_handler
<1>3. job[w].req.xid \in Xid
  BY <1>1, <1>2, JobFacts
<1>4. rwin' \in [Xid -> {"none", "inprogress", "done"}]
  BY <1>1, <1>3 DEF run_handler, ServerInv, ServerTypeOK
<1>5. exec' \in [Nonce -> [Xid -> Nat]]
  BY <1>1, <1>3 DEF run_handler, ServerInv, ServerTypeOK
<1>6. job' \in [Worker -> Job] /\ \A v \in Worker : JobOK(v)'
  <2>1. job' = [job EXCEPT ![w] = [job[w] EXCEPT !.pc = "reply", !.ret = "ok"]]
    BY <1>1 DEF run_handler, ServerInv, ServerTypeOK
  <2>2. "reply" \in JobPC /\ "ok" \in SrvRet
    BY DEF JobPC, SrvRet
  <2> QED BY <1>1, <1>2, <2>1, <2>2, MoveStep
<1>7. ServerInv'
  BY <1>1, <1>2, <1>4, <1>5, <1>6 DEF ServerInv, ServerTypeOK
<1> QED
  BY <1>1, <1>2, <1>7, ClientUnchanged, ChanUnchanged DEF MessagesInv

\* The reply of a job that has come to send it.
LEMMA ReplyFacts ==
  ASSUME ServerInv, NEW w \in Worker, job[w].pc \in {"reply", "send"}
  PROVE  ReplyOf(w) \in Reply /\ ReplyOf(w).xid < xid
<1>1. job[w].req.xid \in Xid /\ job[w].req.xid < xid /\ job[w].ret \in SrvRet
  BY JobFacts
<1>2. nonce \in Nonce
  BY DEF ServerInv, ServerTypeOK
<1> QED
  BY <1>1, <1>2 DEF ReplyOf, Reply

\* The send of the reply at the end of rpcs::dispatch keeps MessagesInv.
LEMMA send_Inv ==
  ASSUME MessagesInv, NEW w \in Worker, send_new_reply(w) \/ send_reply(w),
         UNCHANGED clientVars
  PROVE  MessagesInv'
<1>1. ClientInv /\ ChanInv /\ ServerInv /\ xid' = xid
  BY DEF MessagesInv, clientVars
<1>2. job[w].pc \in {"reply", "send"} /\ UNCHANGED <<nonce, rwin, conns, exec>>
  BY DEF send_new_reply, send_reply
<1>3. job[w].conn \in Conn /\ conns \in 0 .. MaxConn /\ job[w] \in Job
  BY <1>1, <1>2, JobFacts DEF ServerInv, ServerTypeOK
<1>4. \/ \E c \in Conn : ServerSend(c, ReplyOf(w)) /\ job' = [job EXCEPT ![w] = IdleJob]
      \/ UNCHANGED chanVars /\ job' = [job EXCEPT ![w].pc = "segv"]
  <2>1. \A c \in 0 .. MaxConn : c # 0 => c \in Conn
    BY ChanConstants DEF Conn
  <2>2. job[w].conn # 0
    BY <1>3 DEF Conn
  <2> QED BY <1>3, <2>1, <2>2 DEF send_new_reply, send_reply
<1>5. CASE \E c \in Conn : ServerSend(c, ReplyOf(w)) /\ job' = [job EXCEPT ![w] = IdleJob]
  <2>1. job' \in [Worker -> Job] /\ \A v \in Worker : JobOK(v)'
    BY <1>1, <1>5, IdleStep
  <2>2. ServerInv'
    BY <1>1, <1>2, <2>1 DEF ServerInv, ServerTypeOK
  <2>3. ChanInv'
    BY <1>1, <1>2, <1>5, ReplyFacts, ServerSendKeepsChan
  <2> QED BY <1>1, <2>2, <2>3, ClientUnchanged DEF MessagesInv
<1>6. CASE UNCHANGED chanVars /\ job' = [job EXCEPT ![w].pc = "segv"]
  <2>1. [job[w] EXCEPT !.pc = "segv"] = [job[w] EXCEPT !.pc = "segv", !.ret = job[w].ret]
    BY <1>3 DEF Job
  <2>2. "segv" \in JobPC /\ job[w].ret \in SrvRet \cup {"none"}
    BY <1>3 DEF JobPC, Job
  <2>3. job' \in [Worker -> Job] /\ \A v \in Worker : JobOK(v)'
    BY <1>1, <1>2, <1>6, <2>1, <2>2, MoveStep
  <2>4. ServerInv'
    BY <1>1, <1>2, <2>3 DEF ServerInv, ServerTypeOK
  <2> QED BY <1>1, <1>6, <2>4, ClientUnchanged, ChanUnchanged DEF MessagesInv
<1> QED
  BY <1>4, <1>5, <1>6

\* A restart of the server keeps MessagesInv.
LEMMA Restart_Inv ==
  ASSUME MessagesInv, Restart, UNCHANGED clientVars
  PROVE  MessagesInv'
<1>1. ClientInv /\ ChanInv /\ ServerInv /\ xid' = xid
  BY DEF MessagesInv, clientVars
<1>2. /\ nonce' = nonce + 1 /\ nonce < MaxNonce /\ rwin' = EmptyWindow /\ conns' = 0
      /\ job' = [w \in Worker |-> IdleJob]
      /\ sdead' = [k \in Conn |-> sdead[k] \/ k <= nconn]
      /\ c2s' = [k \in Conn |-> <<>>]
      /\ UNCHANGED <<exec, nconn, cdead, s2c>>
  BY DEF Restart
<1>3. ServerTypeOK'
  <2>1. nonce' \in Nonce
    BY <1>1, <1>2, ChanConstants DEF ServerInv, ServerTypeOK, Nonce
  <2> QED BY <1>1, <1>2, <2>1, EmptyTypes, ChanConstants DEF ServerInv, ServerTypeOK, EmptyWindow
<1>4. ServerInv'
  BY <1>2, <1>3, EmptyOK DEF ServerInv, JobOK, IdleJob
<1>5. ChanInv'
  BY <1>1, <1>2 DEF ChanInv, ChanTypeOK
<1> QED
  BY <1>1, <1>4, <1>5, ClientUnchanged DEF MessagesInv

\* Failures of the two ends of a connection keep MessagesInv.
LEMMA Network_Inv ==
  ASSUME MessagesInv, NetworkStep, UNCHANGED <<clientVars, serverVars>>
  PROVE  MessagesInv'
<1>1. ClientInv /\ ChanInv /\ ServerInv /\ xid' = xid
  BY DEF MessagesInv, clientVars
<1>2. PICK k \in Conn : ClientEndDies(k) \/ ServerEndDies(k)
  BY DEF NetworkStep, ClientReadFails, ServerReadFails
<1>3. ChanInv'
  BY <1>1, <1>2, EndDiesKeepsChan
<1> QED
  BY <1>1, <1>3, ClientUnchanged, ServerUnchanged DEF MessagesInv


-----------------------------------------------------------------------------
(* Type correctness *)

\* Every step of the system keeps MessagesInv.
LEMMA NextMessages == MessagesInv /\ [Next]_vars => MessagesInv'
<1> SUFFICES ASSUME MessagesInv, [Next]_vars PROVE MessagesInv'
  OBVIOUS
<1>1. CASE ClientStep /\ UNCHANGED serverVars
  <2>1. CASE \E t \in Thread, p \in Proc : call1(t, p)
    BY <1>1, <2>1, call1_Inv
  <2>2. CASE \E t \in Thread : CallStep(t)
    <3>1. PICK t \in Thread : CallStep(t)
      BY <2>2
    <3>2. CASE get_refconn(t)
      BY <1>1, <3>2, get_refconn_Inv
    <3>3. CASE take_forgot(t)
      BY <1>1, <3>3, take_forgot_Inv
    <3>4. CASE send_forgot(t)
      BY <1>1, <3>4, send_forgot_Inv
    <3>5. CASE send_req(t)
      BY <1>1, <3>5, send_req_Inv
    <3>6. CASE retransmit(t) \/ last_transmit(t)
      BY <1>1, <3>6, retransmit_Inv
    <3>7. CASE erase(t)
      BY <1>1, <3>7, erase_Inv
    <3>8. CASE keep_dup_req(t)
      BY <1>1, <3>8, keep_dup_req_Inv
    <3>9. CASE bind(t)
      BY <1>1, <3>9, bind_Inv
    <3> QED BY <3>1, <3>2, <3>3, <3>4, <3>5, <3>6, <3>7, <3>8, <3>9 DEF CallStep
  <2>3. CASE \E k \in Conn : rpcc_got_pdu(k)
    BY <1>1, <2>3, rpcc_got_pdu_Inv
  <2>4. CASE CancelStep
    BY <1>1, <2>4, cancel_Inv
  <2> QED BY <1>1, <2>1, <2>2, <2>3, <2>4 DEF ClientStep
<1>2. CASE ServerStep /\ UNCHANGED clientVars
  <2>1. CASE \E w \in Worker, k \in Conn : rpcs_got_pdu(w, k)
    BY <1>2, <2>1, rpcs_got_pdu_Inv
  <2>2. CASE \E w \in Worker : DispatchStep(w)
    <3>1. PICK w \in Worker : DispatchStep(w)
      BY <2>2
    <3>2. CASE dispatch(w)
      BY <1>2, <3>2, dispatch_Inv
    <3>3. CASE checkduplicate_and_update(w)
      BY <1>2, <3>3, checkduplicate_Inv
    <3>4. CASE run_handler(w)
      BY <1>2, <3>4, run_handler_Inv
    <3>5. CASE send_new_reply(w) \/ send_reply(w)
      BY <1>2, <3>5, send_Inv
    <3> QED BY <3>1, <3>2, <3>3, <3>4, <3>5 DEF DispatchStep
  <2> QED BY <1>2, <2>1, <2>2 DEF ServerStep
<1>3. CASE Restart /\ UNCHANGED clientVars
  BY <1>3, Restart_Inv
<1>4. CASE NetworkStep /\ UNCHANGED <<clientVars, serverVars>>
  BY <1>4, Network_Inv
<1>5. CASE UNCHANGED vars
  <2>1. UNCHANGED clientVars /\ UNCHANGED serverVars /\ UNCHANGED chanVars /\ xid' = xid
    BY <1>5 DEF vars, clientVars
  <2> QED BY <2>1, ClientUnchanged, ServerUnchanged, ChanUnchanged DEF MessagesInv
<1> QED
  BY <1>1, <1>2, <1>3, <1>4, <1>5 DEF Next

\* In every behaviour of client, server and network, every thread, job, message
\* and window holds what its place in the code promises.
THEOREM MessagesCorrect == Spec => []MessagesInv
BY InitMessages, NextMessages, PTL DEF Spec

\* Every variable always has its type: no step of call1, dispatch, got_pdu,
\* cancel or a restart indexes a caller, a job or a connection that is not there.
THEOREM TypeCorrect == Spec => []TypeOK
<1>1. MessagesInv => TypeOK
  BY DEF MessagesInv, ChanInv, ClientInv, ServerInv, TypeOK
<1> QED
  BY <1>1, MessagesCorrect, PTL

-----------------------------------------------------------------------------
(* At-most-once execution *)

\* The initial state satisfies the invariant about executions.
LEMMA InitExecution == Init => ExecutionInv
BY ChanConstants DEF Init, ServerInit, ExecutionInv, Running, IdleJob, Nonce

\* What the server knows depends on the window alone.
LEMMA ExecutionUnchanged ==
  ASSUME ExecutionInv, UNCHANGED <<nonce, rwin, exec>>,
         \A w \in Worker, x \in Xid : Running(w, x)' => Running(w, x)
  PROVE  ExecutionInv'
BY DEF ExecutionInv, Known, TooOld, Remembered

\* The window's entry for a request is erased only when the window then begins
\* after it: what is known stays known when a new request is entered.
LEMMA KnownStable ==
  ASSUME ServerTypeOK, NEW h \in Request, h.rep < h.xid,
         rwin[h.xid] = "none", ~TooOld(h.xid), rwin' = Inserted(h)
  PROVE  /\ Known(h.xid)' /\ ~Known(h.xid)
         /\ \A y \in Xid : Known(y) => Known(y)'
<1>1. /\ h.xid \in Xid /\ h.xid \in Nat /\ h.rep \in Nat /\ ~(h.xid < h.rep)
      /\ \A y \in Xid : y \in Nat
  <2>1. h.xid \in Xid /\ h.rep \in 0 .. MaxXid
    BY DEF Request
  <2> QED BY <2>1, ChanConstants DEF Xid
<1>2. /\ rwin'[h.xid] = "inprogress"
      /\ \A y \in Xid : y < h.rep => rwin'[y] = "none"
      /\ \A y \in Xid : ~(y < h.rep) /\ y # h.xid => rwin'[y] = rwin[y]
  BY <1>1 DEF Inserted
<1>3. Remembered' \subseteq Remembered \cup {h.xid} /\ h.xid \in Remembered'
  BY <1>1, <1>2 DEF Remembered
<1>4. \A z \in Remembered' : z \in Nat /\ ~(z < h.rep)
  BY <1>1, <1>2 DEF Remembered
<1>5. ASSUME NEW y \in Xid, Known(y) PROVE Known(y)'
  <2>1. CASE rwin[y] # "none" /\ ~(y < h.rep)
    BY <1>2, <2>1 DEF Known
  <2>2. CASE y < h.rep
    <3>1. y \in Nat
      BY <1>1
    <3>2. \A z \in Remembered' : y < z
      BY <1>1, <1>4, <2>2, <3>1
    <3> QED BY <1>3, <3>2 DEF Known, TooOld
  <2>3. CASE TooOld(y)
    <3>1. PICK z \in Remembered : ~(h.xid < z)
      BY <2>3 DEF TooOld
    <3>2. y < z /\ z \in Nat /\ y \in Nat
      BY <1>1, <2>3, <3>1 DEF TooOld, Remembered
    <3>3. y < h.xid
      BY <1>1, <3>1, <3>2
    <3>4. \A u \in Remembered' : y < u
      BY <1>3, <2>3, <3>3 DEF TooOld
    <3> QED BY <1>3, <3>4 DEF Known, TooOld
  <2> QED BY <1>5, <2>1, <2>2, <2>3 DEF Known
<1>6. ~Known(h.xid)
  BY DEF Known
<1>7. Known(h.xid)'
  BY <1>2 DEF Known
<1> QED
  BY <1>5, <1>6, <1>7

\* checkduplicate_and_update marks a new xid before its handler can run, and so keeps ExecutionInv.
LEMMA checkduplicate_Execution ==
  ASSUME MessagesInv, ExecutionInv, NEW w \in Worker, checkduplicate_and_update(w)
  PROVE  ExecutionInv'
<1>1. job[w].pc = "check" /\ UNCHANGED <<nonce, exec>>
  BY DEF checkduplicate_and_update
<1>0. PICK h \in Request : h = job[w].req
  BY <1>1, JobFacts DEF MessagesInv
<1>2. ServerTypeOK /\ h.rep < h.xid /\ h.xid \in Xid
  BY <1>0, <1>1, JobFacts DEF MessagesInv, ServerInv
<1>3. \A v \in Worker, x \in Xid : v # w /\ Running(v, x)' => Running(v, x)
  BY <1>2 DEF checkduplicate_and_update, Running, ServerTypeOK
<1>4. CASE rwin' = rwin /\ job'[w].pc # "run"
  <2>1. \A v \in Worker, x \in Xid : Running(v, x)' => Running(v, x)
    BY <1>3, <1>4 DEF Running
  <2> QED BY <1>1, <1>4, <2>1, ExecutionUnchanged
<1>5. CASE /\ rwin[h.xid] = "none" /\ ~TooOld(h.xid)
           /\ job' = [job EXCEPT ![w].pc = "run"] /\ rwin' = Inserted(h)
  <2>1. /\ Known(h.xid)' /\ ~Known(h.xid)
        /\ \A y \in Xid : Known(y) => Known(y)'
    BY <1>2, <1>5, KnownStable
  <2>2. exec[nonce][h.xid] = 0
    BY <1>2, <2>1 DEF ExecutionInv, ServerTypeOK
  <2>3. \A v \in Worker : ~Running(v, h.xid)
    BY <1>2, <2>1 DEF ExecutionInv
  <2>4. \A x \in Xid : Running(w, x)' => x = h.xid
    BY <1>0, <1>2, <1>5 DEF Running, ServerTypeOK
  <2>5. \A v \in Worker, x \in Xid : Running(v, x)' => Known(x)' /\ exec[nonce][x] = 0
    BY <1>3, <2>1, <2>2, <2>4 DEF ExecutionInv
  <2>6. \A u, v \in Worker, x \in Xid : Running(u, x)' /\ Running(v, x)' => u = v
    BY <1>3, <2>3, <2>4 DEF ExecutionInv
  <2> QED BY <1>1, <2>1, <2>5, <2>6 DEF ExecutionInv
<1> QED
  <2>1. IdleJob.pc = "idle"
    BY DEF IdleJob
  <2>2. CASE job' = [job EXCEPT ![w] = IdleJob] /\ rwin' = rwin
    BY <1>2, <1>4, <2>1, <2>2 DEF ServerTypeOK
  <2>3. CASE \E r \in SrvRet : job' = [job EXCEPT ![w].pc = "send", ![w].ret = r] /\ rwin' = rwin
    BY <1>2, <1>4, <2>3 DEF ServerTypeOK, Job
  <2> QED BY <1>0, <1>5, <2>2, <2>3 DEF checkduplicate_and_update, SrvRet

\* A handler runs only for a job that marked its xid as NEW, and so keeps ExecutionInv.
LEMMA run_handler_Execution ==
  ASSUME MessagesInv, ExecutionInv, NEW w \in Worker, run_handler(w)
  PROVE  ExecutionInv'
<1> DEFINE x == job[w].req.xid
<1>1. ServerTypeOK /\ job[w].pc = "run" /\ x \in Xid
  BY JobFacts DEF run_handler, MessagesInv, ServerInv
<1>2. Running(w, x) /\ Known(x) /\ exec[nonce][x] = 0
  BY <1>1 DEF Running, ExecutionInv
<1>3. /\ exec' = [exec EXCEPT ![nonce][x] = @ + 1]
      /\ rwin' = [rwin EXCEPT ![x] = IF @ = "none" THEN "none" ELSE "done"]
      /\ job' = [job EXCEPT ![w].pc = "reply", ![w].ret = "ok"]
      /\ nonce' = nonce
  BY DEF run_handler
<1>4. nonce \in Nonce /\ exec'[nonce][x] = 1
  BY <1>1, <1>2, <1>3 DEF ServerTypeOK
<1>5. \A n \in Nonce, y \in Xid : n # nonce \/ y # x => exec'[n][y] = exec[n][y]
  BY <1>1, <1>3 DEF ServerTypeOK
<1>6. \A y \in Xid : Known(y)' <=> Known(y)
  <2>1. \A y \in Xid : rwin'[y] = "none" <=> rwin[y] = "none"
    BY <1>1, <1>3 DEF ServerTypeOK
  <2>2. Remembered' = Remembered
    BY <2>1 DEF Remembered
  <2> QED BY <2>1, <2>2 DEF Known, TooOld
<1>7. \A v \in Worker, y \in Xid : Running(v, y)' => v # w /\ Running(v, y) /\ y # x
  <2>1. \A v \in Worker, y \in Xid : Running(v, y)' => v # w /\ Running(v, y)
    BY <1>1, <1>3 DEF Running, ServerTypeOK, Job
  <2> QED BY <1>1, <1>2, <2>1 DEF ExecutionInv
<1>8. ASSUME NEW y \in Xid, exec'[nonce][y] > 0 PROVE Known(y)'
  BY <1>2, <1>4, <1>5, <1>6, <1>8 DEF ExecutionInv
<1>9. \A v \in Worker, y \in Xid : Running(v, y)' => Known(y)' /\ exec'[nonce][y] = 0
  BY <1>4, <1>5, <1>6, <1>7 DEF ExecutionInv
<1>10. \A u, v \in Worker, y \in Xid : Running(u, y)' /\ Running(v, y)' => u = v
  BY <1>7 DEF ExecutionInv
<1>11. \A n \in Nonce, y \in Xid : n > nonce => exec'[n][y] = 0
  BY <1>4, <1>5 DEF ExecutionInv, Nonce
<1>12. \A n \in Nonce, y \in Xid : exec'[n][y] <= 1
  BY <1>4, <1>5 DEF ExecutionInv
<1> HIDE DEF x
<1> QED
  BY <1>3, <1>8, <1>9, <1>10, <1>11, <1>12 DEF ExecutionInv


\* A restart empties the reply window and starts an instance that has executed nothing.
LEMMA Restart_Execution ==
  ASSUME MessagesInv, ExecutionInv, Restart
  PROVE  ExecutionInv'
<1>1. /\ nonce' = nonce + 1 /\ nonce < MaxNonce /\ rwin' = EmptyWindow /\ exec' = exec
      /\ job' = [w \in Worker |-> IdleJob]
  BY DEF Restart
<1>2. nonce \in Nat /\ nonce' \in Nonce /\ nonce' > nonce
  BY <1>1, ChanConstants DEF MessagesInv, ServerInv, ServerTypeOK, Nonce
<1>3. \A x \in Xid : exec[nonce'][x] = 0
  BY <1>2 DEF ExecutionInv
<1>4. \A w \in Worker, x \in Xid : ~Running(w, x)'
  BY <1>1 DEF Running, IdleJob
<1>5. \A n \in Nonce : n > nonce' => n > nonce
  BY <1>1, <1>2, ChanConstants DEF Nonce
<1> QED
  BY <1>1, <1>3, <1>4, <1>5 DEF ExecutionInv

\* The steps of a job that neither run a handler nor look into the window.  A
\* client with a nonce always passes checkduplicate_and_update.
LEMMA OtherJob_Execution ==
  ASSUME Retrans, MessagesInv, ExecutionInv, NEW w \in Worker,
         \/ \E k \in Conn : rpcs_got_pdu(w, k)
         \/ dispatch(w) \/ send_new_reply(w) \/ send_reply(w)
  PROVE  ExecutionInv'
<1>1. ServerTypeOK /\ UNCHANGED <<nonce, rwin, exec>>
  BY DEF MessagesInv, ServerInv, rpcs_got_pdu, dispatch, send_new_reply, send_reply
<1>2. \A v \in Worker : v # w => job'[v] = job[v]
  BY <1>1 DEF rpcs_got_pdu, dispatch, send_new_reply, send_reply, ServerTypeOK
<1>3. job'[w].pc # "run"
  <2>1. CASE \E k \in Conn : rpcs_got_pdu(w, k)
    BY <1>1, <2>1 DEF rpcs_got_pdu, ServerTypeOK
  <2>2. CASE dispatch(w)
    BY <1>1, <2>2 DEF dispatch, ServerTypeOK, Job
  <2>3. CASE send_new_reply(w) \/ send_reply(w)
    BY <1>1, <2>3 DEF send_new_reply, send_reply, ServerTypeOK, Job, IdleJob
  <2> QED BY <2>1, <2>2, <2>3
<1>4. \A v \in Worker, x \in Xid : Running(v, x)' => Running(v, x)
  BY <1>2, <1>3 DEF Running
<1> QED
  BY <1>1, <1>4, ExecutionUnchanged

\* Every step of the system keeps ExecutionInv.
LEMMA NextExecution ==
  ASSUME Retrans, MessagesInv, ExecutionInv, [Next]_vars
  PROVE  ExecutionInv'
<1>1. CASE UNCHANGED serverVars
  <2>1. \A w \in Worker, x \in Xid : Running(w, x)' => Running(w, x)
    BY <1>1 DEF serverVars, Running
  <2> QED BY <1>1, <2>1, ExecutionUnchanged DEF serverVars
<1>2. CASE ServerStep
  <2>1. CASE \E w \in Worker, k \in Conn : rpcs_got_pdu(w, k)
    BY <2>1, OtherJob_Execution
  <2>2. CASE \E w \in Worker : DispatchStep(w)
    <3>1. PICK w \in Worker : DispatchStep(w)
      BY <2>2
    <3>2. CASE checkduplicate_and_update(w)
      BY <3>2, checkduplicate_Execution
    <3>3. CASE run_handler(w)
      BY <3>3, run_handler_Execution
    <3>4. CASE dispatch(w) \/ send_new_reply(w) \/ send_reply(w)
      BY <3>4, OtherJob_Execution
    <3> QED BY <3>1, <3>2, <3>3, <3>4 DEF DispatchStep
  <2> QED BY <1>2, <2>1, <2>2 DEF ServerStep
<1>3. CASE Restart
  BY <1>3, Restart_Execution
<1> QED
  BY <1>1, <1>2, <1>3 DEF Next, vars

\* A client with a nonce: what the running instance has executed or is about to
\* it knows, in every behaviour.
THEOREM ExecutionCorrect == Retrans => (Spec => []ExecutionInv)
<1> SUFFICES ASSUME Retrans PROVE Spec => []ExecutionInv
  OBVIOUS
<1>1. MessagesInv /\ ExecutionInv /\ [Next]_vars => ExecutionInv'
  BY NextExecution
<1> QED
  BY <1>1, InitExecution, MessagesCorrect, PTL DEF Spec

\* At-most-once execution, for any number of threads, jobs, connections, calls
\* and restarts: a client with a nonce never has a call executed twice by one
\* instance of the server, whatever is lost, delayed, retransmitted or
\* duplicated by the lossy test.
THEOREM AtMostOnceCorrect == Retrans => (Spec => []AtMostOnce)
<1> SUFFICES ASSUME Retrans PROVE Spec => []AtMostOnce
  OBVIOUS
<1>1. ExecutionInv => AtMostOnce
  BY DEF ExecutionInv, AtMostOnce
<1>2. Spec => []ExecutionInv
  BY ExecutionCorrect
<1> QED
  BY <1>1, <1>2, PTL

-----------------------------------------------------------------------------
(* Messages *)

\* A step that does not add a message to a connection adds none to its queue:
\* taking the first one off, losing all, or leaving them alone.
LEMMA ClientEndMessages ==
  ASSUME ChanInv, NEW k \in Conn, ClientEndDies(k), NEW r
  PROVE  /\ Queued(r)' => Queued(r)
         /\ Sent(r)' => Sent(r)
<1>1. /\ \A j \in Conn : j # k => s2c'[j] = s2c[j]
      /\ s2c'[k] = <<>> /\ c2s' = c2s
  BY DEF ClientEndDies, ChanInv, ChanTypeOK
<1>2. Len(s2c'[k]) = 0
  BY <1>1
<1> QED
  BY <1>1, <1>2 DEF Queued, Sent

\* The same at the server's end.
LEMMA ServerEndMessages ==
  ASSUME ChanInv, NEW k \in Conn, ServerEndDies(k), NEW r
  PROVE  /\ Queued(r)' => Queued(r)
         /\ Sent(r)' => Sent(r)
<1>1. /\ \A j \in Conn : j # k => c2s'[j] = c2s[j]
      /\ c2s'[k] = <<>> /\ s2c' = s2c
  BY DEF ServerEndDies, ChanInv, ChanTypeOK
<1>2. Len(c2s'[k]) = 0
  BY <1>1
<1> QED
  BY <1>1, <1>2 DEF Queued, Sent

\* connection::send at the client's end adds its request and nothing else.
LEMMA ClientSendMessages ==
  ASSUME ChanInv, NEW k \in Conn, NEW m, ClientSend(k, m), NEW r
  PROVE  /\ Queued(r)' => Queued(r) \/ r = m
         /\ Sent(r)' => Sent(r)
<1>1. CASE ClientEndDies(k)
  BY <1>1, ClientEndMessages
<1>2. CASE /\ c2s' = [c2s EXCEPT ![k] = IF sdead[k] THEN @ ELSE Append(@, m)]
           /\ UNCHANGED <<nconn, cdead, sdead, s2c>>
  <2>1. c2s[k] \in Seq(Request)
    BY DEF ChanInv, ChanTypeOK
  <2>2. /\ \A j \in Conn : j # k => c2s'[j] = c2s[j]
        /\ c2s'[k] = c2s[k] \/ c2s'[k] = Append(c2s[k], m)
    BY <1>2, <2>1 DEF ChanInv, ChanTypeOK
  <2>3. \A i \in 1 .. Len(c2s'[k]) :
          c2s'[k][i] = m \/ (i \in 1 .. Len(c2s[k]) /\ c2s'[k][i] = c2s[k][i])
    BY <2>1, <2>2
  <2>4. Queued(r)' => Queued(r) \/ r = m
    BY <2>2, <2>3 DEF Queued
  <2> QED BY <1>2, <2>4 DEF Sent
<1> QED
  BY <1>1, <1>2 DEF ClientSend

\* connection::send at the server's end adds its reply and nothing else.
LEMMA ServerSendMessages ==
  ASSUME ChanInv, NEW k \in Conn, NEW m, ServerSend(k, m), NEW r
  PROVE  /\ Queued(r)' => Queued(r)
         /\ Sent(r)' => Sent(r) \/ r = m
<1>1. CASE ServerEndDies(k)
  BY <1>1, ServerEndMessages
<1>2. CASE /\ s2c' = [s2c EXCEPT ![k] = IF cdead[k] THEN @ ELSE Append(@, m)]
           /\ UNCHANGED <<nconn, cdead, sdead, c2s>>
  <2>1. s2c[k] \in Seq(Reply)
    BY DEF ChanInv, ChanTypeOK
  <2>2. /\ \A j \in Conn : j # k => s2c'[j] = s2c[j]
        /\ s2c'[k] = s2c[k] \/ s2c'[k] = Append(s2c[k], m)
    BY <1>2, <2>1 DEF ChanInv, ChanTypeOK
  <2>3. \A i \in 1 .. Len(s2c'[k]) :
          s2c'[k][i] = m \/ (i \in 1 .. Len(s2c[k]) /\ s2c'[k][i] = s2c[k][i])
    BY <2>1, <2>2
  <2>4. Sent(r)' => Sent(r) \/ r = m
    BY <2>2, <2>3 DEF Sent
  <2> QED BY <1>2, <2>4 DEF Queued
<1> QED
  BY <1>1, <1>2 DEF ServerSend

\* Connections that do not change carry the same messages.
LEMMA SameMessages ==
  ASSUME UNCHANGED chanVars, NEW r
  PROVE  (Queued(r)' <=> Queued(r)) /\ (Sent(r)' <=> Sent(r))
BY DEF chanVars, Queued, Sent

-----------------------------------------------------------------------------
(* Callers *)

\* What a step of thread t inside call1 may do to the callers: the call goes on
\* with the same request and the same answer, or it has returned.
CallerStep(t) ==
  /\ xid' = xid
  /\ \A u \in Thread : u # t => ca'[u] = ca[u] /\ pc'[u] = pc[u]
  /\ \/ ca'[t] = NoCall /\ pc'[t] = "idle"
     \/ /\ ca'[t].req = ca[t].req /\ ca'[t].done = ca[t].done
        /\ ca'[t].ret = ca[t].ret /\ ca'[t].from = ca[t].from
        /\ t \in Outstanding' => t \in Outstanding

\* Where the requests that a step of thread t leaves behind come from.
RequestStep(t) ==
  /\ ca'[t].forgot \in {ca[t].forgot, dup_req, NoReq}
  /\ dup_req' \in {dup_req, ca[t].req, NoReq}
  /\ \A r \in Request : Queued(r)' => Queued(r) \/ r \in {ca[t].req, ca[t].forgot}
  /\ \A r \in Reply : Sent(r)' => Sent(r)

\* What a step of thread t may do to the window: only a call that leaves calls_
\* counts as answered.
AnsweredStep(t) ==
  \/ win' = win
  \/ /\ t \in Outstanding /\ t \notin Outstanding'
     /\ win' = update_xid_rep(win, ca[t].req.xid)

\* What a step of thread t may do to the results of calls.
ResultStep(t) ==
  \A x \in Xid :
    \/ outcome'[x] = outcome[x]
    \/ /\ pc[t] # "idle" /\ x = ca[t].req.xid
       /\ outcome'[x] = [outcome[x] EXCEPT !.ret = Result(t), !.from = ca[t].from]

\* A step that leaves the connections, dup_req_ and forgot alone.
LEMMA QuietStep ==
  ASSUME NEW t \in Thread, UNCHANGED <<chanVars, dup_req>>,
         ca'[t].forgot \in {ca[t].forgot, NoReq}
  PROVE  RequestStep(t)
BY SameMessages DEF RequestStep

\* Moving to another place in the loop of call1 with an updated caller.
LEMMA LoopStep ==
  ASSUME ClientInv, NEW t \in Thread, NEW e \in Caller, NEW l \in PC,
         xid' = xid, pc' = [pc EXCEPT ![t] = l], ca' = [ca EXCEPT ![t] = e],
         t \in Outstanding \/ l \in {"idle", "lossy", "bound"},
         e.req = ca[t].req, e.done = ca[t].done, e.ret = ca[t].ret, e.from = ca[t].from
  PROVE  CallerStep(t)
<1>1. /\ \A u \in Thread : u # t => ca'[u] = ca[u] /\ pc'[u] = pc[u]
      /\ ca'[t] = e /\ pc'[t] = l
  BY DEF ClientInv, ClientTypeOK
<1>2. t \in Outstanding' => t \in Outstanding
  BY <1>1 DEF Outstanding, PC
<1> QED
  BY <1>1, <1>2 DEF CallerStep

\* get_refconn changes nothing but the connection of its call.
LEMMA get_refconn_Step ==
  ASSUME MessagesInv, NEW t \in Thread, get_refconn(t)
  PROVE  CallerStep(t) /\ RequestStep(t) /\ AnsweredStep(t) /\ ResultStep(t)
<1>1. ClientInv /\ pc[t] = "conn" /\ t \in Outstanding
  BY DEF MessagesInv, get_refconn, Outstanding, PC
<1>2. UNCHANGED <<xid, win, dup_req, outcome, c2s, s2c>>
  BY DEF get_refconn
<1>3. PICK l \in PC : pc' = [pc EXCEPT ![t] = l]
  BY DEF get_refconn, Goto, AfterTransmit, WithChannel, PC
<1>4. PICK e \in Caller :
        /\ ca' = [ca EXCEPT ![t] = e]
        /\ e.req = ca[t].req /\ e.done = ca[t].done /\ e.ret = ca[t].ret
        /\ e.from = ca[t].from /\ e.forgot = ca[t].forgot
  <2>1. ca[t] \in Caller /\ [ca EXCEPT ![t] = ca[t]] = ca
    BY <1>1, CallerFacts
  <2>2. CASE ca' = ca
    BY <2>1, <2>2
  <2>3. ASSUME NEW c \in 0 .. MaxConn, ca' = [ca EXCEPT ![t].ch = c]
        PROVE  \E e \in Caller :
                 /\ ca' = [ca EXCEPT ![t] = e]
                 /\ e.req = ca[t].req /\ e.done = ca[t].done /\ e.ret = ca[t].ret
                 /\ e.from = ca[t].from /\ e.forgot = ca[t].forgot
    <3> DEFINE f == [ca[t] EXCEPT !.ch = c]
    <3>1. f \in Caller /\ f.req = ca[t].req /\ f.done = ca[t].done /\ f.ret = ca[t].ret
          /\ f.from = ca[t].from /\ f.forgot = ca[t].forgot
      BY <2>1 DEF Caller
    <3>2. ca' = [ca EXCEPT ![t] = f]
      BY <2>3
    <3> QED BY <3>1, <3>2
  <2>4. chan \in 0 .. MaxConn /\ (nconn < MaxConn => nconn + 1 \in 0 .. MaxConn)
    BY ChanConstants DEF MessagesInv, ClientInv, ClientTypeOK, ChanInv, ChanTypeOK
  <2> QED BY <2>2, <2>3, <2>4 DEF get_refconn
<1>5. CallerStep(t)
  BY <1>1, <1>2, <1>3, <1>4, LoopStep
<1>6. ca'[t].forgot = ca[t].forgot
  BY <1>1, <1>4 DEF ClientInv, ClientTypeOK
<1>7. RequestStep(t)
  BY <1>2, <1>6 DEF RequestStep, Queued, Sent
<1> QED
  BY <1>2, <1>5, <1>7 DEF AnsweredStep, ResultStep

\* take_forgot moves dup_req_ into the call.
LEMMA take_forgot_Step ==
  ASSUME MessagesInv, NEW t \in Thread, take_forgot(t)
  PROVE  CallerStep(t) /\ RequestStep(t) /\ AnsweredStep(t) /\ ResultStep(t)
<1>1. ClientInv /\ pc[t] = "dup" /\ t \in Outstanding
  BY DEF MessagesInv, take_forgot, Outstanding, PC
<1>2. UNCHANGED <<xid, win, outcome, chanVars>> /\ dup_req' \in {dup_req, NoReq}
  BY DEF take_forgot
<1>3. PICK l \in PC : pc' = [pc EXCEPT ![t] = l]
  BY DEF take_forgot, Goto, PC
<1>4. PICK e \in Caller :
        /\ ca' = [ca EXCEPT ![t] = e]
        /\ e.req = ca[t].req /\ e.done = ca[t].done /\ e.ret = ca[t].ret
        /\ e.from = ca[t].from /\ e.forgot \in {ca[t].forgot, dup_req}
  <2>1. ca[t] \in Caller /\ [ca EXCEPT ![t] = ca[t]] = ca /\ dup_req \in Request \cup {NoReq}
    BY <1>1, CallerFacts DEF ClientInv, ClientTypeOK
  <2>2. CASE ca' = ca
    BY <2>1, <2>2
  <2>3. CASE ca' = [ca EXCEPT ![t].forgot = dup_req]
    <3> DEFINE f == [ca[t] EXCEPT !.forgot = dup_req]
    <3>1. f \in Caller /\ f.req = ca[t].req /\ f.done = ca[t].done /\ f.ret = ca[t].ret
          /\ f.from = ca[t].from /\ f.forgot = dup_req
      BY <2>1 DEF Caller
    <3>2. ca' = [ca EXCEPT ![t] = f]
      BY <2>3
    <3> QED BY <3>1, <3>2
  <2> QED BY <2>2, <2>3 DEF take_forgot
<1>5. CallerStep(t)
  BY <1>1, <1>2, <1>3, <1>4, LoopStep
<1>6. ca'[t].forgot \in {ca[t].forgot, dup_req}
  BY <1>1, <1>4 DEF ClientInv, ClientTypeOK
<1>7. RequestStep(t)
  BY <1>2, <1>6, SameMessages DEF RequestStep
<1> QED
  BY <1>2, <1>5, <1>7 DEF AnsweredStep, ResultStep

\* The two transmissions put the call's own requests on the line.
LEMMA send_Step ==
  ASSUME MessagesInv, NEW t \in Thread, send_forgot(t) \/ send_req(t)
  PROVE  CallerStep(t) /\ RequestStep(t) /\ AnsweredStep(t) /\ ResultStep(t)
<1>1. ClientInv /\ ChanInv /\ t \in Outstanding /\ ca[t].ch \in Conn
  BY CallerFacts DEF MessagesInv, send_forgot, send_req, Outstanding, PC
<1>2. UNCHANGED <<xid, win, dup_req, outcome>>
  BY DEF send_forgot, send_req
<1>3. PICK l \in PC : pc' = [pc EXCEPT ![t] = l]
  BY DEF send_forgot, send_req, Goto, AfterTransmit, PC
<1>4. PICK e \in Caller :
        /\ ca' = [ca EXCEPT ![t] = e]
        /\ e.req = ca[t].req /\ e.done = ca[t].done /\ e.ret = ca[t].ret
        /\ e.from = ca[t].from /\ e.forgot \in {ca[t].forgot, NoReq}
  <2>1. ca[t] \in Caller /\ [ca EXCEPT ![t] = ca[t]] = ca
    BY <1>1, CallerFacts
  <2>2. CASE ca' = ca
    BY <2>1, <2>2
  <2>3. CASE ca' = [ca EXCEPT ![t].forgot = NoReq]
    <3> DEFINE f == [ca[t] EXCEPT !.forgot = NoReq]
    <3>1. f \in Caller /\ f.req = ca[t].req /\ f.done = ca[t].done /\ f.ret = ca[t].ret
          /\ f.from = ca[t].from /\ f.forgot = NoReq
      BY <2>1 DEF Caller
    <3>2. ca' = [ca EXCEPT ![t] = f]
      BY <2>3
    <3> QED BY <3>1, <3>2
  <2> QED BY <2>2, <2>3 DEF send_forgot, send_req
<1>5. CallerStep(t)
  BY <1>1, <1>2, <1>3, <1>4, LoopStep
<1>6. ca'[t].forgot \in {ca[t].forgot, NoReq}
  BY <1>1, <1>4 DEF ClientInv, ClientTypeOK
<1>7. PICK m \in {ca[t].req, ca[t].forgot} : ClientSend(ca[t].ch, m)
  BY DEF send_forgot, send_req
<1>8. RequestStep(t)
  BY <1>1, <1>2, <1>6, <1>7, ClientSendMessages DEF RequestStep
<1> QED
  BY <1>2, <1>5, <1>8 DEF AnsweredStep, ResultStep

\* A timeout sends the call through the loop once more.
LEMMA retransmit_Step ==
  ASSUME MessagesInv, NEW t \in Thread, retransmit(t) \/ last_transmit(t)
  PROVE  CallerStep(t) /\ RequestStep(t) /\ AnsweredStep(t) /\ ResultStep(t)
<1>1. ClientInv /\ t \in Outstanding
  BY DEF MessagesInv, retransmit, last_transmit, Outstanding, PC
<1>2. UNCHANGED <<xid, win, dup_req, outcome, chanVars>>
  BY DEF retransmit, last_transmit
<1>3. PICK l \in PC : pc' = [pc EXCEPT ![t] = l]
  BY DEF retransmit, last_transmit, Goto, PC
<1>4. PICK e \in Caller :
        /\ ca' = [ca EXCEPT ![t] = e]
        /\ e.req = ca[t].req /\ e.done = ca[t].done /\ e.ret = ca[t].ret
        /\ e.from = ca[t].from /\ e.forgot = ca[t].forgot
  <2>1. ca[t] \in Caller
    BY <1>1, CallerFacts
  <2>2. CASE retransmit(t)
    <3> DEFINE f == [ca[t] EXCEPT !.tries = @ + 1]
    <3>1. ca[t].tries + 1 \in 0 .. MaxRetrans
      BY <2>1, <2>2, ClientConstants DEF retransmit, Caller
    <3>2. f \in Caller /\ f.req = ca[t].req /\ f.done = ca[t].done /\ f.ret = ca[t].ret
          /\ f.from = ca[t].from /\ f.forgot = ca[t].forgot
      BY <2>1, <3>1 DEF Caller
    <3>3. ca' = [ca EXCEPT ![t] = f]
      BY <2>2 DEF retransmit
    <3> QED BY <3>2, <3>3
  <2>3. CASE last_transmit(t)
    <3> DEFINE f == [ca[t] EXCEPT !.last = TRUE]
    <3>1. f \in Caller /\ f.req = ca[t].req /\ f.done = ca[t].done /\ f.ret = ca[t].ret
          /\ f.from = ca[t].from /\ f.forgot = ca[t].forgot
      BY <2>1 DEF Caller
    <3>2. ca' = [ca EXCEPT ![t] = f]
      BY <2>3 DEF last_transmit
    <3> QED BY <3>1, <3>2
  <2> QED BY <2>2, <2>3
<1>5. CallerStep(t)
  BY <1>1, <1>2, <1>3, <1>4, LoopStep
<1>6. ca'[t].forgot = ca[t].forgot
  BY <1>1, <1>4 DEF ClientInv, ClientTypeOK
<1>7. RequestStep(t)
  BY <1>2, <1>6, QuietStep
<1> QED
  BY <1>2, <1>5, <1>7 DEF AnsweredStep, ResultStep

\* call1 returns: the caller goes away or, in rpcc::bind, stays outside calls_,
\* and the result is recorded.
LEMMA Return_Step ==
  ASSUME ClientInv, NEW t \in Thread, pc[t] # "idle", xid' = xid, Return(t)
  PROVE  /\ CallerStep(t) /\ ResultStep(t)
         /\ ca'[t].forgot \in {ca[t].forgot, NoReq}
         /\ t \notin Outstanding'
<1> DEFINE bound == ca[t].req.proc = "bind" /\ Result(t) = "ok"
<1>1. /\ pc' = [pc EXCEPT ![t] = IF bound THEN "bound" ELSE "idle"]
      /\ ca' = [ca EXCEPT ![t] = IF bound THEN ca[t] ELSE NoCall]
  BY CallerFacts DEF Return, Goto
<1>2. /\ \A u \in Thread : u # t => ca'[u] = ca[u] /\ pc'[u] = pc[u]
      /\ pc'[t] = (IF bound THEN "bound" ELSE "idle")
      /\ ca'[t] = (IF bound THEN ca[t] ELSE NoCall)
  BY <1>1 DEF ClientInv, ClientTypeOK
<1>3. t \notin Outstanding'
  BY <1>2 DEF Outstanding
<1>4. CallerStep(t)
  BY <1>2, <1>3 DEF CallerStep
<1>5. ca'[t].forgot \in {ca[t].forgot, NoReq}
  BY <1>2 DEF NoCall
<1>6. ResultStep(t)
  <2>1. ca[t].req.xid \in Xid /\ outcome \in [Xid -> [srv : 0 .. MaxNonce, ret : Ret, from : 0 .. MaxNonce]]
    BY CallerFacts DEF ClientInv, ClientTypeOK, Request
  <2>2. outcome' = [outcome EXCEPT ![ca[t].req.xid] =
                      [outcome[ca[t].req.xid] EXCEPT !.ret = Result(t), !.from = ca[t].from]]
    BY <2>1 DEF Return
  <2> QED BY <2>1, <2>2 DEF ResultStep
<1> QED
  BY <1>3, <1>4, <1>5, <1>6

\* The call leaves calls_, and its xid counts as answered.
LEMMA erase_Step ==
  ASSUME MessagesInv, NEW t \in Thread, erase(t)
  PROVE  CallerStep(t) /\ RequestStep(t) /\ AnsweredStep(t) /\ ResultStep(t)
<1>1. ClientInv /\ t \in Outstanding /\ pc[t] # "idle"
  BY DEF MessagesInv, erase, LoopEnds, Outstanding, PC
<1>2. UNCHANGED <<xid, dup_req, chanVars>> /\ win' = update_xid_rep(win, ca[t].req.xid)
  BY DEF erase
<1>3. CASE Goto(t, "lossy") /\ UNCHANGED <<ca, outcome>>
  <2>1. pc' = [pc EXCEPT ![t] = "lossy"] /\ "lossy" \in PC
    BY <1>3 DEF Goto, PC
  <2>2. ca[t] \in Caller /\ ca' = [ca EXCEPT ![t] = ca[t]]
    BY <1>1, <1>3, CallerFacts
  <2>3. CallerStep(t)
    BY <1>1, <1>2, <2>1, <2>2, LoopStep
  <2>4. t \notin Outstanding'
    BY <1>1, <2>1 DEF Outstanding, ClientInv, ClientTypeOK
  <2>5. RequestStep(t)
    BY <1>2, <1>3, QuietStep
  <2> QED BY <1>1, <1>2, <1>3, <2>3, <2>4, <2>5 DEF AnsweredStep, ResultStep
<1>4. CASE Return(t)
  BY <1>1, <1>2, <1>4, Return_Step, QuietStep DEF AnsweredStep
<1> QED
  BY <1>3, <1>4 DEF erase

\* The lossy test may keep the request of the call that returns.
LEMMA keep_dup_req_Step ==
  ASSUME MessagesInv, NEW t \in Thread, keep_dup_req(t)
  PROVE  CallerStep(t) /\ RequestStep(t) /\ AnsweredStep(t) /\ ResultStep(t)
<1>1. ClientInv /\ pc[t] # "idle"
  BY DEF MessagesInv, keep_dup_req
<1>2. UNCHANGED <<xid, win, chanVars>> /\ dup_req' \in {dup_req, ca[t].req} /\ Return(t)
  BY DEF keep_dup_req
<1>3. CallerStep(t) /\ ResultStep(t) /\ ca'[t].forgot \in {ca[t].forgot, NoReq}
  BY <1>1, <1>2, Return_Step
<1>4. RequestStep(t)
  BY <1>2, <1>3, SameMessages DEF RequestStep
<1> QED
  BY <1>2, <1>3, <1>4 DEF AnsweredStep

\* rpcc::bind ends.
LEMMA bind_Step ==
  ASSUME MessagesInv, NEW t \in Thread, bind(t)
  PROVE  CallerStep(t) /\ RequestStep(t) /\ AnsweredStep(t) /\ ResultStep(t)
<1>1. ClientInv
  BY DEF MessagesInv
<1>2. /\ UNCHANGED <<xid, win, dup_req, outcome, chanVars>>
      /\ ca' = [ca EXCEPT ![t] = NoCall] /\ pc' = [pc EXCEPT ![t] = "idle"]
  BY DEF bind, Goto
<1>3. /\ \A u \in Thread : u # t => ca'[u] = ca[u] /\ pc'[u] = pc[u]
      /\ ca'[t] = NoCall /\ pc'[t] = "idle"
  BY <1>1, <1>2 DEF ClientInv, ClientTypeOK
<1>4. CallerStep(t)
  BY <1>2, <1>3 DEF CallerStep
<1>5. RequestStep(t)
  BY <1>2, <1>3, QuietStep DEF NoCall
<1> QED
  BY <1>2, <1>4, <1>5 DEF AnsweredStep, ResultStep

\* What every step inside call1 does.
LEMMA CallStep_Step ==
  ASSUME MessagesInv, NEW t \in Thread, CallStep(t)
  PROVE  CallerStep(t) /\ RequestStep(t) /\ AnsweredStep(t) /\ ResultStep(t)
<1>1. CASE get_refconn(t)
  BY <1>1, get_refconn_Step
<1>2. CASE take_forgot(t)
  BY <1>2, take_forgot_Step
<1>3. CASE send_forgot(t) \/ send_req(t)
  BY <1>3, send_Step
<1>4. CASE retransmit(t) \/ last_transmit(t)
  BY <1>4, retransmit_Step
<1>5. CASE erase(t)
  BY <1>5, erase_Step
<1>6. CASE keep_dup_req(t)
  BY <1>6, keep_dup_req_Step
<1>7. CASE bind(t)
  BY <1>7, bind_Step
<1> QED
  BY <1>1, <1>2, <1>3, <1>4, <1>5, <1>6, <1>7 DEF CallStep

\* The entry of call1 puts one request into the system, with the next xid, the
\* binding of the moment and the front of the window.
LEMMA call1_Step ==
  ASSUME MessagesInv, NEW t \in Thread, NEW p \in Proc, call1(t, p)
  PROVE  /\ xid \in Xid /\ xid' = xid + 1
         /\ t \notin Outstanding
         /\ \A u \in Thread : u # t => ca'[u] = ca[u] /\ pc'[u] = pc[u]
         /\ ca'[t].req = [xid |-> xid, proc |-> p, srv |-> srv_nonce, rep |-> Front(win)]
         /\ ca'[t].req.xid = xid /\ ca'[t].forgot = NoReq /\ ~ca'[t].done
         /\ outcome'[xid].srv = srv_nonce
         /\ \A x \in Xid : /\ outcome'[x].ret = outcome[x].ret /\ outcome'[x].from = outcome[x].from
                           /\ x # xid => outcome'[x] = outcome[x]
         /\ UNCHANGED <<win, dup_req, chanVars>>
<1>1. /\ ClientTypeOK /\ pc[t] = "idle" /\ xid \in Xid
      /\ UNCHANGED <<win, dup_req, chanVars>> /\ xid' = xid + 1
  BY ChanConstants DEF MessagesInv, ClientInv, ClientTypeOK, call1, Xid
<1>2. /\ outcome' = [outcome EXCEPT ![xid].srv = srv_nonce]
      /\ pc' = [pc EXCEPT ![t] = "conn"]
      /\ ca' = [ca EXCEPT ![t] =
              [NoCall EXCEPT !.req = [xid |-> xid, proc |-> p, srv |-> srv_nonce,
                                      rep |-> Front(win)]]]
  BY DEF call1, Goto
<1>3. t \notin Outstanding
  BY <1>1 DEF Outstanding
<1>4. \A u \in Thread : u # t => ca'[u] = ca[u] /\ pc'[u] = pc[u]
  BY <1>1, <1>2 DEF ClientTypeOK
<1>5. /\ ca'[t].req = [xid |-> xid, proc |-> p, srv |-> srv_nonce, rep |-> Front(win)]
      /\ ca'[t].forgot = NoReq /\ ~ca'[t].done
  BY <1>1, <1>2 DEF ClientTypeOK, NoCall
<1>6. ca'[t].req.xid = xid
  BY <1>5
<1>7. /\ outcome'[xid].srv = srv_nonce
      /\ \A x \in Xid : /\ outcome'[x].ret = outcome[x].ret /\ outcome'[x].from = outcome[x].from
                        /\ x # xid => outcome'[x] = outcome[x]
  BY <1>1, <1>2 DEF ClientTypeOK
<1> QED
  BY <1>1, <1>3, <1>4, <1>5, <1>6, <1>7

\* What got_pdu and cancel() do to the callers: those in S get the answer r
\* from instance n, and nobody moves.
AnsweredBy(S, r, n) ==
  /\ UNCHANGED <<pc, xid, dup_req, outcome>>
  /\ \A t \in Thread :
       /\ ca'[t].req = ca[t].req /\ ca'[t].forgot = ca[t].forgot
       /\ t \in S => ca'[t].done /\ ca'[t].ret = r /\ ca'[t].from = n
       /\ t \notin S => ca'[t] = ca[t]

\* A caller's answer is stored in it.
LEMMA AnswerCallers ==
  ASSUME ClientTypeOK, NEW S, NEW r, NEW n,
         UNCHANGED <<pc, xid, dup_req, outcome>>,
         ca' = [t \in Thread |->
                  IF t \in S THEN [ca[t] EXCEPT !.done = TRUE, !.ret = r, !.from = n]
                             ELSE ca[t]]
  PROVE  AnsweredBy(S, r, n)
<1>1. ASSUME NEW t \in Thread
      PROVE  /\ ca'[t].req = ca[t].req /\ ca'[t].forgot = ca[t].forgot
             /\ t \in S => ca'[t].done /\ ca'[t].ret = r /\ ca'[t].from = n
             /\ t \notin S => ca'[t] = ca[t]
  <2>1. ca[t] \in Caller
    BY DEF ClientTypeOK
  <2>2. CASE t \in S
    <3>1. ca'[t] = [ca[t] EXCEPT !.done = TRUE, !.ret = r, !.from = n]
      BY <2>2
    <3> QED BY <2>1, <2>2, <3>1 DEF Caller
  <2> QED BY <2>2
<1> QED
  BY <1>1 DEF AnsweredBy

\* rpcc::got_pdu takes a reply off its connection and gives it to the call that
\* waits for it; the reply's xid counts as answered either way.
LEMMA rpcc_got_pdu_Step ==
  ASSUME MessagesInv, NEW k \in Conn, rpcc_got_pdu(k)
  PROVE  /\ \A r : (Queued(r)' => Queued(r)) /\ (Sent(r)' => Sent(r))
         /\ \E h \in Reply :
              /\ Sent(h) /\ win' = update_xid_rep(win, h.xid)
              /\ AnsweredBy({t \in Outstanding : ca[t].req.xid = h.xid /\ ~ca[t].done},
                            h.ret, h.from)
<1> DEFINE h == Head(s2c[k])
           S == {t \in Outstanding : ca[t].req.xid = h.xid /\ ~ca[t].done}
<1>1. ClientTypeOK /\ s2c \in [Conn -> Seq(Reply)] /\ s2c[k] # <<>>
  BY DEF MessagesInv, ClientInv, ChanInv, ChanTypeOK, rpcc_got_pdu
<1>2. s2c' = [s2c EXCEPT ![k] = Tail(@)] /\ c2s' = c2s
  BY DEF rpcc_got_pdu
<1>3. h \in Reply /\ h = s2c[k][1] /\ 1 \in 1 .. Len(s2c[k])
  BY <1>1
<1>4. Sent(h)
  BY <1>3 DEF Sent
<1>5. /\ \A j \in Conn : j # k => s2c'[j] = s2c[j]
      /\ s2c'[k] = Tail(s2c[k])
  BY <1>1, <1>2
<1>6. \A i \in 1 .. Len(s2c'[k]) : i + 1 \in 1 .. Len(s2c[k]) /\ s2c'[k][i] = s2c[k][i + 1]
  BY <1>1, <1>5
<1>7. \A r : Sent(r)' => Sent(r)
  BY <1>5, <1>6 DEF Sent
<1>8. \A r : Queued(r)' => Queued(r)
  BY <1>2 DEF Queued
<1>9. win' = update_xid_rep(win, h.xid) /\ UNCHANGED <<pc, xid, dup_req, outcome>>
  BY DEF rpcc_got_pdu
<1>10. ca' = [t \in Thread |->
                IF t \in S THEN [ca[t] EXCEPT !.done = TRUE, !.ret = h.ret, !.from = h.from]
                           ELSE ca[t]]
  BY DEF rpcc_got_pdu
<1>11. AnsweredBy(S, h.ret, h.from)
  <2> HIDE DEF h, S
  <2> QED BY <1>1, <1>9, <1>10, AnswerCallers
<1> QED
  BY <1>3, <1>4, <1>7, <1>8, <1>9, <1>11

\* rpcc::cancel makes every outstanding call fail, or only looks again.
LEMMA cancel_Step ==
  ASSUME MessagesInv, CancelStep
  PROVE  /\ UNCHANGED <<win, chanVars>>
         /\ AnsweredBy(Outstanding, "cancel", 0) \/ AnsweredBy({}, "none", 0)
<1>1. ClientTypeOK
  BY DEF MessagesInv, ClientInv
<1>2. CASE cancel
  <2>1. /\ UNCHANGED <<pc, xid, dup_req, outcome>>
        /\ ca' = [t \in Thread |->
              IF t \in Outstanding
              THEN [ca[t] EXCEPT !.done = TRUE, !.ret = "cancel", !.from = 0]
              ELSE ca[t]]
    BY <1>2 DEF cancel
  <2>2. AnsweredBy(Outstanding, "cancel", 0)
    BY <1>1, <2>1, AnswerCallers
  <2> QED BY <1>2, <2>2 DEF cancel
<1>3. CASE cancel_recheck
  BY <1>3 DEF cancel_recheck, AnsweredBy
<1> QED
  BY <1>2, <1>3 DEF CancelStep

-----------------------------------------------------------------------------
(* Jobs *)

\* What a step of job w, or of the poll thread that starts it, may do: the
\* other jobs stay as they are, no handler is undone, requests only move from
\* a connection into the job, and the only new reply is the job's.
JobEffect(w) ==
  /\ nonce' = nonce
  /\ \A v \in Worker : v # w => job'[v] = job[v]
  /\ job'[w].req \in {job[w].req, NoReq} \/ Queued(job'[w].req)
  /\ \A n \in Nonce, x \in Xid : exec[n][x] > 0 => exec'[n][x] > 0
  /\ \A r \in Request : Queued(r)' => Queued(r)
  /\ \A r \in Reply : Sent(r)' => Sent(r) \/ (job[w].pc \in {"reply", "send"} /\ r = ReplyOf(w))

\* rpcs::got_pdu starts a job with a request from a connection.
LEMMA rpcs_got_pdu_Step ==
  ASSUME MessagesInv, NEW w \in Worker, NEW k \in Conn, rpcs_got_pdu(w, k)
  PROVE  /\ JobEffect(w) /\ UNCHANGED <<rwin, exec, conns>>
         /\ job'[w].pc = "dispatch" /\ job'[w].ret = "none"
<1> DEFINE h == Head(c2s[k])
<1>1. ServerTypeOK /\ c2s \in [Conn -> Seq(Request)] /\ c2s[k] # <<>>
  BY DEF MessagesInv, ServerInv, ChanInv, ChanTypeOK, rpcs_got_pdu
<1>2. /\ c2s' = [c2s EXCEPT ![k] = Tail(@)] /\ s2c' = s2c
      /\ UNCHANGED <<nonce, rwin, exec, conns>>
      /\ job' = [job EXCEPT ![w] = [pc |-> "dispatch", conn |-> k, req |-> h, ret |-> "none"]]
  BY DEF rpcs_got_pdu
<1>3. h = c2s[k][1] /\ 1 \in 1 .. Len(c2s[k])
  BY <1>1
<1>4. Queued(h)
  BY <1>3 DEF Queued
<1>5. /\ \A j \in Conn : j # k => c2s'[j] = c2s[j]
      /\ c2s'[k] = Tail(c2s[k])
  BY <1>1, <1>2
<1>6. \A i \in 1 .. Len(c2s'[k]) : i + 1 \in 1 .. Len(c2s[k]) /\ c2s'[k][i] = c2s[k][i + 1]
  BY <1>1, <1>5
<1>7. \A r : Queued(r)' => Queued(r)
  BY <1>5, <1>6 DEF Queued
<1>8. \A r : Sent(r)' => Sent(r)
  BY <1>2 DEF Sent
<1>9. /\ \A v \in Worker : v # w => job'[v] = job[v]
      /\ job'[w].req = h /\ job'[w].pc = "dispatch" /\ job'[w].ret = "none"
  BY <1>1, <1>2 DEF ServerTypeOK
<1> QED
  BY <1>2, <1>4, <1>7, <1>8, <1>9 DEF JobEffect

\* A job that moves on without touching a connection or running its handler.
LEMMA QuietJob ==
  ASSUME MessagesInv, NEW w \in Worker, NEW j, UNCHANGED <<nonce, exec, chanVars>>,
         job' = [job EXCEPT ![w] = j], j.req \in {job[w].req, NoReq}
  PROVE  JobEffect(w) /\ job'[w] = j
<1>1. job \in [Worker -> Job]
  BY DEF MessagesInv, ServerInv, ServerTypeOK
<1>2. job'[w] = j /\ \A v \in Worker : v # w => job'[v] = job[v]
  BY <1>1
<1> QED
  BY <1>2, SameMessages DEF JobEffect

\* The first part of dispatch.
LEMMA dispatch_Step ==
  ASSUME MessagesInv, NEW w \in Worker, dispatch(w)
  PROVE  /\ JobEffect(w) /\ UNCHANGED <<rwin, exec>>
         /\ job'[w].req = job[w].req
         /\ \/ job'[w].pc = "send" /\ job'[w].ret = "oldsrv" /\ conns' = conns
            \/ /\ job'[w].pc = (IF Retrans THEN "check" ELSE "run")
               /\ job'[w].ret = job[w].ret
               /\ job[w].req.srv \in {0, nonce}
               /\ conns' = Latest(job[w].conn)
<1>1. job[w] \in Job
  BY JobFacts DEF MessagesInv
<1>2. CASE OldInstance(job[w].req)
  <2> DEFINE j == [job[w] EXCEPT !.pc = "send", !.ret = "oldsrv"]
  <2>1. job' = [job EXCEPT ![w] = j] /\ UNCHANGED <<nonce, exec, rwin, conns, chanVars>>
    BY <1>2 DEF dispatch
  <2>2. j.req = job[w].req /\ j.pc = "send" /\ j.ret = "oldsrv"
    BY <1>1 DEF Job
  <2> HIDE DEF j
  <2> QED BY <2>1, <2>2, QuietJob
<1>3. CASE ~OldInstance(job[w].req)
  <2> DEFINE j == [job[w] EXCEPT !.pc = IF Retrans THEN "check" ELSE "run"]
  <2>1. /\ job' = [job EXCEPT ![w] = j] /\ UNCHANGED <<nonce, exec, rwin, chanVars>>
        /\ conns' = Latest(job[w].conn)
    BY <1>3 DEF dispatch
  <2>2. /\ j.req = job[w].req /\ j.pc = (IF Retrans THEN "check" ELSE "run")
        /\ j.ret = job[w].ret
    BY <1>1 DEF Job
  <2>3. job[w].req.srv \in {0, nonce}
    BY <1>3 DEF OldInstance
  <2> HIDE DEF j
  <2> QED BY <2>1, <2>2, <2>3, QuietJob
<1> QED
  BY <1>2, <1>3

\* The four results of checkduplicate_and_update.
LEMMA checkduplicate_Step ==
  ASSUME MessagesInv, NEW w \in Worker, checkduplicate_and_update(w)
  PROVE  /\ JobEffect(w) /\ UNCHANGED <<exec, conns>> /\ job[w].pc = "check"
         /\ \/ /\ job'[w].pc = "send" /\ job'[w].ret = "ok" /\ job'[w].req = job[w].req
               /\ rwin[job[w].req.xid] = "done" /\ rwin' = rwin
            \/ job'[w] = IdleJob /\ rwin' = rwin
            \/ /\ job'[w].pc = "send" /\ job'[w].ret = "atmostonce" /\ job'[w].req = job[w].req
               /\ rwin[job[w].req.xid] = "none" /\ TooOld(job[w].req.xid) /\ rwin' = rwin
            \/ /\ job'[w].pc = "run" /\ job'[w].ret = job[w].ret /\ job'[w].req = job[w].req
               /\ rwin[job[w].req.xid] = "none" /\ ~TooOld(job[w].req.xid)
               /\ rwin' = Inserted(job[w].req)
<1> DEFINE x == job[w].req.xid
<1>1. job[w] \in Job /\ job[w].pc = "check" /\ UNCHANGED <<nonce, conns, exec, chanVars>>
  BY JobFacts DEF MessagesInv, checkduplicate_and_update
<1>2. ASSUME NEW a \in {"ok", "atmostonce"}, rwin' = rwin,
             job' = [job EXCEPT ![w].pc = "send", ![w].ret = a]
      PROVE  JobEffect(w) /\ job'[w].pc = "send" /\ job'[w].ret = a /\ job'[w].req = job[w].req
  <2> DEFINE j == [job[w] EXCEPT !.pc = "send", !.ret = a]
  <2>1. job' = [job EXCEPT ![w] = j]
    BY <1>2
  <2>2. j.req = job[w].req /\ j.pc = "send" /\ j.ret = a
    BY <1>1 DEF Job
  <2> HIDE DEF j
  <2> QED BY <1>1, <2>1, <2>2, QuietJob
<1>3. CASE HasReply(x) /\ job' = [job EXCEPT ![w].pc = "send", ![w].ret = "ok"] /\ rwin' = rwin
  BY <1>1, <1>2, <1>3 DEF HasReply
<1>4. CASE job' = [job EXCEPT ![w] = IdleJob] /\ rwin' = rwin
  <2>1. IdleJob.req = NoReq
    BY DEF IdleJob
  <2> QED BY <1>1, <1>4, <2>1, QuietJob
<1>5. CASE /\ rwin[x] = "none" /\ TooOld(x) /\ rwin' = rwin
           /\ job' = [job EXCEPT ![w].pc = "send", ![w].ret = "atmostonce"]
  BY <1>1, <1>2, <1>5
<1>6. CASE /\ rwin[x] = "none" /\ ~TooOld(x) /\ rwin' = Inserted(job[w].req)
           /\ job' = [job EXCEPT ![w].pc = "run"]
  <2> DEFINE j == [job[w] EXCEPT !.pc = "run"]
  <2>1. job' = [job EXCEPT ![w] = j]
    BY <1>6
  <2>2. j.req = job[w].req /\ j.pc = "run" /\ j.ret = job[w].ret
    BY <1>1 DEF Job
  <2> HIDE DEF j
  <2> QED BY <1>1, <1>6, <2>1, <2>2, QuietJob
<1> QED
  BY <1>3, <1>4, <1>5, <1>6 DEF checkduplicate_and_update

\* The handler runs once for its own xid, in the running instance.
LEMMA run_handler_Step ==
  ASSUME MessagesInv, NEW w \in Worker, run_handler(w)
  PROVE  /\ JobEffect(w) /\ job[w].pc = "run" /\ conns' = conns
         /\ job[w].req \in Request /\ job[w].req.xid \in Xid
         /\ job'[w].pc = "reply" /\ job'[w].ret = "ok" /\ job'[w].req = job[w].req
         /\ exec'[nonce][job[w].req.xid] > 0
         /\ \A n \in Nonce, x \in Xid : n # nonce \/ x # job[w].req.xid => exec'[n][x] = exec[n][x]
         /\ rwin[job[w].req.xid] # "none" => rwin'[job[w].req.xid] = "done"
         /\ rwin[job[w].req.xid] = "none" => rwin'[job[w].req.xid] = "none"
         /\ \A x \in Xid : x # job[w].req.xid => rwin'[x] = rwin[x]
<1> DEFINE x == job[w].req.xid
<1>1. /\ ServerTypeOK /\ job[w] \in Job /\ job[w].pc = "run"
      /\ job[w].req \in Request /\ x \in Xid
  BY JobFacts DEF run_handler, MessagesInv, ServerInv
<1>2. /\ exec' = [exec EXCEPT ![nonce][x] = @ + 1]
      /\ rwin' = [rwin EXCEPT ![x] = IF @ = "none" THEN "none" ELSE "done"]
      /\ job' = [job EXCEPT ![w].pc = "reply", ![w].ret = "ok"]
      /\ UNCHANGED <<nonce, conns, chanVars>>
  BY DEF run_handler
<1>3. exec[nonce][x] \in Nat /\ nonce \in Nonce
  BY <1>1 DEF ServerTypeOK
<1>4. exec'[nonce][x] = exec[nonce][x] + 1
  BY <1>1, <1>2, <1>3 DEF ServerTypeOK
<1>5. \A n \in Nonce, y \in Xid : n # nonce \/ y # x => exec'[n][y] = exec[n][y]
  BY <1>1, <1>2 DEF ServerTypeOK
<1>6. \A n \in Nonce, y \in Xid : exec[n][y] > 0 => exec'[n][y] > 0
  BY <1>3, <1>4, <1>5
<1>7. /\ rwin[x] # "none" => rwin'[x] = "done"
      /\ rwin[x] = "none" => rwin'[x] = "none"
      /\ \A y \in Xid : y # x => rwin'[y] = rwin[y]
  BY <1>1, <1>2 DEF ServerTypeOK
<1>8. /\ job'[w].req = job[w].req /\ job'[w].pc = "reply" /\ job'[w].ret = "ok"
      /\ \A v \in Worker : v # w => job'[v] = job[v]
  BY <1>1, <1>2 DEF ServerTypeOK, Job
<1>9. JobEffect(w)
  BY <1>2, <1>6, <1>8, SameMessages DEF JobEffect
<1>10. exec'[nonce][x] > 0
  BY <1>3, <1>4
<1> HIDE DEF x
<1> QED
  BY <1>1, <1>2, <1>5, <1>7, <1>8, <1>9, <1>10 DEF x

\* The replies: a job ends, or has no connection to send on.
LEMMA send_reply_Step ==
  ASSUME MessagesInv, NEW w \in Worker, send_new_reply(w) \/ send_reply(w)
  PROVE  /\ JobEffect(w) /\ UNCHANGED <<rwin, exec, conns>>
         /\ \/ job'[w] = IdleJob
            \/ /\ job'[w].pc = "segv" /\ job'[w].ret = job[w].ret
               /\ job[w].pc = "reply" /\ conns = 0
<1>1. /\ ChanInv /\ ServerTypeOK /\ job[w] \in Job /\ job[w].conn \in Conn
      /\ job[w].pc \in {"reply", "send"} /\ UNCHANGED <<nonce, rwin, conns, exec>>
  BY JobFacts DEF send_new_reply, send_reply, MessagesInv, ServerInv
<1>2. CASE job' = [job EXCEPT ![w].pc = "segv"] /\ UNCHANGED chanVars
  <2> DEFINE j == [job[w] EXCEPT !.pc = "segv"]
  <2>1. job' = [job EXCEPT ![w] = j]
    BY <1>2
  <2>2. j.req = job[w].req /\ j.pc = "segv" /\ j.ret = job[w].ret
    BY <1>1 DEF Job
  <2>3. JobEffect(w) /\ job'[w] = j
    <3> HIDE DEF j
    <3> QED BY <1>1, <1>2, <2>1, <2>2, QuietJob
  <2>4. job'[w].pc = "segv"
    BY <2>2, <2>3
  <2>5. IdleJob.pc # "segv"
    BY DEF IdleJob
  <2>6. send_new_reply(w) /\ ~(job' = [job EXCEPT ![w] = IdleJob])
    BY <1>1, <2>4, <2>5 DEF send_reply, ServerTypeOK
  <2>7. job[w].pc = "reply" /\ conns = 0
    BY <1>1, <2>6 DEF send_new_reply, Conn
  <2> QED BY <1>1, <2>2, <2>3, <2>7
<1>3. ASSUME NEW c \in Conn, ServerSend(c, ReplyOf(w)), job' = [job EXCEPT ![w] = IdleJob]
      PROVE  JobEffect(w) /\ job'[w] = IdleJob
  <2>1. job'[w] = IdleJob /\ \A v \in Worker : v # w => job'[v] = job[v]
    BY <1>1, <1>3 DEF ServerTypeOK
  <2>2. IdleJob.req = NoReq
    BY DEF IdleJob
  <2>3. \A r : (Queued(r)' => Queued(r)) /\ (Sent(r)' => Sent(r) \/ r = ReplyOf(w))
    BY <1>1, <1>3, ServerSendMessages
  <2> QED BY <1>1, <2>1, <2>2, <2>3 DEF JobEffect
<1>4. CASE send_reply(w)
  BY <1>1, <1>3, <1>4 DEF send_reply
<1>5. CASE send_new_reply(w)
  <2>1. conns # 0 => conns \in Conn
    BY <1>1, ChanConstants DEF ServerTypeOK, Conn
  <2> QED BY <1>1, <1>2, <1>3, <1>5, <2>1 DEF send_new_reply
<1> QED
  BY <1>4, <1>5

\* What every step of a job does.
LEMMA JobStep_Effect ==
  ASSUME MessagesInv, NEW w \in Worker, (\E k \in Conn : rpcs_got_pdu(w, k)) \/ DispatchStep(w)
  PROVE  JobEffect(w)
BY rpcs_got_pdu_Step, dispatch_Step, checkduplicate_Step, run_handler_Step, send_reply_Step
   DEF DispatchStep

\* A restart leaves no job, no window and no request behind.
LEMMA Restart_Step ==
  ASSUME MessagesInv, Restart
  PROVE  /\ nonce \in Nonce /\ nonce' \in Nonce /\ nonce' = nonce + 1 /\ exec' = exec
         /\ \A w \in Worker : job'[w] = IdleJob
         /\ \A x \in Xid : rwin'[x] = "none"
         /\ \A r : ~Queued(r)' /\ (Sent(r)' => Sent(r))
<1>1. nonce \in Nonce /\ nonce' \in Nonce /\ nonce' = nonce + 1 /\ exec' = exec
  BY ChanConstants DEF MessagesInv, ServerInv, ServerTypeOK, Restart, Nonce
<1>2. (\A w \in Worker : job'[w] = IdleJob) /\ (\A x \in Xid : rwin'[x] = "none")
  BY DEF Restart, EmptyWindow
<1>3. \A k \in Conn : Len(c2s'[k]) = 0
  BY DEF Restart
<1>4. s2c' = s2c
  BY DEF Restart
<1> QED
  BY <1>1, <1>2, <1>3, <1>4 DEF Queued, Sent

\* A connection that fails loses messages only.
LEMMA Network_Step ==
  ASSUME MessagesInv, NetworkStep, NEW r
  PROVE  (Queued(r)' => Queued(r)) /\ (Sent(r)' => Sent(r))
BY ClientEndMessages, ServerEndMessages
   DEF NetworkStep, ClientReadFails, ServerReadFails, MessagesInv

-----------------------------------------------------------------------------
(* What any step can do *)

\* The request that the entry of call1 makes.
Issued(r) ==
  /\ \E t \in Thread, p \in Proc : call1(t, p) /\ r = ca'[t].req
  /\ UNCHANGED serverVars

\* The new request has the next xid, the binding of the moment and the front of
\* the window, and the window stays.
LEMMA IssuedRequest ==
  ASSUME MessagesInv, NEW r \in Request, Issued(r)
  PROVE  /\ xid \in Xid /\ r.xid = xid /\ r.srv = srv_nonce /\ r.rep = Front(win)
         /\ outcome'[xid].srv = srv_nonce /\ win' = win
<1>1. PICK t \in Thread, p \in Proc : call1(t, p) /\ r = ca'[t].req
  BY DEF Issued
<1>2. r = [xid |-> xid, proc |-> p, srv |-> srv_nonce, rep |-> Front(win)]
  BY <1>1, call1_Step
<1>3. r.xid = xid /\ r.srv = srv_nonce /\ r.rep = Front(win)
  BY <1>2
<1>4. xid \in Xid /\ outcome'[xid].srv = srv_nonce /\ win' = win
  BY <1>1, call1_Step
<1> QED
  BY <1>3, <1>4

\* A request is one of the calls made so far.
LEMMA HeldRequests ==
  ASSUME MessagesInv, NEW r \in Request, Held(r)
  PROVE  r.rep < r.xid /\ r.xid < xid /\ r.xid \in Xid
<1>1. r # NoReq /\ r.xid \in Xid
  BY NoReqFacts DEF Request
<1>2. WellFormed(r, xid)
  BY <1>1 DEF Held, Queued, MessagesInv, ChanInv, ClientInv, ServerInv, CallerOK, JobOK
<1> QED
  BY <1>1, <1>2 DEF WellFormed

\* Requests come from nowhere but call1, and are otherwise copied and moved.
LEMMA HeldStep ==
  ASSUME MessagesInv, [Next]_vars, NEW r \in Request, Held(r)'
  PROVE  Held(r) \/ Issued(r)
<1>0. r # NoReq
  BY NoReqFacts
<1>1. CASE ClientStep /\ UNCHANGED serverVars
  <2>0. job' = job
    BY <1>1 DEF serverVars
  <2>1. CASE \E t \in Thread, p \in Proc : call1(t, p)
    <3>1. PICK t \in Thread, p \in Proc : call1(t, p)
      BY <2>1
    <3>2. /\ \A u \in Thread : u # t => ca'[u] = ca[u]
          /\ ca'[t].forgot = NoReq /\ UNCHANGED <<dup_req, chanVars>>
      BY <3>1, call1_Step
    <3>3. CASE r = ca'[t].req
      BY <1>1, <3>1, <3>3 DEF Issued
    <3> QED BY <1>0, <2>0, <3>2, <3>3, SameMessages DEF Held
  <2>2. CASE \E t \in Thread : CallStep(t)
    <3>1. PICK t \in Thread : CallStep(t)
      BY <2>2
    <3>2. CallerStep(t) /\ RequestStep(t)
      BY <3>1, CallStep_Step
    <3>3. \A u \in Thread : u # t => ca'[u] = ca[u]
      BY <3>2 DEF CallerStep
    <3>4. ca'[t].req \in {ca[t].req, NoReq}
      BY <3>2 DEF CallerStep, NoCall
    <3>5. /\ ca'[t].forgot \in {ca[t].forgot, dup_req, NoReq}
          /\ dup_req' \in {dup_req, ca[t].req, NoReq}
          /\ Queued(r)' => Queued(r) \/ r \in {ca[t].req, ca[t].forgot}
      BY <3>2 DEF RequestStep
    <3> QED BY <1>0, <2>0, <3>3, <3>4, <3>5 DEF Held
  <2>3. CASE \E k \in Conn : rpcc_got_pdu(k)
    <3>1. (Queued(r)' => Queued(r)) /\ \E S, a, n : AnsweredBy(S, a, n)
      BY <2>3, rpcc_got_pdu_Step
    <3> QED BY <2>0, <3>1 DEF Held, AnsweredBy
  <2>4. CASE CancelStep
    <3>1. UNCHANGED chanVars /\ \E S, a, n : AnsweredBy(S, a, n)
      BY <2>4, cancel_Step
    <3> QED BY <2>0, <3>1, SameMessages DEF Held, AnsweredBy
  <2> QED BY <1>1, <2>1, <2>2, <2>3, <2>4 DEF ClientStep
<1>2. CASE ServerStep /\ UNCHANGED clientVars
  <2>1. ca' = ca /\ dup_req' = dup_req
    BY <1>2 DEF clientVars
  <2>2. PICK w \in Worker : JobEffect(w)
    BY <1>2, JobStep_Effect DEF ServerStep
  <2> QED BY <1>0, <2>1, <2>2 DEF Held, JobEffect
<1>3. CASE Restart /\ UNCHANGED clientVars
  <2>1. ca' = ca /\ dup_req' = dup_req
    BY <1>3 DEF clientVars
  <2>2. ~Queued(r)' /\ \A w \in Worker : job'[w].req = NoReq
    BY <1>3, Restart_Step DEF IdleJob
  <2> QED BY <1>0, <2>1, <2>2 DEF Held
<1>4. CASE NetworkStep /\ UNCHANGED <<clientVars, serverVars>>
  <2>1. UNCHANGED <<ca, dup_req, job>>
    BY <1>4 DEF clientVars, serverVars
  <2> QED BY <1>4, <2>1, Network_Step DEF Held
<1>5. CASE UNCHANGED vars
  <2>1. UNCHANGED <<ca, dup_req, job>> /\ UNCHANGED chanVars
    BY <1>5 DEF vars, clientVars, serverVars
  <2> QED BY <2>1, SameMessages DEF Held
<1> QED
  BY <1>1, <1>2, <1>3, <1>4, <1>5 DEF Next

\* The server's state when the client or the network moves, or nobody does.
LEMMA ServerOrNot ==
  ASSUME [Next]_vars
  PROVE  \/ UNCHANGED serverVars
         \/ UNCHANGED clientVars /\ \E w \in Worker :
              (\E k \in Conn : rpcs_got_pdu(w, k)) \/ DispatchStep(w)
         \/ UNCHANGED clientVars /\ Restart
BY DEF Next, vars, ServerStep

\* An execution is never undone, and every instance so far keeps its nonce.
LEMMA ExecutedStable ==
  ASSUME MessagesInv, [Next]_vars, NEW x \in Xid, NEW n, Executed(x, n)
  PROVE  Executed(x, n)'
<1>1. CASE UNCHANGED serverVars
  BY <1>1 DEF Executed, serverVars
<1>2. ASSUME NEW w \in Worker, (\E k \in Conn : rpcs_got_pdu(w, k)) \/ DispatchStep(w)
      PROVE  Executed(x, n)'
  BY <1>2, JobStep_Effect DEF JobEffect, Executed
<1>3. CASE Restart
  BY <1>3, Restart_Step DEF Executed
<1> QED
  BY <1>1, <1>2, <1>3, ServerOrNot

\* A reply on its way was on its way before, or is the one a job just sent.
LEMMA SentStep ==
  ASSUME MessagesInv, [Next]_vars, NEW r \in Reply, Sent(r)'
  PROVE  \/ Sent(r)
         \/ /\ UNCHANGED <<clientVars, nonce>>
            /\ \E w \in Worker : job[w].pc \in {"reply", "send"} /\ r = ReplyOf(w)
<1>1. CASE ClientStep
  <2>1. CASE \E t \in Thread, p \in Proc : call1(t, p)
    BY <2>1, call1_Step, SameMessages
  <2>2. CASE \E t \in Thread : CallStep(t)
    BY <2>2, CallStep_Step DEF RequestStep
  <2>3. CASE \E k \in Conn : rpcc_got_pdu(k)
    BY <2>3, rpcc_got_pdu_Step
  <2>4. CASE CancelStep
    BY <2>4, cancel_Step, SameMessages
  <2> QED BY <1>1, <2>1, <2>2, <2>3, <2>4 DEF ClientStep
<1>2. CASE ServerStep /\ UNCHANGED clientVars
  BY <1>2, JobStep_Effect DEF ServerStep, JobEffect
<1>3. CASE Restart
  BY <1>3, Restart_Step
<1>4. CASE NetworkStep
  BY <1>4, Network_Step
<1>5. CASE UNCHANGED vars
  BY <1>5, SameMessages DEF vars
<1> QED
  BY <1>1, <1>2, <1>3, <1>4, <1>5 DEF Next

\* What a step does to the result of a call: nothing, the binding at its start,
\* or the answer that its caller holds at its end.
LEMMA ResultOf ==
  ASSUME MessagesInv, [Next]_vars, NEW x \in Xid
  PROVE  \/ outcome'[x].ret = outcome[x].ret /\ outcome'[x].from = outcome[x].from
         \/ \E t \in Thread : /\ pc[t] # "idle" /\ x = ca[t].req.xid
                              /\ outcome'[x].ret = Result(t) /\ outcome'[x].from = ca[t].from
<1>1. outcome[x] \in [srv : 0 .. MaxNonce, ret : Ret, from : 0 .. MaxNonce]
  BY DEF MessagesInv, ClientInv, ClientTypeOK
<1>2. CASE ClientStep
  <2>1. CASE \E t \in Thread, p \in Proc : call1(t, p)
    BY <2>1, call1_Step
  <2>2. ASSUME NEW t \in Thread, CallStep(t)
        PROVE  \/ outcome'[x].ret = outcome[x].ret /\ outcome'[x].from = outcome[x].from
               \/ /\ pc[t] # "idle" /\ x = ca[t].req.xid
                  /\ outcome'[x].ret = Result(t) /\ outcome'[x].from = ca[t].from
    <3>1. ResultStep(t)
      BY <2>2, CallStep_Step
    <3>2. CASE outcome'[x] = outcome[x]
      BY <3>2
    <3>3. CASE /\ pc[t] # "idle" /\ x = ca[t].req.xid
               /\ outcome'[x] = [outcome[x] EXCEPT !.ret = Result(t), !.from = ca[t].from]
      BY <1>1, <3>3
    <3> QED BY <3>1, <3>2, <3>3 DEF ResultStep
  <2>3. CASE \E k \in Conn : rpcc_got_pdu(k)
    BY <2>3, rpcc_got_pdu_Step DEF AnsweredBy
  <2>4. CASE CancelStep
    BY <2>4, cancel_Step DEF AnsweredBy
  <2> QED BY <1>2, <2>1, <2>2, <2>3, <2>4 DEF ClientStep
<1>3. CASE UNCHANGED clientVars
  BY <1>3 DEF clientVars
<1> QED
  BY <1>2, <1>3 DEF Next, vars

\* The binding recorded for a call that has been made does not change.
LEMMA BindingOf ==
  ASSUME MessagesInv, [Next]_vars, NEW x \in Xid, x < xid
  PROVE  outcome'[x].srv = outcome[x].srv /\ x < xid'
<1>0. /\ outcome[x] \in [srv : 0 .. MaxNonce, ret : Ret, from : 0 .. MaxNonce]
      /\ xid \in Nat /\ x \in Nat /\ x # xid
  BY ChanConstants DEF MessagesInv, ClientInv, ClientTypeOK, Xid
<1>1. CASE ClientStep
  <2>1. CASE \E t \in Thread, p \in Proc : call1(t, p)
    <3>1. xid' = xid + 1 /\ outcome'[x] = outcome[x]
      BY <1>0, <2>1, call1_Step
    <3> QED BY <1>0, <3>1
  <2>2. ASSUME NEW t \in Thread, CallStep(t)
        PROVE  outcome'[x].srv = outcome[x].srv /\ xid' = xid
    BY ZenonT(40), <1>0, <2>2, CallStep_Step DEF ResultStep, CallerStep
  <2>3. CASE \E k \in Conn : rpcc_got_pdu(k)
    BY <2>3, rpcc_got_pdu_Step DEF AnsweredBy
  <2>4. CASE CancelStep
    BY <2>4, cancel_Step DEF AnsweredBy
  <2> QED BY <1>1, <2>1, <2>2, <2>3, <2>4 DEF ClientStep
<1>2. CASE UNCHANGED clientVars
  BY <1>2 DEF clientVars
<1> QED
  BY <1>1, <1>2 DEF Next, vars

-----------------------------------------------------------------------------
(* Only the bound instance *)

\* The initial state: nothing has been called or executed.
LEMMA InitBinding == Init => BindingInv
<1> SUFFICES ASSUME Init PROVE BindingInv
  OBVIOUS
<1>1. ASSUME NEW r \in Request PROVE ~Held(r)
  <2>1. r # NoReq
    BY NoReqFacts
  <2>2. \A k \in Conn : Len(c2s[k]) = 0
    BY DEF Init, ChanInit
  <2>3. \A t \in Thread : ca[t].req = NoReq /\ ca[t].forgot = NoReq
    BY DEF Init, ClientInit, NoCall
  <2>4. \A w \in Worker : job[w].req = NoReq
    BY DEF Init, ServerInit, IdleJob
  <2>5. ~Queued(r)
    BY <2>2 DEF Queued
  <2> QED BY <2>1, <2>3, <2>4, <2>5 DEF Held, Init, ClientInit
<1>2. \A w \in Worker : job[w].pc = "idle"
  BY DEF Init, ServerInit, IdleJob
<1>3. \A n \in Nonce, x \in Xid : exec[n][x] = 0
  BY DEF Init, ServerInit
<1> QED
  BY <1>1, <1>2, <1>3 DEF BindingInv

\* Every step keeps BindingInv.
LEMMA NextBinding ==
  ASSUME MessagesInv, BindingInv, [Next]_vars
  PROVE  BindingInv'
<1>1. ASSUME NEW r \in Request, Held(r)' PROVE r.srv = outcome'[r.xid].srv
  <2>1. CASE Held(r)
    BY <2>1, HeldRequests, BindingOf DEF BindingInv
  <2>2. CASE Issued(r)
    BY <2>2, IssuedRequest
  <2> QED BY <1>1, <2>1, <2>2, HeldStep
<1>2. ASSUME NEW v \in Worker, job'[v].pc \in {"check", "run"}
      PROVE  job'[v].req.srv \in {0, nonce'}
  <2>1. CASE UNCHANGED serverVars
    BY <1>2, <2>1 DEF serverVars, BindingInv
  <2>2. CASE Restart
    BY <1>2, <2>2, Restart_Step DEF IdleJob
  <2>3. ASSUME NEW w \in Worker, (\E k \in Conn : rpcs_got_pdu(w, k)) \/ DispatchStep(w)
        PROVE  job'[v].req.srv \in {0, nonce'}
    <3>1. nonce' = nonce /\ \A u \in Worker : u # w => job'[u] = job[u]
      BY <2>3, JobStep_Effect DEF JobEffect
    <3>2. CASE v # w
      BY <1>2, <3>1, <3>2 DEF BindingInv
    <3>3. CASE \E k \in Conn : rpcs_got_pdu(w, k)
      BY <1>2, <3>2, <3>3, rpcs_got_pdu_Step
    <3>4. CASE dispatch(w)
      BY <1>2, <3>1, <3>2, <3>4, dispatch_Step
    <3>5. CASE checkduplicate_and_update(w)
      BY <1>2, <3>1, <3>2, <3>5, checkduplicate_Step DEF BindingInv, IdleJob
    <3>6. CASE run_handler(w)
      BY <1>2, <3>2, <3>6, run_handler_Step
    <3>7. CASE send_new_reply(w) \/ send_reply(w)
      BY <1>2, <3>2, <3>7, send_reply_Step DEF IdleJob
    <3> QED BY <2>3, <3>3, <3>4, <3>5, <3>6, <3>7 DEF DispatchStep
  <2> QED BY <2>1, <2>2, <2>3, ServerOrNot
<1>3. ASSUME NEW n \in Nonce, NEW x \in Xid, exec'[n][x] > 0
      PROVE  x < xid' /\ outcome'[x].srv \in {0, n}
  <2> SUFFICES x < xid /\ outcome[x].srv \in {0, n}
    BY BindingOf
  <2>1. CASE exec' = exec
    BY <1>3, <2>1 DEF BindingInv
  <2>2. ASSUME NEW w \in Worker, run_handler(w)
        PROVE  x < xid /\ outcome[x].srv \in {0, n}
    <3>1. CASE n # nonce \/ x # job[w].req.xid
      BY <1>3, <2>2, <3>1, run_handler_Step DEF BindingInv
    <3>2. CASE n = nonce /\ x = job[w].req.xid
      <4>1. job[w].pc = "run" /\ job[w].req \in Request /\ x < xid
        BY <2>2, <3>2, run_handler_Step, JobFacts DEF MessagesInv
      <4>2. Held(job[w].req)
        BY DEF Held
      <4>3. job[w].req.srv = outcome[x].srv /\ job[w].req.srv \in {0, nonce}
        BY <3>2, <4>1, <4>2 DEF BindingInv
      <4> QED BY <3>2, <4>1, <4>3
    <3> QED BY <3>1, <3>2
  <2>3. exec' = exec \/ \E w \in Worker : run_handler(w)
    BY ServerOrNot, Restart_Step, rpcs_got_pdu_Step, dispatch_Step, checkduplicate_Step,
       send_reply_Step DEF serverVars, DispatchStep
  <2> QED BY <2>1, <2>2, <2>3
<1> QED
  BY <1>1, <1>2, <1>3 DEF BindingInv

\* Requests carry their caller's binding, and handlers have run for no other, in
\* every behaviour.
THEOREM BindingCorrect == Spec => []BindingInv
<1>1. MessagesInv /\ BindingInv /\ [Next]_vars => BindingInv'
  BY NextBinding
<1> QED
  BY <1>1, InitBinding, MessagesCorrect, PTL DEF Spec

\* The requests of a client never reach a handler of another instance than the
\* one it was bound to, however many restarts come between.
THEOREM OnlyBoundInstanceCorrect == Spec => []OnlyBoundInstance
<1>1. BindingInv => OnlyBoundInstance
  BY DEF BindingInv, OnlyBoundInstance, Executed
<1> QED
  BY <1>1, BindingCorrect, PTL

-----------------------------------------------------------------------------
(* The latest connection *)

\* Every step of the server of a client with a nonce keeps LatestInv.
LEMMA NextLatest ==
  ASSUME Retrans, MessagesInv, LatestInv, [Next]_vars
  PROVE  LatestInv'
<1>1. CASE UNCHANGED serverVars
  BY <1>1 DEF serverVars, LatestInv, Up
<1>2. CASE Restart
  BY <1>2, Restart_Step DEF LatestInv, Up, IdleJob
<1>3. ASSUME NEW w \in Worker, (\E k \in Conn : rpcs_got_pdu(w, k)) \/ DispatchStep(w)
      PROVE  LatestInv'
  <2>1. \A v \in Worker : v # w => job'[v] = job[v]
    BY <1>3, JobStep_Effect DEF JobEffect
  <2>2. ASSUME conns # 0 => conns' # 0, job'[w].pc # "segv",
               job'[w].pc \in {"check", "run", "reply"} => conns' # 0
        PROVE  LatestInv'
    BY <2>1, <2>2 DEF LatestInv, Up
  <2>3. CASE \E k \in Conn : rpcs_got_pdu(w, k)
    BY <2>2, <2>3, rpcs_got_pdu_Step
  <2>4. CASE dispatch(w)
    <3>1. job[w].conn \in Conn /\ conns \in Nat
      BY <2>4, JobFacts, ChanConstants DEF dispatch, MessagesInv, ServerInv, ServerTypeOK
    <3>2. Latest(job[w].conn) # 0
      BY <3>1, ChanConstants DEF Latest, Conn
    <3> QED BY <2>2, <2>4, <3>2, dispatch_Step
  <2>5. CASE checkduplicate_and_update(w)
    BY <2>2, <2>5, checkduplicate_Step DEF LatestInv, IdleJob
  <2>6. CASE run_handler(w)
    BY <2>2, <2>6, run_handler_Step DEF LatestInv
  <2>7. CASE send_new_reply(w) \/ send_reply(w)
    BY <2>2, <2>7, send_reply_Step DEF LatestInv, IdleJob
  <2> QED BY <1>3, <2>3, <2>4, <2>5, <2>6, <2>7 DEF DispatchStep
<1> QED
  BY <1>1, <1>2, <1>3, ServerOrNot

\* The reply of a client with a nonce is never moved to a null connection,
\* however many connections of the client came and went.
THEOREM LatestConnectionCorrect == Spec => []LatestConnectionExists
<1>1. CASE Retrans
  <2>1. Init => LatestInv
    BY DEF Init, ServerInit, IdleJob, LatestInv, Up
  <2>2. MessagesInv /\ LatestInv /\ [Next]_vars => LatestInv'
    BY <1>1, NextLatest
  <2>3. LatestInv => LatestConnectionExists
    BY DEF LatestInv, LatestConnectionExists
  <2> QED
    BY <2>1, <2>2, <2>3, MessagesCorrect, PTL DEF Spec
<1>2. CASE ~Retrans
  <2>1. LatestConnectionExists
    BY <1>2 DEF LatestConnectionExists
  <2> QED BY <2>1, PTL
<1> QED
  BY <1>1, <1>2

-----------------------------------------------------------------------------
(* A success means that the call was executed *)

\* The answers held by the server: in the window and in the jobs.
LEMMA ServerAnswers ==
  ASSUME MessagesInv, AnswerInv, [Next]_vars
  PROVE  /\ \A x \in Xid : rwin'[x] = "done" => exec'[nonce'][x] > 0
         /\ \A v \in Worker : job'[v].pc \in {"reply", "send"} /\ job'[v].ret = "ok"
                                => exec'[nonce'][job'[v].req.xid] > 0
<1>1. CASE UNCHANGED serverVars
  BY <1>1 DEF serverVars, AnswerInv, Executed
<1>2. CASE Restart
  BY <1>2, Restart_Step DEF IdleJob
<1>3. ASSUME NEW w \in Worker, (\E k \in Conn : rpcs_got_pdu(w, k)) \/ DispatchStep(w)
      PROVE  /\ \A x \in Xid : rwin'[x] = "done" => exec'[nonce'][x] > 0
             /\ \A v \in Worker : job'[v].pc \in {"reply", "send"} /\ job'[v].ret = "ok"
                                    => exec'[nonce'][job'[v].req.xid] > 0
  <2>1. nonce' = nonce /\ (\A v \in Worker : v # w => job'[v] = job[v]) /\ nonce \in Nonce
    BY <1>3, JobStep_Effect DEF JobEffect, MessagesInv, ServerInv, ServerTypeOK
  <2>2. \A x \in Xid : rwin[x] = "done" => exec'[nonce'][x] > 0
    BY <2>1, ExecutedStable DEF AnswerInv, Executed
  <2>3. \A v \in Worker : job[v].pc \in {"reply", "send"} /\ job[v].ret = "ok"
                            => exec'[nonce'][job[v].req.xid] > 0
    BY <2>1, ExecutedStable, JobFacts DEF AnswerInv, MessagesInv, Executed
  <2>4. ASSUME \A x \in Xid : rwin'[x] = "done" => exec'[nonce'][x] > 0,
               job'[w].pc \in {"reply", "send"} /\ job'[w].ret = "ok"
                 => exec'[nonce'][job'[w].req.xid] > 0
        PROVE  /\ \A x \in Xid : rwin'[x] = "done" => exec'[nonce'][x] > 0
               /\ \A v \in Worker : job'[v].pc \in {"reply", "send"} /\ job'[v].ret = "ok"
                                      => exec'[nonce'][job'[v].req.xid] > 0
    BY <2>1, <2>3, <2>4
  <2>5. CASE \E k \in Conn : rpcs_got_pdu(w, k)
    BY <2>2, <2>4, <2>5, rpcs_got_pdu_Step
  <2>6. CASE dispatch(w)
    BY <2>2, <2>4, <2>6, dispatch_Step
  <2>7. CASE checkduplicate_and_update(w)
    <3>1. job[w].req \in Request /\ job[w].req.xid \in Xid /\ job[w].pc = "check"
      BY <2>7, JobFacts DEF checkduplicate_and_update, MessagesInv
    <3>2. CASE rwin' = rwin
      BY <2>2, <2>4, <2>7, <3>1, <3>2, checkduplicate_Step DEF IdleJob
    <3>3. CASE rwin' = Inserted(job[w].req) /\ job'[w].pc = "run"
      <4>1. \A x \in Xid : rwin'[x] = "done" => rwin[x] = "done"
        BY <3>3 DEF Inserted
      <4> QED BY <2>2, <2>4, <3>3, <4>1
    <3> QED BY <2>7, <3>2, <3>3, checkduplicate_Step
  <2>8. CASE run_handler(w)
    <3>1. exec'[nonce'][job[w].req.xid] > 0 /\ job'[w].req = job[w].req
      BY <2>1, <2>8, run_handler_Step DEF Executed
    <3>2. \A x \in Xid : rwin'[x] = "done" => exec'[nonce'][x] > 0
      BY <2>2, <2>8, <3>1, run_handler_Step
    <3> QED BY <2>4, <3>1, <3>2
  <2>9. CASE send_new_reply(w) \/ send_reply(w)
    BY <2>2, <2>4, <2>9, send_reply_Step DEF IdleJob
  <2> QED BY <1>3, <2>5, <2>6, <2>7, <2>8, <2>9 DEF DispatchStep
<1> QED
  BY <1>1, <1>2, <1>3, ServerOrNot

\* An answer that a caller holds after a step it held before, or it has just
\* been cancelled, or a reply on its way has just reached the waiting call.
LEMMA DoneStep ==
  ASSUME MessagesInv, [Next]_vars, NEW t \in Thread, pc'[t] # "idle", ca'[t].done
  PROVE  \/ /\ pc[t] # "idle" /\ ca[t].done
            /\ ca'[t].req = ca[t].req /\ ca'[t].ret = ca[t].ret /\ ca'[t].from = ca[t].from
         \/ ca'[t].ret = "cancel"
         \/ \E h \in Reply : /\ Sent(h) /\ Live(h.xid) /\ ca'[t].req.xid = h.xid
                             /\ ca'[t].ret = h.ret /\ ca'[t].from = h.from
<1>1. CASE ClientStep
  <2>1. CASE \E u \in Thread, p \in Proc : call1(u, p)
    BY <2>1, call1_Step
  <2>2. ASSUME NEW u \in Thread, CallStep(u)
        PROVE  /\ pc[t] # "idle" /\ ca[t].done
               /\ ca'[t].req = ca[t].req /\ ca'[t].ret = ca[t].ret /\ ca'[t].from = ca[t].from
    <3>1. CallerStep(u)
      BY <2>2, CallStep_Step
    <3>2. pc[u] # "idle"
      BY <2>2 DEF CallStep, get_refconn, take_forgot, send_forgot, send_req, retransmit,
                  last_transmit, erase, LoopEnds, keep_dup_req, bind
    <3> QED BY <3>1, <3>2 DEF CallerStep
  <2>3. ASSUME NEW k \in Conn, rpcc_got_pdu(k)
        PROVE  \/ /\ pc[t] # "idle" /\ ca[t].done
                  /\ ca'[t].req = ca[t].req /\ ca'[t].ret = ca[t].ret /\ ca'[t].from = ca[t].from
               \/ \E h \in Reply : /\ Sent(h) /\ Live(h.xid) /\ ca'[t].req.xid = h.xid
                                   /\ ca'[t].ret = h.ret /\ ca'[t].from = h.from
    <3>1. PICK h \in Reply :
            /\ Sent(h)
            /\ AnsweredBy({u \in Outstanding : ca[u].req.xid = h.xid /\ ~ca[u].done},
                          h.ret, h.from)
      BY <2>3, rpcc_got_pdu_Step
    <3>2. CASE t \in Outstanding /\ ca[t].req.xid = h.xid /\ ~ca[t].done
      BY <3>1, <3>2 DEF AnsweredBy, Live
    <3>3. CASE ~(t \in Outstanding /\ ca[t].req.xid = h.xid /\ ~ca[t].done)
      BY <3>1, <3>3 DEF AnsweredBy
    <3> QED BY <3>2, <3>3
  <2>4. CASE CancelStep
    BY <2>4, cancel_Step DEF AnsweredBy
  <2> QED BY <1>1, <2>1, <2>2, <2>3, <2>4 DEF ClientStep
<1>2. CASE UNCHANGED clientVars
  BY <1>2 DEF clientVars
<1> QED
  BY <1>1, <1>2 DEF Next, vars

\* Every step keeps AnswerInv.
LEMMA NextAnswer ==
  ASSUME MessagesInv, AnswerInv, [Next]_vars
  PROVE  AnswerInv'
<1>0. nonce' \in Nonce
  BY NextMessages DEF MessagesInv, ServerInv, ServerTypeOK
<1>1. /\ \A x \in Xid : rwin'[x] = "done" => Executed(x, nonce)'
      /\ \A w \in Worker : (job[w].pc \in {"reply", "send"} /\ job[w].ret = "ok"
                              => Executed(job[w].req.xid, nonce))'
  BY <1>0, ServerAnswers DEF Executed
<1>2. ASSUME NEW r \in Reply, Sent(r)', r.ret = "ok"
      PROVE  Executed(r.xid, r.from)'
  <2>1. r.xid \in Xid
    BY DEF Reply
  <2>2. Executed(r.xid, r.from)
    <3>1. ASSUME NEW w \in Worker, job[w].pc \in {"reply", "send"}, r = ReplyOf(w)
          PROVE  Executed(r.xid, r.from)
      <4>1. r.xid = job[w].req.xid /\ r.ret = job[w].ret /\ r.from = nonce
        BY <3>1 DEF ReplyOf
      <4> QED BY <1>2, <3>1, <4>1 DEF AnswerInv
    <3> QED BY <1>2, <3>1, SentStep DEF AnswerInv
  <2> QED BY <2>1, <2>2, ExecutedStable
<1>3. ASSUME NEW t \in Thread, pc'[t] # "idle", ca'[t].done, ca'[t].ret = "ok"
      PROVE  Executed(ca[t].req.xid, ca[t].from)'
  <2>1. ca'[t].req.xid \in Xid
    BY <1>3, NextMessages, NoReqFacts
       DEF MessagesInv, ClientInv, CallerOK, Request
  <2>2. Executed(ca'[t].req.xid, ca'[t].from)
    BY <1>3, DoneStep DEF AnswerInv
  <2> QED BY <2>1, <2>2, ExecutedStable
<1>4. ASSUME NEW x \in Xid, outcome'[x].ret = "ok"
      PROVE  Executed(x, outcome[x].from)'
  <2>1. Executed(x, outcome'[x].from)
    BY <1>4, ResultOf DEF AnswerInv, OkMeansExecuted, Result
  <2> QED BY <2>1, ExecutedStable
<1> QED
  BY <1>1, <1>2, <1>3, <1>4 DEF AnswerInv, OkMeansExecuted

\* The initial state: nobody holds an answer.
LEMMA InitAnswer == Init => AnswerInv
<1> SUFFICES ASSUME Init PROVE AnswerInv
  OBVIOUS
<1>1. \A k \in Conn : Len(s2c[k]) = 0
  BY DEF Init, ChanInit
<1>2. \A r : ~Sent(r)
  BY <1>1 DEF Sent
<1>3. \A t \in Thread : pc[t] = "idle"
  BY DEF Init, ClientInit
<1>4. \A w \in Worker : job[w].pc = "idle"
  BY DEF Init, ServerInit, IdleJob
<1>5. \A x \in Xid : rwin[x] = "none" /\ outcome[x].ret = "none"
  BY DEF Init, ServerInit, ClientInit, EmptyWindow, Open
<1> QED
  BY <1>2, <1>3, <1>4, <1>5 DEF AnswerInv, OkMeansExecuted

\* A call that returns 0 has been executed by the instance that answered it,
\* whatever was lost, repeated or delayed, and with or without a nonce.
THEOREM OkMeansExecutedCorrect == Spec => []OkMeansExecuted
<1>1. MessagesInv /\ AnswerInv /\ [Next]_vars => AnswerInv'
  BY NextAnswer
<1>2. AnswerInv => OkMeansExecuted
  BY DEF AnswerInv
<1> QED
  BY <1>1, <1>2, InitAnswer, MessagesCorrect, PTL DEF Spec

-----------------------------------------------------------------------------
(* The window of answered calls stays below the calls that wait *)

\* A call in calls_ was there before the step, with the same request, or has
\* just been made.
LEMMA OutstandingStep ==
  ASSUME MessagesInv, [Next]_vars, NEW t \in Outstanding'
  PROVE  /\ t \in Thread
         /\ \/ /\ t \in Outstanding /\ ca'[t].req = ca[t].req
               /\ ca[t].done => ca'[t].done
            \/ UNCHANGED serverVars /\ \E p \in Proc : call1(t, p)
<1>0. t \in Thread
  BY DEF Outstanding
<1>1. CASE ClientStep /\ UNCHANGED serverVars
  <2>1. ASSUME NEW u \in Thread, NEW p \in Proc, call1(u, p)
        PROVE  t = u \/ (t \in Outstanding /\ ca'[t] = ca[t])
    BY <1>0, <2>1, call1_Step DEF Outstanding
  <2>2. ASSUME NEW u \in Thread, CallStep(u)
        PROVE  t \in Outstanding /\ ca'[t].req = ca[t].req /\ ca'[t].done = ca[t].done
    BY <1>0, <2>2, CallStep_Step DEF CallerStep, Outstanding
  <2>3. CASE \E k \in Conn : rpcc_got_pdu(k)
    <3>1. \E S, a, n : AnsweredBy(S, a, n)
      BY <2>3, rpcc_got_pdu_Step
    <3> QED BY <1>0, <3>1 DEF AnsweredBy, Outstanding
  <2>4. CASE CancelStep
    <3>1. \E S, a, n : AnsweredBy(S, a, n)
      BY <2>4, cancel_Step
    <3> QED BY <1>0, <3>1 DEF AnsweredBy, Outstanding
  <2> QED BY <1>0, <1>1, <2>1, <2>2, <2>3, <2>4 DEF ClientStep
<1>2. CASE UNCHANGED clientVars
  BY <1>0, <1>2 DEF clientVars, Outstanding
<1> QED
  BY <1>1, <1>2 DEF Next, vars

\* A call that waits after a step waited before, or has just been made.
LEMMA LiveStep ==
  ASSUME MessagesInv, [Next]_vars, NEW x, Live(x)'
  PROVE  \/ Live(x)
         \/ x = xid /\ xid \in Xid /\ win' = win /\ UNCHANGED serverVars
<1>1. PICK t \in Outstanding' : ca'[t].req.xid = x /\ ~ca'[t].done
  BY DEF Live
<1>2. t \in Thread
  BY <1>1, OutstandingStep
<1>3. CASE t \in Outstanding /\ ca'[t].req = ca[t].req /\ (ca[t].done => ca'[t].done)
  BY <1>1, <1>3 DEF Live
<1>4. ASSUME NEW p \in Proc, call1(t, p)
      PROVE  x = xid /\ xid \in Xid /\ win' = win
  BY <1>1, <1>2, <1>4, call1_Step
<1> QED
  BY <1>1, <1>3, <1>4, OutstandingStep

\* A call that waits has one of the xids handed out.
LEMMA LiveXid ==
  ASSUME MessagesInv, NEW x, Live(x)
  PROVE  x \in Xid /\ x < xid
<1>1. PICK t \in Outstanding : ca[t].req.xid = x
  BY DEF Live
<1>2. t \in Thread /\ pc[t] # "idle"
  BY <1>1 DEF Outstanding
<1>3. ca[t].req \in Request /\ WellFormed(ca[t].req, xid)
  BY <1>2, CallerFacts DEF MessagesInv
<1> QED
  BY <1>1, <1>3, NoReqFacts DEF WellFormed, Request

\* The window is a non-empty set of xids handed out, with a front.
LEMMA WindowFacts ==
  ASSUME MessagesInv
  PROVE  /\ xid \in Nat /\ win \in SUBSET (0 .. MaxXid) /\ win # {}
         /\ Front(win) \in Nat /\ Front(win) < xid
         /\ \A y \in win : y < xid
<1>1. xid \in Nat /\ win \in SUBSET (0 .. MaxXid) /\ win # {} /\ win \subseteq 0 .. xid - 1
  BY ChanConstants DEF MessagesInv, ClientInv, ClientTypeOK
<1>2. win \in SUBSET Nat /\ \A y \in win : y < xid
  BY <1>1
<1>3. Front(win) \in win
  BY <1>1, <1>2, FrontLeast
<1> QED
  BY <1>1, <1>2, <1>3

\* Only an xid that nobody waits for is counted as answered.
LEMMA AnsweredXid ==
  ASSUME MessagesInv, WindowInv, [Next]_vars, NEW x \in Xid, Live(x), Live(x)', win' # win
  PROVE  \E y \in Xid : y # x /\ win' = update_xid_rep(win, y)
<1>1. PICK u \in Outstanding' : ca'[u].req.xid = x /\ ~ca'[u].done
  BY DEF Live
<1>2. CASE \E t \in Thread, p \in Proc : call1(t, p)
  BY <1>2, call1_Step
<1>3. ASSUME NEW t \in Thread, CallStep(t)
      PROVE  \E y \in Xid : y # x /\ win' = update_xid_rep(win, y)
  <2>1. CallerStep(t) /\ AnsweredStep(t)
    BY <1>3, CallStep_Step
  <2>2. t \in Outstanding /\ t \notin Outstanding' /\ win' = update_xid_rep(win, ca[t].req.xid)
    BY <2>1 DEF AnsweredStep
  <2>3. u # t /\ u \in Outstanding /\ ca[u].req.xid = x
    BY <1>1, <2>1, <2>2 DEF CallerStep, Outstanding
  <2>4. ca[t].req.xid # x
    BY <2>2, <2>3 DEF WindowInv
  <2>5. ca[t].req.xid \in Xid
    BY <2>2, CallerFacts DEF MessagesInv, Outstanding, Request
  <2> QED BY <2>2, <2>4, <2>5
<1>4. ASSUME NEW k \in Conn, rpcc_got_pdu(k)
      PROVE  \E y \in Xid : y # x /\ win' = update_xid_rep(win, y)
  <2>1. PICK h \in Reply :
          /\ win' = update_xid_rep(win, h.xid)
          /\ AnsweredBy({t \in Outstanding : ca[t].req.xid = h.xid /\ ~ca[t].done},
                        h.ret, h.from)
    BY <1>4, rpcc_got_pdu_Step
  <2>2. u \in Thread /\ u \in Outstanding
    BY <1>1, <2>1 DEF AnsweredBy, Outstanding
  <2>3. ca[u].req.xid = x /\ ~(ca[u].req.xid = h.xid /\ ~ca[u].done)
    BY <1>1, <2>1, <2>2 DEF AnsweredBy
  <2>4. ~ca[u].done
    BY <1>1, <2>1, <2>2, <2>3 DEF AnsweredBy
  <2>5. h.xid \in Xid /\ h.xid # x
    BY <2>3, <2>4 DEF Reply
  <2> QED BY <2>1, <2>5
<1>5. CASE CancelStep
  BY <1>5, cancel_Step
<1>6. CASE UNCHANGED clientVars
  BY <1>6 DEF clientVars
<1> QED
  BY <1>2, <1>3, <1>4, <1>5, <1>6 DEF Next, vars, ClientStep

\* Every step keeps WindowInv.
LEMMA NextWindow ==
  ASSUME MessagesInv, WindowInv, [Next]_vars
  PROVE  WindowInv'
<1>1. ASSUME NEW t \in Outstanding', NEW u \in Outstanding', ca'[t].req.xid = ca'[u].req.xid
      PROVE  t = u
  <2>0. t \in Thread /\ u \in Thread
    BY OutstandingStep
  <2>1. ASSUME NEW v \in Thread, v \in Outstanding, NEW p \in Proc, NEW s \in Thread, call1(s, p),
               ca'[v].req = ca[v].req
        PROVE  ca'[v].req.xid # ca'[s].req.xid
    <3>1. ca'[s].req.xid = xid
      BY <2>1, call1_Step
    <3>2. ca[v].req \in Request /\ WellFormed(ca[v].req, xid)
      BY <2>1, CallerFacts DEF MessagesInv, Outstanding
    <3>3. ca[v].req.xid < xid
      BY <3>2, NoReqFacts DEF WellFormed
    <3> QED BY <2>1, <3>1, <3>3, WindowFacts
  <2>2. CASE t \in Outstanding /\ u \in Outstanding /\ ca'[t].req = ca[t].req /\ ca'[u].req = ca[u].req
    BY <1>1, <2>2 DEF WindowInv
  <2>3. ASSUME NEW p \in Proc, NEW s \in Thread, call1(s, p), NEW v \in Outstanding', v # s
        PROVE  ca'[v].req.xid # ca'[s].req.xid
    <3>1. v \in Thread
      BY DEF Outstanding
    <3>2. ca'[v] = ca[v] /\ pc'[v] = pc[v]
      BY <2>3, <3>1, call1_Step
    <3>3. v \in Outstanding
      BY <3>1, <3>2 DEF Outstanding
    <3> QED BY <2>1, <2>3, <3>1, <3>2, <3>3
  <2>4. ASSUME NEW p \in Proc, call1(t, p) PROVE t = u
    BY <1>1, <2>0, <2>3, <2>4
  <2>5. ASSUME NEW p \in Proc, call1(u, p) PROVE t = u
    BY <1>1, <2>0, <2>3, <2>5
  <2> QED BY <2>2, <2>4, <2>5, OutstandingStep
<1>2. ASSUME NEW x \in Xid, Live(x)' PROVE x \notin win' /\ Front(win') < x
  <2>1. CASE x = xid /\ win' = win
    BY <2>1, WindowFacts
  <2>2. CASE Live(x) /\ win' = win
    BY <2>2 DEF WindowInv
  <2>3. CASE Live(x) /\ win' # win
    <3>1. PICK y \in Xid : y # x /\ win' = update_xid_rep(win, y)
      BY <1>2, <2>3, AnsweredXid
    <3>2. x \notin win /\ Front(win) < x /\ x \in Nat /\ y \in 0 .. MaxXid /\ MaxXid \in Nat
      BY <2>3, ChanConstants DEF WindowInv, Xid
    <3> QED BY <3>1, <3>2, WindowFacts, UpdateKeepsGaps
  <2> QED BY <1>2, <2>1, <2>2, <2>3, LiveStep
<1>3. ASSUME NEW r \in Request, NEW x \in Xid, Held(r)', Live(x)'
      PROVE  r.rep < x
  <2>1. Held(r) \/ (r.rep = Front(win) /\ xid \in Xid)
    BY <1>3, HeldStep, IssuedRequest
  <2>2. Live(x) \/ x = xid
    BY <1>3, LiveStep
  <2>3. CASE Held(r) /\ Live(x)
    BY <2>3 DEF WindowInv
  <2>4. CASE Held(r) /\ x = xid
    <3>1. r.rep < r.xid /\ r.xid < xid /\ r.rep \in Nat /\ r.xid \in Nat /\ xid \in Nat
      BY <2>4, HeldRequests, WindowFacts, ChanConstants DEF Request, Xid
    <3> QED BY <2>4, <3>1
  <2>5. CASE r.rep = Front(win) /\ Live(x)
    BY <2>5 DEF WindowInv
  <2>6. CASE r.rep = Front(win) /\ x = xid
    BY <2>6, WindowFacts
  <2> QED BY <2>1, <2>2, <2>3, <2>4, <2>5, <2>6
<1> QED
  BY <1>1, <1>2, <1>3 DEF WindowInv

\* In the initial state nobody waits.
LEMMA InitLive == Init => Outstanding = {} /\ \A x : ~Live(x)
BY DEF Init, ClientInit, Outstanding, Live

\* No xid_rep in circulation, and no front of the window, ever passes a call
\* that still waits for its reply.
THEOREM WindowCorrect == Spec => []WindowInv
<1>1. Init => WindowInv
  BY InitLive DEF WindowInv
<1>2. MessagesInv /\ WindowInv /\ [Next]_vars => WindowInv'
  BY NextWindow
<1> QED
  BY <1>1, <1>2, MessagesCorrect, PTL DEF Spec

-----------------------------------------------------------------------------
(* An unacknowledged reply is kept *)

\* A step of the server neither starts nor ends a call.
LEMMA LiveUnchanged ==
  ASSUME UNCHANGED clientVars, NEW x
  PROVE  Live(x)' <=> Live(x)
BY DEF clientVars, Live, Outstanding

\* Nothing has been executed, and nothing runs, for an xid not handed out.
LEMMA NotYetCalled ==
  ASSUME MessagesInv, BindingInv, xid \in Xid
  PROVE  ~Executed(xid, nonce) /\ \A w \in Worker : ~Running(w, xid)
<1>1. xid \in Nat
  BY WindowFacts
<1>2. ~Executed(xid, nonce)
  BY <1>1 DEF BindingInv, Executed
<1>3. \A w \in Worker : job[w].pc = "run" => job[w].req.xid < xid
  BY JobFacts DEF MessagesInv
<1> QED
  BY <1>1, <1>2, <1>3 DEF Running

\* Every step keeps KeptInv for a client with a nonce.
LEMMA NextKept ==
  ASSUME Retrans, MessagesInv, BindingInv, ExecutionInv, WindowInv, KeptInv, [Next]_vars
  PROVE  KeptInv'
<1> SUFFICES ASSUME NEW x \in Xid, Live(x)',
                    Executed(x, nonce)' \/ \E v \in Worker : Running(v, x)'
             PROVE  rwin'[x] # "none"
  BY DEF KeptInv
<1>1. CASE UNCHANGED serverVars
  <2>1. /\ Executed(x, nonce)' <=> Executed(x, nonce)
        /\ \A v \in Worker : Running(v, x)' <=> Running(v, x)
        /\ rwin' = rwin
    BY <1>1 DEF serverVars, Executed, Running
  <2>2. CASE Live(x)
    BY <2>1, <2>2 DEF KeptInv
  <2>3. CASE x = xid /\ xid \in Xid
    BY <2>1, <2>3, NotYetCalled
  <2> QED BY <2>2, <2>3, LiveStep
<1>2. ASSUME UNCHANGED clientVars, NEW w \in Worker,
             (\E k \in Conn : rpcs_got_pdu(w, k)) \/ DispatchStep(w)
      PROVE  rwin'[x] # "none"
  <2>1. Live(x)
    BY <1>2, LiveUnchanged
  <2>2. nonce' = nonce /\ \A v \in Worker : v # w => job'[v] = job[v]
    BY <1>2, JobStep_Effect DEF JobEffect
  <2>3. \A v \in Worker : v # w => (Running(v, x)' <=> Running(v, x))
    BY <2>2 DEF Running
  <2>4. ASSUME exec' = exec, ~Running(w, x)' PROVE rwin[x] # "none"
    BY <2>1, <2>2, <2>3, <2>4 DEF KeptInv, Executed
  <2>5. CASE \E k \in Conn : rpcs_got_pdu(w, k)
    BY <2>4, <2>5, rpcs_got_pdu_Step DEF Running
  <2>6. CASE dispatch(w)
    BY <2>4, <2>6, dispatch_Step DEF Running
  <2>7. CASE checkduplicate_and_update(w)
    <3>1. PICK h \in Request : h = job[w].req
      BY <2>7, JobFacts DEF checkduplicate_and_update, MessagesInv
    <3>2. CASE rwin' = rwin /\ job'[w].pc # "run"
      BY <2>4, <2>7, <3>2, checkduplicate_Step DEF Running
    <3>3. CASE rwin' = Inserted(h) /\ job'[w].req = h
      <4>1. Held(h)
        BY <3>1 DEF Held
      <4>2. h.rep < x /\ h.rep \in Nat /\ x \in Nat
        BY <2>1, <4>1, ChanConstants DEF WindowInv, Request, Xid
      <4>3. rwin'[x] = IF x = h.xid THEN "inprogress" ELSE rwin[x]
        BY <3>3, <4>2 DEF Inserted
      <4>4. CASE x # h.xid
        BY <2>4, <2>7, <3>3, <4>3, <4>4, checkduplicate_Step DEF Running
      <4> QED BY <4>3, <4>4
    <3> QED BY <2>7, <3>1, <3>2, <3>3, checkduplicate_Step DEF IdleJob
  <2>8. CASE run_handler(w)
    <3>1. CASE x = job[w].req.xid
      <4>1. Running(w, x)
        BY <2>8, <3>1, run_handler_Step DEF Running
      <4>2. rwin[x] # "none"
        BY <2>1, <4>1 DEF KeptInv
      <4> QED BY <2>8, <3>1, <4>2, run_handler_Step
    <3>2. CASE x # job[w].req.xid
      <4>1. exec'[nonce][x] = exec[nonce][x] /\ rwin'[x] = rwin[x] /\ ~Running(w, x)'
        BY <2>8, <3>2, run_handler_Step DEF Running, MessagesInv, ServerInv, ServerTypeOK
      <4>2. Executed(x, nonce)' <=> Executed(x, nonce)
        BY <2>2, <4>1 DEF Executed
      <4> QED BY <2>1, <2>3, <4>1, <4>2 DEF KeptInv
    <3> QED BY <3>1, <3>2
  <2>9. CASE send_new_reply(w) \/ send_reply(w)
    BY <2>4, <2>9, send_reply_Step DEF Running, IdleJob
  <2> QED BY <1>2, <2>5, <2>6, <2>7, <2>8, <2>9 DEF DispatchStep
<1>3. CASE Restart
  <2>1. \A v \in Worker : ~Running(v, x)'
    BY <1>3, Restart_Step DEF Running, IdleJob
  <2>2. nonce' > nonce
    BY <1>3, Restart_Step, ChanConstants DEF Nonce
  <2>3. ~Executed(x, nonce)'
    BY <1>3, <2>2, Restart_Step DEF Executed, ExecutionInv
  <2> QED BY <2>1, <2>3
<1> QED
  BY <1>1, <1>2, <1>3, ServerOrNot

\* KeptInv holds in every behaviour of a client with a nonce.
THEOREM KeptCorrect == Retrans => (Spec => []KeptInv)
<1> SUFFICES ASSUME Retrans PROVE Spec => []KeptInv
  OBVIOUS
<1>1. Init => KeptInv
  BY InitLive DEF KeptInv
<1>2. MessagesInv /\ BindingInv /\ ExecutionInv /\ WindowInv /\ KeptInv /\ [Next]_vars => KeptInv'
  BY NextKept
<1>3. Spec => []ExecutionInv
  BY ExecutionCorrect
<1> QED
  BY <1>1, <1>2, <1>3, MessagesCorrect, BindingCorrect, WindowCorrect, PTL DEF Spec

\* As long as a caller waits, the instance that executed its call has kept the
\* reply: the xid_rep of no request, however late or repeated, made it forget.
THEOREM UnackedReplyKeptCorrect == Retrans => (Spec => []UnackedReplyKept)
<1> SUFFICES ASSUME Retrans PROVE Spec => []UnackedReplyKept
  OBVIOUS
<1>1. KeptInv => UnackedReplyKept
  BY DEF KeptInv, UnackedReplyKept
<1>2. Spec => []KeptInv
  BY KeptCorrect
<1> QED
  BY <1>1, <1>2, PTL

-----------------------------------------------------------------------------
(* A refusal is a promise *)

\* What the server knows it goes on knowing until it restarts, and it runs no
\* handler for it that was not running already.
LEMMA KnownStep ==
  ASSUME Retrans, MessagesInv, NEW w \in Worker,
         (\E k \in Conn : rpcs_got_pdu(w, k)) \/ DispatchStep(w),
         NEW x \in Xid, Known(x)
  PROVE  Known(x)' /\ \A v \in Worker : Running(v, x)' => Running(v, x)
<1>1. \A v \in Worker : v # w => (Running(v, x)' <=> Running(v, x))
  BY JobStep_Effect DEF JobEffect, Running
<1>2. ASSUME rwin' = rwin, ~Running(w, x)'
      PROVE  Known(x)' /\ \A v \in Worker : Running(v, x)' => Running(v, x)
  BY <1>1, <1>2 DEF Known, TooOld, Remembered
<1>3. CASE \E k \in Conn : rpcs_got_pdu(w, k)
  BY <1>2, <1>3, rpcs_got_pdu_Step DEF Running
<1>4. CASE dispatch(w)
  BY <1>2, <1>4, dispatch_Step DEF Running
<1>5. CASE checkduplicate_and_update(w)
  <2>1. PICK h \in Request : h = job[w].req
    BY <1>5, JobFacts DEF checkduplicate_and_update, MessagesInv
  <2>2. CASE rwin' = rwin /\ job'[w].pc # "run"
    BY <1>2, <2>2 DEF Running
  <2>3. CASE /\ rwin[h.xid] = "none" /\ ~TooOld(h.xid) /\ rwin' = Inserted(h)
             /\ job'[w].req = h
    <3>1. ServerTypeOK /\ h.rep < h.xid
      BY <1>5, <2>1, JobFacts DEF checkduplicate_and_update, MessagesInv, ServerInv
    <3>2. Known(x)' /\ ~Known(h.xid)
      BY <2>3, <3>1, KnownStable
    <3>3. ~Running(w, x)'
      BY <2>3, <3>2 DEF Running
    <3> QED BY <1>1, <3>2, <3>3
  <2> QED BY <1>5, <2>1, <2>2, <2>3, checkduplicate_Step DEF IdleJob
<1>6. CASE run_handler(w)
  <2>1. \A y \in Xid : rwin'[y] = "none" <=> rwin[y] = "none"
    BY <1>6, run_handler_Step
  <2>2. Remembered' = Remembered
    BY <2>1 DEF Remembered
  <2>3. Known(x)'
    BY <2>1, <2>2 DEF Known, TooOld
  <2>4. ~Running(w, x)'
    BY <1>6, run_handler_Step DEF Running
  <2> QED BY <1>1, <2>3, <2>4
<1>7. CASE send_new_reply(w) \/ send_reply(w)
  BY <1>2, <1>7, send_reply_Step DEF Running, IdleJob
<1> QED
  BY <1>3, <1>4, <1>5, <1>6, <1>7 DEF DispatchStep

\* An instance that has refused a call will not execute it.
LEMMA RefusedStable ==
  ASSUME Retrans, MessagesInv, [Next]_vars, NEW x \in Xid, NEW n, Refused(x, n)
  PROVE  Refused(x, n)'
<1>0. n \in Nonce /\ n <= nonce /\ exec[n][x] = 0 /\ n \in Nat /\ nonce \in Nat /\ nonce \in Nonce
  BY ChanConstants DEF Refused, MessagesInv, ServerInv, ServerTypeOK, Nonce
<1>1. CASE UNCHANGED serverVars
  BY <1>1 DEF serverVars, Refused, Known, TooOld, Remembered, Running
<1>2. ASSUME NEW w \in Worker, (\E k \in Conn : rpcs_got_pdu(w, k)) \/ DispatchStep(w)
      PROVE  Refused(x, n)'
  <2>1. nonce' = nonce
    BY <1>2, JobStep_Effect DEF JobEffect
  <2>2. exec' = exec \/ run_handler(w)
    BY <1>2, rpcs_got_pdu_Step, dispatch_Step, checkduplicate_Step, send_reply_Step
       DEF DispatchStep
  <2>3. exec'[n][x] = 0
    <3>1. CASE exec' = exec
      BY <1>0, <3>1
    <3>2. CASE run_handler(w)
      <4>1. n # nonce \/ x # job[w].req.xid
        BY <3>2, run_handler_Step DEF Refused, Running
      <4> QED BY <1>0, <3>2, <4>1, run_handler_Step
    <3> QED BY <2>2, <3>1, <3>2
  <2>4. n = nonce => Known(x)' /\ \A v \in Worker : ~Running(v, x)'
    BY <1>2, KnownStep DEF Refused
  <2> QED BY <1>0, <2>1, <2>3, <2>4 DEF Refused
<1>3. CASE Restart
  <2>1. nonce' = nonce + 1 /\ exec' = exec
    BY <1>3, Restart_Step
  <2>2. n <= nonce' /\ n # nonce'
    BY <1>0, <2>1
  <2> QED BY <1>0, <2>1, <2>2 DEF Refused
<1> QED
  BY <1>1, <1>2, <1>3, ServerOrNot

\* What checkduplicate_and_update refuses, and is still awaited, has not been
\* executed: its reply would have been kept.
LEMMA FreshRefusal ==
  ASSUME MessagesInv, KeptInv, NEW x \in Xid, Live(x), rwin[x] = "none", TooOld(x)
  PROVE  Refused(x, nonce)
<1>1. nonce \in Nonce /\ nonce \in Nat /\ exec[nonce][x] \in Nat
  BY ChanConstants DEF MessagesInv, ServerInv, ServerTypeOK, Nonce
<1>2. ~Executed(x, nonce) /\ \A w \in Worker : ~Running(w, x)
  BY DEF KeptInv
<1>3. exec[nonce][x] = 0
  BY <1>1, <1>2 DEF Executed
<1> QED
  BY <1>1, <1>2, <1>3 DEF Refused, Known

\* A refusal held by a job whose call still waits.
LEMMA JobRefusal ==
  ASSUME Retrans, MessagesInv, KeptInv, RefusalInv, [Next]_vars, NEW v \in Worker,
         job'[v].pc \in {"reply", "send"}, job'[v].ret = "atmostonce", Live(job[v].req.xid)'
  PROVE  Refused(job[v].req.xid, nonce)'
<1>1. CASE UNCHANGED serverVars
  <2>1. job' = job /\ nonce' = nonce
    BY <1>1 DEF serverVars
  <2>2. job[v].req.xid \in Xid /\ job[v].req.xid < xid /\ xid \in Nat
    BY <2>1, JobFacts, WindowFacts DEF MessagesInv
  <2>3. Live(job[v].req.xid)
    BY <2>1, <2>2, LiveStep, ChanConstants DEF Xid
  <2> QED BY <2>1, <2>2, <2>3, RefusedStable DEF RefusalInv
<1>2. CASE Restart
  BY <1>2, Restart_Step DEF IdleJob
<1>3. ASSUME UNCHANGED clientVars, NEW w \in Worker,
             (\E k \in Conn : rpcs_got_pdu(w, k)) \/ DispatchStep(w)
      PROVE  Refused(job[v].req.xid, nonce)'
  <2>1. nonce' = nonce /\ \A u \in Worker : u # w => job'[u] = job[u]
    BY <1>3, JobStep_Effect DEF JobEffect
  <2>2. Live(job'[v].req.xid) /\ job'[v].req.xid \in Xid
    BY <1>3, LiveUnchanged, LiveXid
  <2>3. ASSUME Refused(job'[v].req.xid, nonce) PROVE Refused(job[v].req.xid, nonce)'
    BY <2>1, <2>2, <2>3, RefusedStable
  <2>4. CASE v # w
    BY <2>1, <2>2, <2>3, <2>4 DEF RefusalInv
  <2>5. CASE v = w
    <3>1. CASE checkduplicate_and_update(w)
      BY <2>2, <2>3, <2>5, <3>1, checkduplicate_Step, FreshRefusal DEF IdleJob
    <3>2. CASE \E k \in Conn : rpcs_got_pdu(w, k)
      BY <2>5, <3>2, rpcs_got_pdu_Step
    <3>3. CASE dispatch(w)
      BY <2>5, <3>3, dispatch_Step
    <3>4. CASE run_handler(w)
      BY <2>5, <3>4, run_handler_Step
    <3>5. CASE send_new_reply(w) \/ send_reply(w)
      BY <2>5, <3>5, send_reply_Step DEF IdleJob
    <3> QED BY <1>3, <3>1, <3>2, <3>3, <3>4, <3>5 DEF DispatchStep
  <2> QED BY <2>4, <2>5
<1> QED
  BY <1>1, <1>2, <1>3, ServerOrNot

\* Every step keeps RefusalInv for a client with a nonce.
LEMMA NextRefusal ==
  ASSUME Retrans, MessagesInv, KeptInv, RefusalInv, [Next]_vars
  PROVE  RefusalInv'
<1>1. ASSUME NEW r \in Reply, Sent(r)', r.ret = "atmostonce", Live(r.xid)'
      PROVE  Refused(r.xid, r.from)'
  <2>0. r.xid \in Xid
    BY DEF Reply
  <2>1. CASE Sent(r)
    <3>1. r.xid < xid /\ xid \in Nat
      BY <2>1, WindowFacts DEF Sent, MessagesInv, ChanInv
    <3>2. Live(r.xid)
      BY <1>1, <2>0, <3>1, LiveStep, ChanConstants DEF Xid
    <3> QED BY <1>1, <2>0, <2>1, <3>2, RefusedStable DEF RefusalInv
  <2>2. ASSUME UNCHANGED <<clientVars, nonce>>,
               NEW w \in Worker, job[w].pc \in {"reply", "send"}, r = ReplyOf(w)
        PROVE  Refused(r.xid, r.from)'
    <3>1. r.xid = job[w].req.xid /\ r.ret = job[w].ret /\ r.from = nonce
      BY <2>2 DEF ReplyOf
    <3>2. Live(r.xid)
      BY <1>1, <2>2, LiveUnchanged
    <3>3. Refused(r.xid, r.from)
      BY <1>1, <2>2, <3>1, <3>2 DEF RefusalInv
    <3> QED BY <2>0, <3>3, RefusedStable
  <2> QED BY <1>1, <2>1, <2>2, SentStep
<1>2. ASSUME NEW t \in Thread, pc'[t] # "idle", ca'[t].done, ca'[t].ret = "atmostonce"
      PROVE  Refused(ca[t].req.xid, ca[t].from)'
  <2>1. ca'[t].req.xid \in Xid
    BY <1>2, NextMessages, NoReqFacts DEF MessagesInv, ClientInv, CallerOK, Request
  <2>2. Refused(ca'[t].req.xid, ca'[t].from)
    BY <1>2, DoneStep DEF RefusalInv
  <2> QED BY <2>1, <2>2, RefusedStable
<1>3. ASSUME NEW x \in Xid, outcome'[x].ret = "atmostonce"
      PROVE  Refused(x, outcome[x].from)'
  <2>1. Refused(x, outcome'[x].from)
    BY <1>3, ResultOf DEF RefusalInv, Result
  <2> QED BY <2>1, RefusedStable
<1> QED
  BY <1>1, <1>2, <1>3, JobRefusal DEF RefusalInv

\* In the initial state nothing has been refused.
LEMMA InitRefusal == Init => RefusalInv
<1> SUFFICES ASSUME Init PROVE RefusalInv
  OBVIOUS
<1>1. \A t \in Thread : pc[t] = "idle"
  BY DEF Init, ClientInit
<1>2. \A x \in Xid : outcome[x].ret = "none"
  BY DEF Init, ClientInit, Open
<1> QED
  BY <1>1, <1>2, InitLive DEF RefusalInv

\* A call that returns atmostonce_failure was not executed by the instance that
\* refused it and never will be, so that the application may issue it again.
THEOREM RefusalCorrect == Retrans => (Spec => []RefusedMeansNotExecuted)
<1> SUFFICES ASSUME Retrans PROVE Spec => []RefusedMeansNotExecuted
  OBVIOUS
<1>1. MessagesInv /\ KeptInv /\ RefusalInv /\ [Next]_vars => RefusalInv'
  BY NextRefusal
<1>2. RefusalInv => RefusedMeansNotExecuted
  BY DEF RefusalInv, RefusedMeansNotExecuted, Refused, Executed
<1>3. Spec => []KeptInv
  BY KeptCorrect
<1> QED
  BY <1>1, <1>2, <1>3, InitRefusal, MessagesCorrect, PTL DEF Spec

=============================================================================
