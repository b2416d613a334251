-------------------------------- MODULE Rpcc --------------------------------
(***************************************************************************)
(* rpcc, the client endpoint: application threads inside rpcc::call1, the  *)
(* upcall rpcc::got_pdu from the poll thread, and one thread in            *)
(* rpcc::cancel.  Every action is one critical section of the code (m_,    *)
(* chan_m_ or ca.m) or one connection::send.  Time is abstracted: a        *)
(* pthread_cond_timedwait may time out at any moment.                      *)
(***************************************************************************)
EXTENDS RpcChan, XidRep

CONSTANTS Thread,      \* application threads
          Lossy,       \* lossytest_ # 0 (RPC_LOSSY is set)
          MaxRetrans,  \* waits of one call that may end in a retransmission
          Cancels      \* whether the application calls cancel()

ASSUME ClientConstants ==
  Lossy \in BOOLEAN /\ Cancels \in BOOLEAN /\ MaxRetrans \in Nat

VARIABLES
  pc,           \* where each thread is inside call1
  ca,           \* its struct caller, its request and its locals
  xid,          \* xid_
  bind_done, srv_nonce, chan, destroy_wait,
  win,          \* xid_rep_window_
  dup_req,      \* dup_req_: a finished request, to be sent again (lossy test)
  xid_rep_done, \* xid_rep_done_
  cpc,          \* where the thread calling cancel() is
  outcome       \* history: srv_nonce_ when each call was made, what it returned

clientVars == <<pc, ca, xid, bind_done, srv_nonce, chan, destroy_wait, win,
                dup_req, xid_rep_done, cpc, outcome>>

PC     == {"idle", "conn", "dup", "forgot", "send", "wait", "erase", "lossy", "bound"}
Caller == [req : Request \cup {NoReq}, done : BOOLEAN, ret : Ret, from : 0 .. MaxNonce,
           ch : 0 .. MaxConn, last : BOOLEAN, tries : 0 .. MaxRetrans,
           forgot : Request \cup {NoReq}]
NoCall == [req |-> NoReq, done |-> FALSE, ret |-> "none", from |-> 0, ch |-> 0,
           last |-> FALSE, tries |-> 0, forgot |-> NoReq]
Open   == [srv |-> 0, ret |-> "none", from |-> 0]

ClientTypeOK ==
  /\ pc \in [Thread -> PC]
  /\ ca \in [Thread -> Caller]
  /\ xid \in 1 .. MaxXid + 1
  /\ bind_done \in BOOLEAN
  /\ srv_nonce \in 0 .. MaxNonce
  /\ chan \in 0 .. MaxConn
  /\ destroy_wait \in BOOLEAN
  /\ win \in SUBSET (0 .. MaxXid)
  /\ dup_req \in Request \cup {NoReq}
  /\ xid_rep_done \in -1 .. MaxXid
  /\ cpc \in {"idle", "wait", "woken", "done"}
  /\ outcome \in [Xid -> [srv : 0 .. MaxNonce, ret : Ret, from : 0 .. MaxNonce]]

\* rpcc::rpcc, rpcc::caller
ClientInit ==
  /\ pc = [t \in Thread |-> "idle"]
  /\ ca = [t \in Thread |-> NoCall]
  /\ xid = 1
  /\ bind_done = FALSE
  /\ srv_nonce = 0
  /\ chan = 0
  /\ destroy_wait = FALSE
  /\ win = {0}
  /\ dup_req = NoReq
  /\ xid_rep_done = -1
  /\ cpc = "idle"
  /\ outcome = [x \in Xid |-> Open]

\* The threads whose caller is in calls_.
Outstanding == {t \in Thread : pc[t] \in PC \ {"idle", "lossy", "bound"}}

Goto(t, l) == pc' = [pc EXCEPT ![t] = l]

-----------------------------------------------------------------------------
(* call1 *)

\* The conditions of the two early returns, bind_failure and cancel_failure.
MayCall(p) == ((p = "bind") <=> ~bind_done) /\ ~destroy_wait

\* Entry, under m_.  The early returns change nothing and are not steps.
call1(t, p) ==
  /\ pc[t] = "idle"
  /\ MayCall(p)
  /\ xid <= MaxXid
  /\ ca' = [ca EXCEPT ![t] =
              [NoCall EXCEPT !.req = [xid |-> xid, proc |-> p, srv |-> srv_nonce,
                                      rep |-> Front(win)]]]
  /\ xid' = xid + 1
  /\ outcome' = [outcome EXCEPT ![xid].srv = srv_nonce]
  /\ Goto(t, "conn")
  /\ UNCHANGED <<bind_done, srv_nonce, chan, destroy_wait, win, dup_req,
                 xid_rep_done, cpc, chanVars>>

\* After a transmission the loop ends if the last deadline has passed.
AfterTransmit(t) == IF ca[t].last THEN "erase" ELSE "wait"

\* A connection pointer that is neither null nor isdead().
Usable(c) == \E k \in Conn : k = c /\ ~cdead[k]

\* dup_req_ is only ever valid in the lossy test.
WithChannel == IF Lossy THEN "dup" ELSE "send"

\* get_refconn: the current channel is used if it is alive and replaced
\* otherwise; connect() may fail, and then ch keeps its old value.
get_refconn(t) ==
  /\ pc[t] = "conn"
  /\ \/ /\ Usable(chan)
        /\ ca' = [ca EXCEPT ![t].ch = chan]
        /\ Goto(t, WithChannel)
        /\ UNCHANGED <<chan, nconn>>
     \/ /\ ~Usable(chan)
        /\ nconn < MaxConn
        /\ nconn' = nconn + 1
        /\ chan' = nconn + 1
        /\ ca' = [ca EXCEPT ![t].ch = nconn + 1]
        /\ Goto(t, WithChannel)
     \/ /\ ~Usable(chan)
        /\ chan' = 0
        /\ Goto(t, IF ca[t].ch = 0 THEN AfterTransmit(t) ELSE WithChannel)
        /\ UNCHANGED <<ca, nconn>>
  /\ UNCHANGED <<xid, bind_done, srv_nonce, destroy_wait, win, dup_req, xid_rep_done,
                 cpc, outcome, cdead, sdead, c2s, s2c>>

\* Under m_: take the remembered request if the server must have forgotten it.
take_forgot(t) ==
  /\ pc[t] = "dup"
  /\ IF dup_req.xid # 0 /\ xid_rep_done > dup_req.xid
     THEN /\ ca' = [ca EXCEPT ![t].forgot = dup_req]
          /\ dup_req' = NoReq
          /\ Goto(t, "forgot")
     ELSE /\ Goto(t, "send")
          /\ UNCHANGED <<ca, dup_req>>
  /\ UNCHANGED <<xid, bind_done, srv_nonce, chan, destroy_wait, win, xid_rep_done,
                 cpc, outcome, chanVars>>

send_forgot(t) ==
  /\ pc[t] = "forgot"
  /\ ClientSend(ca[t].ch, ca[t].forgot)
  /\ ca' = [ca EXCEPT ![t].forgot = NoReq]
  /\ Goto(t, "send")
  /\ UNCHANGED <<xid, bind_done, srv_nonce, chan, destroy_wait, win, dup_req,
                 xid_rep_done, cpc, outcome>>

send_req(t) ==
  /\ pc[t] = "send"
  /\ ClientSend(ca[t].ch, ca[t].req)
  /\ Goto(t, AfterTransmit(t))
  /\ UNCHANGED <<ca, xid, bind_done, srv_nonce, chan, destroy_wait, win, dup_req,
                 xid_rep_done, cpc, outcome>>

\* No reply within the deadline: a dead channel calls for a retransmission.
MustRetransmit(t) == Retrans /\ ~Usable(ca[t].ch)

\* A wait times out before the final deadline; with a live channel the code
\* only waits again, longer.
retransmit(t) ==
  /\ pc[t] = "wait"
  /\ ~ca[t].done
  /\ MustRetransmit(t)
  /\ ca[t].tries < MaxRetrans
  /\ ca' = [ca EXCEPT ![t].tries = @ + 1]
  /\ Goto(t, "conn")
  /\ UNCHANGED <<xid, bind_done, srv_nonce, chan, destroy_wait, win, dup_req,
                 xid_rep_done, cpc, outcome, chanVars>>

\* The final deadline passes with a dead channel: the code transmits once more
\* and then leaves the loop without waiting for the answer.
last_transmit(t) ==
  /\ pc[t] = "wait"
  /\ ~ca[t].done
  /\ MustRetransmit(t)
  /\ ca' = [ca EXCEPT ![t].last = TRUE]
  /\ Goto(t, "conn")
  /\ UNCHANGED <<xid, bind_done, srv_nonce, chan, destroy_wait, win, dup_req,
                 xid_rep_done, cpc, outcome, chanVars>>

\* Mutant: the final deadline is ignored as long as the channel is alive.
LoopEndsOnReply(t) == pc[t] = "erase" \/ (pc[t] = "wait" /\ ca[t].done)

\* The loop is left: the call is done, or its final deadline has passed.
LoopEnds(t) ==
  \/ pc[t] = "erase"
  \/ pc[t] = "wait" /\ (ca[t].done \/ ~MustRetransmit(t))

\* Mutant: the last call to leave calls_ signals nobody.
SignalledUnlessLast(t) == destroy_wait /\ cpc = "wait" /\ Outstanding # {t}

\* pthread_cond_signal(&destroy_wait_c_): the thread waiting in cancel() wakes.
Signalled(t) == destroy_wait /\ cpc = "wait"

Result(t) == IF ca[t].done THEN ca[t].ret ELSE "timeout"

\* call1 returns; rpcc::bind goes on if the call was its own.
Return(t) ==
  LET bound == ca[t].req.proc = "bind" /\ Result(t) = "ok"
  IN /\ outcome' = [outcome EXCEPT ![ca[t].req.xid].ret = Result(t),
                                   ![ca[t].req.xid].from = ca[t].from]
     /\ Goto(t, IF bound THEN "bound" ELSE "idle")
     /\ ca' = IF bound THEN ca ELSE [ca EXCEPT ![t] = NoCall]

\* Under m_: the call leaves calls_, its xid counts as answered whether or not
\* a reply came, and a thread in cancel() is woken.  What follows is local to
\* the thread unless the lossy test is on.
erase(t) ==
  /\ LoopEnds(t)
  /\ win' = update_xid_rep(win, ca[t].req.xid)
  /\ cpc' = IF Signalled(t) THEN "woken" ELSE cpc
  /\ IF ca[t].done /\ Lossy
     THEN Goto(t, "lossy") /\ UNCHANGED <<ca, outcome>>
     ELSE Return(t)
  /\ UNCHANGED <<xid, bind_done, srv_nonce, chan, destroy_wait, dup_req,
                 xid_rep_done, chanVars>>

\* Under m_, lossy test only: remember one finished request.
keep_dup_req(t) ==
  /\ pc[t] = "lossy"
  /\ dup_req' = IF dup_req.xid = 0 THEN ca[t].req ELSE dup_req
  /\ xid_rep_done' = IF ca[t].req.rep > xid_rep_done THEN ca[t].req.rep ELSE xid_rep_done
  /\ Return(t)
  /\ UNCHANGED <<xid, bind_done, srv_nonce, chan, destroy_wait, win, cpc, chanVars>>

\* rpcc::bind after a successful call, under m_.
bind(t) ==
  /\ pc[t] = "bound"
  /\ bind_done' = TRUE
  /\ srv_nonce' = ca[t].from
  /\ ca' = [ca EXCEPT ![t] = NoCall]
  /\ Goto(t, "idle")
  /\ UNCHANGED <<xid, chan, destroy_wait, win, dup_req, xid_rep_done, cpc, outcome,
                 chanVars>>

-----------------------------------------------------------------------------
\* rpcc::got_pdu, called by the poll thread with the next reply on k.
rpcc_got_pdu(k) ==
  /\ ~cdead[k]
  /\ s2c[k] # <<>>
  /\ LET h == Head(s2c[k])
     IN /\ win' = update_xid_rep(win, h.xid)
        /\ ca' = [t \in Thread |->
                    IF t \in Outstanding /\ ca[t].req.xid = h.xid /\ ~ca[t].done
                    THEN [ca[t] EXCEPT !.done = TRUE, !.ret = h.ret, !.from = h.from]
                    ELSE ca[t]]
  /\ s2c' = [s2c EXCEPT ![k] = Tail(@)]
  /\ UNCHANGED <<pc, xid, bind_done, srv_nonce, chan, destroy_wait, dup_req,
                 xid_rep_done, cpc, outcome, nconn, cdead, sdead, c2s>>

-----------------------------------------------------------------------------
\* rpcc::cancel, first critical section: every outstanding call is made to
\* fail, even one whose reply has just come; then wait until all have left.
cancel ==
  /\ Cancels
  /\ cpc = "idle"
  /\ ca' = [t \in Thread |->
              IF t \in Outstanding
              THEN [ca[t] EXCEPT !.done = TRUE, !.ret = "cancel", !.from = 0]
              ELSE ca[t]]
  /\ destroy_wait' = (destroy_wait \/ Outstanding # {})
  /\ cpc' = IF Outstanding = {} THEN "done" ELSE "wait"
  /\ UNCHANGED <<pc, xid, bind_done, srv_nonce, chan, win, dup_req, xid_rep_done,
                 outcome, chanVars>>

\* The condition variable was signalled: look at calls_ again.
cancel_recheck ==
  /\ cpc = "woken"
  /\ cpc' = IF Outstanding = {} THEN "done" ELSE "wait"
  /\ UNCHANGED <<pc, ca, xid, bind_done, srv_nonce, chan, destroy_wait, win, dup_req,
                 xid_rep_done, outcome, chanVars>>

=============================================================================
