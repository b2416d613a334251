-------------------------------- MODULE Rpc ---------------------------------
(***************************************************************************)
(* The RPC system: one rpcc with its application threads, one rpcs with    *)
(* its pool, and the connections between them.  The server keeps separate  *)
(* state for every clt_nonce, so one client is enough to ask whether a     *)
(* client's calls are executed at most once and answered correctly.        *)
(***************************************************************************)
EXTENDS Rpcc, Rpcs

vars == <<clientVars, serverVars, chanVars>>

Init == ChanInit /\ ClientInit /\ ServerInit

\* The steps of a thread that is inside call1.
CallStep(t) ==
  \/ get_refconn(t) \/ take_forgot(t) \/ send_forgot(t) \/ send_req(t)
  \/ retransmit(t) \/ last_transmit(t)
  \/ erase(t) \/ keep_dup_req(t) \/ bind(t)

CancelStep == cancel \/ cancel_recheck

ClientStep ==
  \/ \E t \in Thread, p \in Proc : call1(t, p)
  \/ \E t \in Thread : CallStep(t)
  \/ \E k \in Conn : rpcc_got_pdu(k)
  \/ CancelStep

DispatchStep(w) ==
  \/ dispatch(w) \/ checkduplicate_and_update(w) \/ run_handler(w)
  \/ send_new_reply(w) \/ send_reply(w)

ServerStep ==
  \/ \E w \in Worker, k \in Conn : rpcs_got_pdu(w, k)
  \/ \E w \in Worker : DispatchStep(w)

\* A connection fails at one end; the other end is not told.
NetworkStep == \E k \in Conn : ClientReadFails(k) \/ ServerReadFails(k)

Next ==
  \/ ClientStep /\ UNCHANGED serverVars
  \/ (ServerStep \/ Restart) /\ UNCHANGED clientVars
  \/ NetworkStep /\ UNCHANGED <<clientVars, serverVars>>

Spec == Init /\ [][Next]_vars

\* connection::send has no deadline of its own: on a connection that lives it
\* waits for as long as the server does not read.
MayBlock(t) == \E k \in Conn : pc[t] \in {"forgot", "send"} /\ ca[t].ch = k /\ ~cdead[k]

\* Threads inside call1 and cancel() are scheduled, the deadlines of
\* pthread_cond_timedwait pass, and send comes back from a dead connection
\* (SendReturns of Connection).  Nothing is assumed of the server or of the
\* network: replies may never come, and send may wait for ever.
Fairness ==
  /\ \A t \in Thread : WF_vars(~MayBlock(t) /\ CallStep(t) /\ UNCHANGED serverVars)
  /\ WF_vars(cancel_recheck /\ UNCHANGED serverVars)

FairSpec == Spec /\ Fairness

-----------------------------------------------------------------------------
\* Every variable has its type.
TypeOK == ChanTypeOK /\ ClientTypeOK /\ ServerTypeOK

Executed(x, n) == n \in Nonce /\ exec[n][x] > 0

\* The call with this xid has been made and its reply is still awaited.
Live(x) == \E t \in Outstanding : ca[t].req.xid = x /\ ~ca[t].done

\* At-most-once: no server instance runs the handler of a call twice,
\* whatever is retransmitted, delayed or duplicated (rpcs::dispatch, case NEW).
AtMostOnce == \A n \in Nonce, x \in Xid : exec[n][x] <= 1

\* As long as a caller waits, the server instance that ran its handler still
\* has the reply_t: xid_rep never makes checkduplicate_and_update erase it.
UnackedReplyKept ==
  \A x \in Xid : Live(x) /\ Executed(x, nonce) => rwin[x] # "none"

\* A call that returns 0 was executed, by the instance the client is bound to
\* (or, for bind, by the instance whose nonce was returned).
OkMeansExecuted ==
  \A x \in Xid : outcome[x].ret = "ok" => Executed(x, outcome[x].from)

\* A call that returns atmostonce_failure was not executed by the instance
\* that refused it, and never will be: the caller may issue it again.
RefusedMeansNotExecuted ==
  \A x \in Xid : outcome[x].ret = "atmostonce" => ~Executed(x, outcome[x].from)

\* A call to an ordinary procedure is executed by no instance but the one the
\* client was bound to when it made the call, whatever restarts come between
\* (rpcs::dispatch, the check of srv_nonce).
OnlyBoundInstance ==
  \A x \in Xid, n \in Nonce : Executed(x, n) /\ outcome[x].srv # 0 => n = outcome[x].srv

\* A reply is never moved to a null connection ("get the latest connection to
\* the client" in rpcs::dispatch): conns_ still has an entry when the handler of
\* a client with a nonce returns, however many connections came and went.
LatestConnectionExists == Retrans => Up

\* Every call1 returns, because its final deadline passes if nothing else
\* happens, unless it stays for ever in a connection::send on one connection
\* that lives and that the server does not read: nothing else in call1 can keep
\* it, no reply has to come, and no second wait or retransmission goes on for ever.
CallReturns ==
  \A t \in Thread : pc[t] # "idle" ~> (pc[t] = "idle" \/ []MayBlock(t))

\* cancel() returns, because the last call to leave calls_ wakes the waiting
\* thread, and when it had to wait it leaves calls_ empty, as ~rpcc requires;
\* what can keep it is again only a call that stays in send, which cancel()
\* does not interrupt.
CancelReturns ==
  cpc # "idle" ~> \/ cpc = "done" /\ (destroy_wait => Outstanding = {})
                  \/ \E t \in Thread : []MayBlock(t)

-----------------------------------------------------------------------------
(* The inductive invariant behind TypeOK and AtMostOnce. *)

\* A request belongs to one of the calls made so far, those with an xid below
\* n, and acknowledges older ones only.
WellFormed(r, n) == r = NoReq \/ (r.rep < r.xid /\ r.xid < n)

\* What is in transit.
ChanInv ==
  /\ ChanTypeOK
  /\ \A k \in Conn : \A i \in 1 .. Len(c2s[k]) : WellFormed(c2s[k][i], xid)
  /\ \A k \in Conn : \A i \in 1 .. Len(s2c[k]) : s2c[k][i].xid < xid

\* What each thread holds at its place in call1, and what the client recalls.
CallerOK(t) ==
  /\ WellFormed(ca[t].req, xid) /\ WellFormed(ca[t].forgot, xid)
  /\ pc[t] # "idle" => ca[t].req \in Request
  /\ pc[t] \in {"dup", "forgot", "send"} => ca[t].ch \in Conn
  /\ pc[t] = "forgot" => ca[t].forgot \in Request

ClientInv ==
  /\ ClientTypeOK
  /\ win # {} /\ win \subseteq 0 .. xid - 1
  /\ WellFormed(dup_req, xid)
  /\ \A t \in Thread : CallerOK(t)

\* What each job holds at its place in dispatch.
JobOK(w) ==
  /\ WellFormed(job[w].req, xid)
  /\ job[w].pc # "idle" => job[w].req \in Request /\ job[w].conn \in Conn
  /\ job[w].pc \in {"reply", "send"} => job[w].ret \in SrvRet

ServerInv ==
  /\ ServerTypeOK
  /\ \A w \in Worker : JobOK(w)

MessagesInv == ChanInv /\ ClientInv /\ ServerInv

\* The server will not take a request with this xid for a new one.
Known(x) == rwin[x] # "none" \/ TooOld(x)

Running(w, x) == job[w].pc = "run" /\ job[w].req.xid = x

\* What the running instance has executed, or is about to, it still knows;
\* no two jobs run the same call; instances to come have executed nothing.
ExecutionInv ==
  /\ \A x \in Xid : exec[nonce][x] > 0 => Known(x)
  /\ \A w \in Worker, x \in Xid : Running(w, x) => Known(x) /\ exec[nonce][x] = 0
  /\ \A v, w \in Worker, x \in Xid : Running(v, x) /\ Running(w, x) => v = w
  /\ \A n \in Nonce, x \in Xid : n > nonce => exec[n][x] = 0
  /\ \A n \in Nonce, x \in Xid : exec[n][x] <= 1

-----------------------------------------------------------------------------
(* The inductive invariants behind the properties of answers. *)

\* The request r, the reply r is on its way.
Queued(r) == \E k \in Conn : \E i \in 1 .. Len(c2s[k]) : c2s[k][i] = r
Sent(r)   == \E k \in Conn : \E i \in 1 .. Len(s2c[k]) : s2c[k][i] = r

\* The request r is somewhere in the system: in a connection, in a call, kept
\* for the lossy test, or in a job.
Held(r) ==
  \/ Queued(r)
  \/ \E t \in Thread : ca[t].req = r \/ ca[t].forgot = r
  \/ dup_req = r
  \/ \E w \in Worker : job[w].req = r

\* A request says to which instance its caller was bound, and past the check of
\* srv_nonce it is for the running instance.
BindingInv ==
  /\ \A r \in Request : Held(r) => r.srv = outcome[r.xid].srv
  /\ \A w \in Worker : job[w].pc \in {"check", "run"} => job[w].req.srv \in {0, nonce}
  /\ \A n \in Nonce, x \in Xid : exec[n][x] > 0 => x < xid /\ outcome[x].srv \in {0, n}

\* Behind dispatch's first critical section conns_ has an entry.
LatestInv ==
  /\ \A w \in Worker : job[w].pc \in {"check", "run", "reply"} => conns # 0
  /\ Up

\* Whoever holds the answer 0 holds it from an instance that has executed the
\* call: the window, jobs, replies on their way, callers, and what was returned.
AnswerInv ==
  /\ \A x \in Xid : rwin[x] = "done" => Executed(x, nonce)
  /\ \A w \in Worker : job[w].pc \in {"reply", "send"} /\ job[w].ret = "ok"
                         => Executed(job[w].req.xid, nonce)
  /\ \A r \in Reply : Sent(r) /\ r.ret = "ok" => Executed(r.xid, r.from)
  /\ \A t \in Thread : pc[t] # "idle" /\ ca[t].done /\ ca[t].ret = "ok"
                         => Executed(ca[t].req.xid, ca[t].from)
  /\ OkMeansExecuted

\* Calls have different xids, and the window and every xid_rep in circulation
\* stay below the calls that are still waiting.
WindowInv ==
  /\ \A t, u \in Outstanding : ca[t].req.xid = ca[u].req.xid => t = u
  /\ \A x \in Xid : Live(x) => x \notin win /\ Front(win) < x
  /\ \A r \in Request, x \in Xid : Held(r) /\ Live(x) => r.rep < x

\* What was executed or is about to be, and is still awaited, is in the window.
KeptInv ==
  \A x \in Xid :
    Live(x) /\ (Executed(x, nonce) \/ \E w \in Worker : Running(w, x)) => rwin[x] # "none"

\* The instance n has not executed the call and never will.
Refused(x, n) ==
  /\ n \in Nonce /\ n <= nonce
  /\ exec[n][x] = 0
  /\ n = nonce => Known(x) /\ \A w \in Worker : ~Running(w, x)

\* A refusal that reaches its caller is a promise.  (One for a call that does
\* not wait any more may be about a call that was executed; it is ignored.)
RefusalInv ==
  /\ \A w \in Worker :
       job[w].pc \in {"reply", "send"} /\ job[w].ret = "atmostonce" /\ Live(job[w].req.xid)
         => Refused(job[w].req.xid, nonce)
  /\ \A r \in Reply : Sent(r) /\ r.ret = "atmostonce" /\ Live(r.xid) => Refused(r.xid, r.from)
  /\ \A t \in Thread : pc[t] # "idle" /\ ca[t].done /\ ca[t].ret = "atmostonce"
                         => Refused(ca[t].req.xid, ca[t].from)
  /\ \A x \in Xid : outcome[x].ret = "atmostonce" => Refused(x, outcome[x].from)

=============================================================================
