-------------------------------- MODULE Rpcs --------------------------------
(***************************************************************************)
(* rpcs, the server endpoint, as one client sees it: the upcall            *)
(* rpcs::got_pdu, the jobs that run rpcs::dispatch, and the reply window   *)
(* that gives at-most-once execution.  Every action is one critical        *)
(* section (conss_m_, reply_window_m_), the handler, or one                *)
(* connection::send.  A job is queued in the ThrPool or held by one of its *)
(* workers: both look the same here, so Worker bounds the jobs in the pool.*)
(* The server may crash and restart with a new nonce_ at any moment.       *)
(***************************************************************************)
EXTENDS RpcChan

CONSTANT Worker

VARIABLES
  nonce,  \* nonce_ of the running instance
  rwin,   \* reply_window_[clt_nonce]: "none" is no reply_t, "done" is cb_present
  conns,  \* conns_[clt_nonce]; 0 is no entry
  job,    \* each job of the pool: its place in dispatch and its locals
  exec    \* history: how often each instance ran the handler for each xid

serverVars == <<nonce, rwin, conns, job, exec>>

JobPC   == {"idle", "dispatch", "check", "run", "reply", "send", "segv"}
Job     == [pc : JobPC, conn : 0 .. MaxConn, req : Request \cup {NoReq},
            ret : SrvRet \cup {"none"}]
IdleJob == [pc |-> "idle", conn |-> 0, req |-> NoReq, ret |-> "none"]

ServerTypeOK ==
  /\ nonce \in Nonce
  /\ rwin \in [Xid -> {"none", "inprogress", "done"}]
  /\ conns \in 0 .. MaxConn
  /\ job \in [Worker -> Job]
  /\ exec \in [Nonce -> [Xid -> Nat]]

EmptyWindow == [x \in Xid |-> "none"]

\* rpcs::rpcs
ServerInit ==
  /\ nonce = 1
  /\ rwin = EmptyWindow
  /\ conns = 0
  /\ job = [w \in Worker |-> IdleJob]
  /\ exec = [n \in Nonce |-> [x \in Xid |-> 0]]

\* A job that dereferences a null connection takes the process down.
Up == \A w \in Worker : job[w].pc # "segv"

-----------------------------------------------------------------------------
\* rpcs::got_pdu, called by the poll thread with the next request on k.
rpcs_got_pdu(w, k) ==
  /\ Up
  /\ job[w].pc = "idle"
  /\ ~sdead[k]
  /\ c2s[k] # <<>>
  /\ job' = [job EXCEPT ![w] = [pc |-> "dispatch", conn |-> k, req |-> Head(c2s[k]),
                                ret |-> "none"]]
  /\ c2s' = [c2s EXCEPT ![k] = Tail(@)]
  /\ UNCHANGED <<nonce, rwin, conns, exec, nconn, cdead, sdead, s2c>>

\* Mutant: requests for an earlier instance are accepted.
NeverOldInstance(h) == FALSE

\* Is the client sending to another instance of the server?
OldInstance(h) == h.srv # 0 /\ h.srv # nonce

\* Mutant: only a newer connection than a remembered one is stored.
NewerOnly(c) == IF Retrans /\ conns # 0 /\ conns < c THEN c ELSE conns

\* conns_[clt_nonce] after a request on c: the newest connection of a client
\* with a nonce, and nothing for one without.
Latest(c) == IF Retrans /\ conns < c THEN c ELSE conns

\* dispatch up to conss_m_: a request for another instance is refused, and
\* the newest connection of a client with a nonce is remembered.
dispatch(w) ==
  /\ Up
  /\ job[w].pc = "dispatch"
  /\ LET h == job[w].req
         c == job[w].conn
     IN IF OldInstance(h)
        THEN /\ job' = [job EXCEPT ![w].pc = "send", ![w].ret = "oldsrv"]
             /\ UNCHANGED conns
        ELSE /\ job' = [job EXCEPT ![w].pc = IF Retrans THEN "check" ELSE "run"]
             /\ conns' = Latest(c)
  /\ UNCHANGED <<nonce, rwin, exec, chanVars>>

-----------------------------------------------------------------------------
(* checkduplicate_and_update, under reply_window_m_ *)

Remembered == {x \in Xid : rwin[x] # "none"}

\* Mutant: a request that is still being processed counts as answered.
HasEntry(x) == rwin[x] # "none"

\* The request is in the window with its reply (cb_present).
HasReply(x) == rwin[x] = "done"

\* Mutant: no request is too old.
NeverTooOld(x) == FALSE

\* The request is older than everything in a non-empty window.
TooOld(x) == Remembered # {} /\ \A y \in Remembered : x < y

\* The window after a new request: the request is added as not yet answered
\* and the entries before the client's xid_rep are erased.
Inserted(h) == [x \in Xid |-> IF x < h.rep THEN "none"
                              ELSE IF x = h.xid THEN "inprogress" ELSE rwin[x]]

checkduplicate_and_update(w) ==
  /\ Up
  /\ job[w].pc = "check"
  /\ LET h == job[w].req
     IN \/ /\ HasReply(h.xid)
           /\ job' = [job EXCEPT ![w].pc = "send", ![w].ret = "ok"]
           /\ UNCHANGED rwin
        \/ /\ rwin[h.xid] = "inprogress"
           /\ job' = [job EXCEPT ![w] = IdleJob]
           /\ UNCHANGED rwin
        \/ /\ rwin[h.xid] = "none" /\ TooOld(h.xid)
           /\ job' = [job EXCEPT ![w].pc = "send", ![w].ret = "atmostonce"]
           /\ UNCHANGED rwin
        \/ /\ rwin[h.xid] = "none" /\ ~TooOld(h.xid)
           /\ job' = [job EXCEPT ![w].pc = "run"]
           /\ rwin' = Inserted(h)
  /\ UNCHANGED <<nonce, conns, exec, chanVars>>

-----------------------------------------------------------------------------
\* case NEW: the handler runs, outside every lock, and add_reply keeps its reply
\* if the request is still in the window.
run_handler(w) ==
  /\ Up
  /\ job[w].pc = "run"
  /\ LET x == job[w].req.xid
     IN /\ exec' = [exec EXCEPT ![nonce][x] = @ + 1]
        /\ rwin' = [rwin EXCEPT ![x] = IF @ = "none" THEN "none" ELSE "done"]
  /\ job' = [job EXCEPT ![w].pc = "reply", ![w].ret = "ok"]
  /\ UNCHANGED <<nonce, conns, chanVars>>

ReplyOf(w) == [xid |-> job[w].req.xid, ret |-> job[w].ret, from |-> nonce]

\* case NEW, the reply: one whose connection is known dead goes to the newest
\* connection instead.  For a client without a nonce that one, conns_[0], is a
\* null pointer.
send_new_reply(w) ==
  /\ Up
  /\ job[w].pc = "reply"
  /\ LET c == IF sdead[job[w].conn] THEN conns ELSE job[w].conn
     IN IF c = 0
        THEN /\ job' = [job EXCEPT ![w].pc = "segv"]
             /\ UNCHANGED chanVars
        ELSE /\ ServerSend(c, ReplyOf(w))
             /\ job' = [job EXCEPT ![w] = IdleJob]
  /\ UNCHANGED <<nonce, rwin, conns, exec>>

\* The replies that are not routed: a kept one, and the refusals.
send_reply(w) ==
  /\ Up
  /\ job[w].pc = "send"
  /\ ServerSend(job[w].conn, ReplyOf(w))
  /\ job' = [job EXCEPT ![w] = IdleJob]
  /\ UNCHANGED <<nonce, rwin, conns, exec>>

-----------------------------------------------------------------------------
\* The process dies with its jobs, its window and its ends of the connections;
\* a new instance starts with another nonce.
Restart ==
  /\ nonce < MaxNonce
  /\ nonce' = nonce + 1
  /\ rwin' = EmptyWindow
  /\ conns' = 0
  /\ job' = [w \in Worker |-> IdleJob]
  /\ sdead' = [k \in Conn |-> sdead[k] \/ k <= nconn]
  /\ c2s' = [k \in Conn |-> <<>>]
  /\ UNCHANGED <<exec, nconn, cdead, s2c>>

=============================================================================
