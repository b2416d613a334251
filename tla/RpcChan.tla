------------------------------ MODULE RpcChan -------------------------------
(***************************************************************************)
(* The TCP connections between one rpcc and one rpcs, as the RPC layer     *)
(* sees them.  Each end is a connection object with its own dead_ flag; an *)
(* end finds out that the other one is gone only when a read or a write    *)
(* fails, which may be much later or never.  PDUs are delivered whole and  *)
(* in order, and whatever is in transit towards an end that dies is lost.  *)
(* connection::send, the partial reads and writes and the poll loop under  *)
(* it are abstracted to one step here.                                     *)
(***************************************************************************)
EXTENDS Integers, Sequences

CONSTANTS MaxConn,   \* bound on the connections the client ever opens
          MaxXid,    \* bound on the calls the client ever makes
          MaxNonce,  \* bound on the server instances (restarts + 1)
          Retrans    \* rpcc::retrans_; a client without it has clt_nonce 0

ASSUME ChanConstants ==
  MaxConn \in Nat /\ MaxXid \in Nat /\ MaxNonce \in Nat \ {0} /\ Retrans \in BOOLEAN

Conn  == 1 .. MaxConn    \* numbered in the order they are opened (create_time_)
Xid   == 1 .. MaxXid     \* xid_ starts with 1
Nonce == 1 .. MaxNonce   \* rpcs::nonce_; every instance draws a new one

Proc == {"bind", "call"} \* rpc_const::bind, and any registered procedure

\* The return codes of call1: 0, the failures the server answers with, and
\* the failures the client produces itself.
SrvRet == {"ok", "atmostonce", "oldsrv"}
Ret    == SrvRet \cup {"none", "timeout", "cancel"}

\* struct req_header (clt_nonce is fixed: there is one client)
Request == [xid : Xid, proc : Proc, srv : 0 .. MaxNonce, rep : 0 .. MaxXid]
NoReq   == [xid |-> 0, proc |-> "call", srv |-> 0, rep |-> 0]

\* struct reply_header, and the nonce of the instance that wrote the reply,
\* which is the result r of rpcs::rpcbind
Reply == [xid : Xid, ret : SrvRet, from : Nonce]

VARIABLES nconn,  \* how many connections have been opened
          cdead,  \* dead_ of the client's end of each connection
          sdead,  \* dead_ of the server's end
          c2s,    \* requests written by the client and not yet read
          s2c     \* replies written by the server and not yet read

chanVars == <<nconn, cdead, sdead, c2s, s2c>>

ChanTypeOK ==
  /\ nconn \in 0 .. MaxConn
  /\ cdead \in [Conn -> BOOLEAN]
  /\ sdead \in [Conn -> BOOLEAN]
  /\ c2s \in [Conn -> Seq(Request)]
  /\ s2c \in [Conn -> Seq(Reply)]

ChanInit ==
  /\ nconn = 0
  /\ cdead = [k \in Conn |-> FALSE]
  /\ sdead = [k \in Conn |-> FALSE]
  /\ c2s = [k \in Conn |-> <<>>]
  /\ s2c = [k \in Conn |-> <<>>]

-----------------------------------------------------------------------------
\* The client's end of k becomes dead_: nothing more is read from it.
ClientEndDies(k) ==
  /\ cdead' = [cdead EXCEPT ![k] = TRUE]
  /\ s2c' = [s2c EXCEPT ![k] = <<>>]
  /\ UNCHANGED <<nconn, sdead, c2s>>

ServerEndDies(k) ==
  /\ sdead' = [sdead EXCEPT ![k] = TRUE]
  /\ c2s' = [c2s EXCEPT ![k] = <<>>]
  /\ UNCHANGED <<nconn, cdead, s2c>>

\* connection::send(m) on the client's end of k: a dead end returns at once,
\* a write may fail and kill the end (the lossy test forces this), and a
\* write that succeeds is lost when the other end is already gone.
ClientSend(k, m) ==
  \/ ClientEndDies(k)
  \/ /\ ~cdead[k]
     /\ c2s' = [c2s EXCEPT ![k] = IF sdead[k] THEN @ ELSE Append(@, m)]
     /\ UNCHANGED <<nconn, cdead, sdead, s2c>>

\* connection::send(m) on the server's end of k
ServerSend(k, m) ==
  \/ ServerEndDies(k)
  \/ /\ ~sdead[k]
     /\ s2c' = [s2c EXCEPT ![k] = IF cdead[k] THEN @ ELSE Append(@, m)]
     /\ UNCHANGED <<nconn, cdead, sdead, c2s>>

\* connection::read_cb fails: end of file or an error on the socket.
ClientReadFails(k) == k <= nconn /\ ~cdead[k] /\ ClientEndDies(k)
ServerReadFails(k) == k <= nconn /\ ~sdead[k] /\ ServerEndDies(k)

=============================================================================
