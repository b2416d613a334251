------------------------------ MODULE PollMgr -------------------------------
(***************************************************************************)
(* PollMgr and SelectAIO: the table of callbacks, the two fd_sets, the     *)
(* self-pipe that interrupts select, and the one thread that runs          *)
(* wait_loop.  Every operator is one critical section of PollMgr::m_ or    *)
(* SelectAIO::m_.  Which descriptors are ready, and what a callback does,  *)
(* is the business of the module that composes this one: it passes the     *)
(* ready sets to poll_select and runs the callback that poll_pick chose.   *)
(***************************************************************************)
EXTENDS Integers, FiniteSets

CONSTANTS Fd,      \* the descriptors that callbacks are registered for
          PipeFd,  \* pipefd_[0]
          Remover  \* the threads that may call block_remove_fd

ASSUME PollConstants == Fd \subseteq Nat /\ PipeFd \in Nat \ Fd

\* enum poll_flag, as the fd_sets that a flag names
CB_RDONLY == {"r"}
CB_WRONLY == {"w"}
CB_RDWR   == {"r", "w"}

VARIABLES
  rfds_, wfds_,     \* the watched descriptors; pipefd_[0] is always in rfds_
  highfds_,         \* the highest descriptor select looks at
  pipe,             \* bytes in the self-pipe
  callbacks_,       \* the descriptors whose callbacks_ entry is not null
  pending_change_,
  changedone_c_,    \* the threads that wait for this condition
  ppc,              \* where the thread is in wait_loop
  readable, writable, \* the snapshot, and then what is left of the round
  cbfd              \* the descriptor whose callback is being called

aioVars  == <<rfds_, wfds_, highfds_, pipe>>
tabVars  == <<callbacks_, pending_change_, changedone_c_>>
loopVars == <<ppc, readable, writable, cbfd>>
pollVars == <<aioVars, tabVars, loopVars>>

PollTypeOK ==
  /\ rfds_ \subseteq Fd /\ wfds_ \subseteq Fd
  /\ highfds_ \in Fd \cup {PipeFd}
  /\ pipe \in Nat
  /\ callbacks_ \subseteq Fd
  /\ pending_change_ \in BOOLEAN
  /\ changedone_c_ \subseteq Remover
  /\ ppc \in {"top", "snapshot", "select", "pick", "read", "write"}
  /\ readable \subseteq Fd /\ writable \subseteq Fd
  /\ cbfd \in Fd \cup {PipeFd}

PollInit ==
  /\ rfds_ = {} /\ wfds_ = {}
  /\ highfds_ = PipeFd
  /\ pipe = 0
  /\ callbacks_ = {}
  /\ pending_change_ = FALSE
  /\ changedone_c_ = {}
  /\ ppc = "top"
  /\ readable = {} /\ writable = {}
  /\ cbfd = PipeFd

MaxOf(S) == CHOOSE x \in S : \A y \in S : y <= x
MinOf(S) == CHOOSE x \in S : \A y \in S : x <= y

-----------------------------------------------------------------------------
(* SelectAIO *)

\* Mutant: highfds_ does not follow the new descriptor.
HighUnmoved(fd) == highfds_

HighAfterWatch(fd) == IF highfds_ <= fd THEN fd ELSE highfds_

watch_fd(fd, flag) ==
  /\ highfds_' = HighAfterWatch(fd)
  /\ rfds_' = IF "r" \in flag THEN rfds_ \cup {fd} ELSE rfds_
  /\ wfds_' = IF "w" \in flag THEN wfds_ \cup {fd} ELSE wfds_
  /\ pipe' = pipe + 1

\* Mutant: removing a descriptor does not interrupt select.
NotNotified(flag) == pipe

\* Only a removal from both sets interrupts select.
Notified(flag) == IF flag = CB_RDWR THEN pipe + 1 ELSE pipe

\* The search for the new highest descriptor runs only when the highest one
\* is watched no more.
unwatch_fd(fd, flag) ==
  LET r == IF "r" \in flag THEN rfds_ \ {fd} ELSE rfds_
      w == IF "w" \in flag THEN wfds_ \ {fd} ELSE wfds_
  IN /\ rfds_' = r /\ wfds_' = w
     /\ highfds_' = IF fd \notin r \cup w /\ fd = highfds_
                    THEN MaxOf({i \in r \cup w \cup {PipeFd} : i <= highfds_})
                    ELSE highfds_
     /\ pipe' = Notified(flag)

-----------------------------------------------------------------------------
(* PollMgr, called by the threads that own connections *)

add_callback(fd, flag) ==
  /\ watch_fd(fd, flag)
  /\ callbacks_' = callbacks_ \cup {fd}
  /\ UNCHANGED <<pending_change_, changedone_c_>>

del_callback(fd, flag) ==
  /\ unwatch_fd(fd, flag)
  /\ callbacks_' = IF fd \notin rfds_' \cup wfds_' THEN callbacks_ \ {fd} ELSE callbacks_
  /\ UNCHANGED <<pending_change_, changedone_c_>>

\* block_remove_fd up to the pthread_cond_wait, which is in no loop
block_remove_fd(t, fd) ==
  /\ unwatch_fd(fd, CB_RDWR)
  /\ pending_change_' = TRUE
  /\ changedone_c_' = changedone_c_ \cup {t}
  /\ UNCHANGED callbacks_

\* Mutant: block_remove_fd does not wait for the round to end.
NoWait(t) == TRUE

Woken(t) == t \notin changedone_c_

\* block_remove_fd from the pthread_cond_wait on
removed_fd(t, fd) ==
  /\ Woken(t)
  /\ callbacks_' = callbacks_ \ {fd}
  /\ UNCHANGED <<aioVars, pending_change_, changedone_c_>>

-----------------------------------------------------------------------------
(* wait_loop *)

poll_top ==
  /\ ppc = "top"
  /\ ppc' = "snapshot"
  /\ pending_change_' = FALSE
  /\ changedone_c_' = IF pending_change_ THEN {} ELSE changedone_c_
  /\ UNCHANGED <<aioVars, callbacks_, readable, writable, cbfd>>

\* wait_ready copies the sets, and select ignores what is above high.
poll_snapshot ==
  /\ ppc = "snapshot"
  /\ ppc' = "select"
  /\ readable' = {f \in rfds_ : f <= highfds_}
  /\ writable' = {f \in wfds_ : f <= highfds_}
  /\ UNCHANGED <<aioVars, tabVars, cbfd>>

\* Mutant: the loop over the result tests the copy that select was given before.
AllCopied(copy, R) == copy

\* The descriptors that select leaves in its argument
Ready(copy, R) == copy \cap R

\* select returns when a copied descriptor is ready, R for reading and W for
\* writing, or a byte is in the pipe, of which wait_ready takes one.
poll_select(R, W) ==
  /\ ppc = "select"
  /\ pipe > 0 \/ readable \cap R # {} \/ writable \cap W # {}
  /\ readable' = Ready(readable, R)
  /\ writable' = Ready(writable, W)
  /\ pipe' = IF pipe > 0 THEN pipe - 1 ELSE pipe
  /\ ppc' = IF readable' \cup writable' = {} THEN "top" ELSE "pick"
  /\ UNCHANGED <<rfds_, wfds_, highfds_, tabVars, cbfd>>

\* select fails with EINTR
poll_eintr ==
  /\ ppc = "select"
  /\ ppc' = "top"
  /\ readable' = {} /\ writable' = {}
  /\ UNCHANGED <<aioVars, tabVars, cbfd>>

\* The two loops over the round, by descriptor, readable ones first; the table
\* is read without m_, and the callback is called in a later step.
poll_pick ==
  /\ ppc = "pick"
  /\ \/ /\ readable # {}
        /\ LET f == MinOf(readable)
           IN /\ readable' = readable \ {f}
              /\ cbfd' = f
              /\ ppc' = IF f \in callbacks_ THEN "read" ELSE "pick"
        /\ UNCHANGED writable
     \/ /\ readable = {} /\ writable # {}
        /\ LET f == MinOf(writable)
           IN /\ writable' = writable \ {f}
              /\ cbfd' = f
              /\ ppc' = IF f \in callbacks_ THEN "write" ELSE "pick"
        /\ UNCHANGED readable
     \/ /\ readable = {} /\ writable = {}
        /\ ppc' = "top"
        /\ UNCHANGED <<readable, writable, cbfd>>
  /\ UNCHANGED <<aioVars, tabVars>>

\* A callback returns.
poll_return == ppc' = "pick" /\ UNCHANGED <<readable, writable, cbfd>>

=============================================================================
