------------------------------- MODULE XidRep -------------------------------
(***************************************************************************)
(* rpcc::xid_rep_window_: the xids for which the client no longer waits.   *)
(* The code keeps them in a sorted std::list; only the set of its elements *)
(* and its front matter to the rest of the protocol, so here the window is *)
(* a non-empty set W of naturals.  XidRepList models the list itself and   *)
(* shows that it computes these operators.                                 *)
(***************************************************************************)
EXTENDS Naturals

\* The head of the sorted list: every xid up to it has been answered.
Front(W) == CHOOSE f \in W : \A y \in W : f <= y

\* Mutant: the front jumps to the newest xid although older ones are open.
CompressIgnoringGaps(W) == {y \in W : \A z \in W : z <= y}

\* The loop after the label "compress": the front is popped as long as its
\* successor is in the window, so an element survives exactly when some gap
\* opens at it or before it.
Compress(W) == {y \in W : \E z \in W : z <= y /\ z + 1 \notin W}

\* Mutant: the xid after the answered one is recorded.
update_xid_rep_off_by_one(W, x) == IF x <= Front(W) THEN W ELSE Compress(W \cup {x + 1})

\* rpcc::update_xid_rep(xid)
update_xid_rep(W, x) == IF x <= Front(W) THEN W ELSE Compress(W \cup {x})

=============================================================================
