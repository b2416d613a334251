----------------------------- MODULE XidRepList -----------------------------
(***************************************************************************)
(* rpcc::update_xid_rep on its real data structure, the sorted std::list   *)
(* xid_rep_window_.  Every call is recorded there at least twice, by       *)
(* got_pdu when its reply comes and by call1 when it returns, in any order *)
(* with the other calls, so the list may hold an xid several times.        *)
(***************************************************************************)
EXTENDS XidRep, Sequences, FiniteSetsExt

Seqs == INSTANCE SequencesExt

CONSTANTS MaxXid,  \* bound on the calls made
          MaxLen   \* bound on the length of the list

ASSUME ListConstants == MaxXid \in Nat /\ MaxLen \in Nat \ {0}

VARIABLES list,    \* xid_rep_window_
          answered \* history: the xids passed to update_xid_rep, and 0

listVars == <<list, answered>>

\* The constructor's push_back(0).
ListInit == list = <<0>> /\ answered = {0}

-----------------------------------------------------------------------------
\* Mutant: the xid always goes to the end of the list.
PushBack(l, x) == Append(l, x)

\* Before the first greater element, or push_back.
Insert(l, x) ==
  Seqs!InsertAt(l, Min({i \in 1 .. Len(l) : l[i] > x} \cup {Len(l) + 1}), x)

\* Mutant: if in place of while.
PopOnce(l, v) == IF Head(l) + 1 = v THEN Tail(l) ELSE l

\* while(front() + 1 == *it) pop_front(), where *it is v.
PopBefore(l, v) ==
  SubSeq(l, Min({i \in 1 .. Len(l) : l[i] + 1 # v} \cup {Len(l) + 1}), Len(l))

\* The loop after the label compress: the iterator visits every element after
\* the first, while the elements before it are popped.
CompressList(l) ==
  LET visit[i \in 1 .. Len(l)] == IF i = 1 THEN l ELSE PopBefore(visit[i - 1], l[i])
  IN visit[Len(l)]

\* rpcc::update_xid_rep(x)
UpdateList(x) ==
  /\ list' = IF x <= Head(list) THEN list ELSE CompressList(Insert(list, x))
  /\ answered' = answered \cup {x}

ListNext == \E x \in 1 .. MaxXid : UpdateList(x) /\ Len(list') <= MaxLen

ListSpec == ListInit /\ [][ListNext]_listVars

-----------------------------------------------------------------------------
\* The header's xid_rep, the front of the list, acknowledges exactly the calls
\* up to the first one that is still open, and the rest of the list holds the
\* calls answered after it, in order, whatever was recorded in between.
FrontIsAnsweredPrefix ==
  /\ Head(list) = Max({n \in answered : 0 .. n \subseteq answered})
  /\ Seqs!ToSet(Tail(list)) \ {Head(list)} = {n \in answered : n > Head(list)}
  /\ \A i \in 1 .. Len(list) - 1 : list[i] <= list[i + 1]

\* Every step of the list is update_xid_rep on its set of elements, the form
\* in which Rpcc uses it.
ListImplementsSet ==
  [][\E x \in 1 .. MaxXid : Seqs!ToSet(list') = update_xid_rep(Seqs!ToSet(list), x)]_list

=============================================================================
