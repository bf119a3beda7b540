---------------------------- MODULE BoundedFifo ----------------------------
(***************************************************************************)
(* What BlockQueue promises its callers: a first-in first-out queue of at  *)
(* most Capacity items.  An operation takes effect at once; `returned` is  *)
(* what the last push, full or empty of a thread returned, and `popped`    *)
(* which thread got which item from the last pop.                          *)
(***************************************************************************)
EXTENDS Naturals, Sequences

CONSTANTS Item, Thread, Capacity

VARIABLES contents, returned, popped
vars == <<contents, returned, popped>>

Init == contents = <<>> /\ returned = [t \in Thread |-> FALSE] /\ popped = <<>>

Return(t, result) == returned' = [returned EXCEPT ![t] = result] /\ UNCHANGED popped

(* push: FALSE, and nothing else, when the queue is full.                  *)
Push(t, v) ==
  \/ Len(contents) < Capacity /\ contents' = Append(contents, v) /\ Return(t, TRUE)
  \/ Len(contents) = Capacity /\ UNCHANGED contents /\ Return(t, FALSE)

(* pop: waits for an item.                                                 *)
Pop(t) ==
  /\ contents # <<>>
  /\ popped' = <<t, Head(contents)>> /\ contents' = Tail(contents)
  /\ UNCHANGED returned

Clear(t) == contents' = <<>> /\ UNCHANGED <<returned, popped>>

Full(t)  == Return(t, Len(contents) = Capacity) /\ UNCHANGED contents
Empty(t) == Return(t, contents = <<>>) /\ UNCHANGED contents

Next ==
  \E t \in Thread :
    \/ \E v \in Item : Push(t, v)
    \/ Pop(t) \/ Clear(t) \/ Full(t) \/ Empty(t)

Spec == Init /\ [][Next]_vars
=============================================================================
