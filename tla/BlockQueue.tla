----------------------------- MODULE BlockQueue -----------------------------
(***************************************************************************)
(* Log/BlockQueue.h: a ring buffer of max_size_ items under one mutex and  *)
(* one condition variable.  No operation calls out or blocks inside its    *)
(* critical section except pop, which sleeps on the condition variable, so *)
(* a critical section is one step.  The exceptions are front and back: they*)
(* call empty(), which locks the mutex again, and never return.            *)
(***************************************************************************)
EXTENDS Integers, Sequences

CONSTANTS Item, Thread, Capacity, Nobody

ASSUME CapacityAssumption == Capacity \in Nat \ {0}
ASSUME NobodyAssumption == Nobody \notin Thread

VARIABLES
  array,        \* array_, by index
  now_size,     \* now_size_
  start_index,  \* start_index_, of the item before the first
  end_index,    \* end_index_, of the last item
  owner,        \* who holds queue_mutex_ between two steps
  calling,      \* threads inside pop: "sleeping" on the condition or "woken"
  returned,     \* what the last push, full or empty of each thread returned
  popped        \* the thread that popped last, and its item

ring == <<array, now_size, start_index, end_index>>
vars == <<ring, owner, calling, returned, popped>>

Index == 0 .. Capacity - 1
Free(t) == owner = Nobody /\ calling[t] = "no"

(* What is in the array before the first push is of no account.            *)
Init ==
  /\ array \in [Index -> Item]
  /\ now_size = 0 /\ start_index = -1 /\ end_index = -1
  /\ owner = Nobody
  /\ calling = [t \in Thread |-> "no"]
  /\ returned = [t \in Thread |-> FALSE] /\ popped = <<>>

Return(t, result) == returned' = [returned EXCEPT ![t] = result] /\ UNCHANGED popped

(* Mutation of Broadcast: nobody is woken.                                 *)
NoBroadcast == UNCHANGED calling

(* pthread_cond_broadcast.                                                 *)
Broadcast ==
  calling' = [t \in Thread |-> IF calling[t] = "sleeping" THEN "woken" ELSE calling[t]]

PushFull(t) ==
  /\ Free(t) /\ now_size = Capacity
  /\ Broadcast /\ Return(t, FALSE)
  /\ UNCHANGED <<ring, owner>>

Push(t, v) ==
  /\ Free(t) /\ now_size # Capacity
  /\ end_index' = (end_index + 1) % Capacity
  /\ now_size' = now_size + 1
  /\ array' = [array EXCEPT ![(end_index + 1) % Capacity] = v]
  /\ Broadcast /\ Return(t, TRUE)
  /\ UNCHANGED <<start_index, owner>>

(* The loop of pop: entered by a call, or again when the thread was woken. *)
InLoop(t) == owner = Nobody /\ calling[t] \in {"no", "woken"}

PopWait(t) ==
  /\ InLoop(t) /\ now_size = 0
  /\ calling' = [calling EXCEPT ![t] = "sleeping"]
  /\ UNCHANGED <<ring, owner, returned, popped>>

(* Mutation of PopTake: the last item is returned for the first.           *)
PopTakeLast(t) ==
  /\ InLoop(t) /\ now_size # 0
  /\ start_index' = (start_index + 1) % Capacity
  /\ now_size' = now_size - 1
  /\ popped' = <<t, array[end_index]>>
  /\ calling' = [calling EXCEPT ![t] = "no"]
  /\ UNCHANGED <<array, end_index, owner, returned>>

PopTake(t) ==
  /\ InLoop(t) /\ now_size # 0
  /\ start_index' = (start_index + 1) % Capacity
  /\ now_size' = now_size - 1
  /\ popped' = <<t, array[(start_index + 1) % Capacity]>>
  /\ calling' = [calling EXCEPT ![t] = "no"]
  /\ UNCHANGED <<array, end_index, owner, returned>>

(* pthread_cond_wait may return without a broadcast.                       *)
SpuriousWakeup(t) ==
  /\ calling[t] = "sleeping"
  /\ calling' = [calling EXCEPT ![t] = "woken"]
  /\ UNCHANGED <<ring, owner, returned, popped>>

(* Mutation of Clear: end_index_ is not reset.                             *)
ClearHalf(t) ==
  /\ Free(t)
  /\ now_size' = 0 /\ start_index' = -1
  /\ UNCHANGED <<array, end_index, owner, calling, returned, popped>>

Clear(t) ==
  /\ Free(t)
  /\ now_size' = 0 /\ start_index' = -1 /\ end_index' = -1
  /\ UNCHANGED <<array, owner, calling, returned, popped>>

(* size reads what full and empty compare and is left out.                 *)
Query(t, result) == Free(t) /\ Return(t, result) /\ UNCHANGED <<ring, owner, calling>>
Full(t)  == Query(t, now_size = Capacity)
Empty(t) == Query(t, now_size = 0)

(* front and back: empty() waits for the mutex its own thread holds.       *)
FrontOrBack(t) ==
  /\ Free(t)
  /\ owner' = t
  /\ UNCHANGED <<ring, calling, returned, popped>>

Pop(t) == PopWait(t) \/ PopTake(t)

Next ==
  \E t \in Thread :
    \/ PushFull(t) \/ \E v \in Item : Push(t, v)
    \/ Pop(t) \/ SpuriousWakeup(t)
    \/ Clear(t) \/ Full(t) \/ Empty(t)
    \/ FrontOrBack(t)

Spec == Init /\ [][Next]_vars

-----------------------------------------------------------------------------
(* Every variable has its type.                                            *)
TypeOK ==
  /\ array \in [Index -> Item]
  /\ now_size \in 0 .. Capacity
  /\ start_index \in Index \union {-1} /\ end_index \in Index \union {-1}
  /\ owner \in Thread \union {Nobody}
  /\ calling \in [Thread -> {"no", "sleeping", "woken"}]
  /\ returned \in [Thread -> BOOLEAN] /\ popped \in {<<>>} \union Thread \X Item

(* The two indices and the size, which every operation updates separately, *)
(* agree: the next push goes right after the items there are, whether or   *)
(* not the ring has wrapped, been emptied or been cleared.                 *)
IndicesAgree == (end_index + 1) % Capacity = (start_index + now_size + 1) % Capacity

(* No wakeup is lost: nobody sleeps on the condition while there are items.*)
NoneSleepsOverItems == now_size > 0 => \A t \in Thread : calling[t] # "sleeping"

(* The ring is a bounded FIFO of the items after start_index.              *)
Contents == [i \in 1 .. now_size |-> array[(start_index + i) % Capacity]]
Fifo == INSTANCE BoundedFifo WITH contents <- Contents
ImplementsFifo == Fifo!Spec
=============================================================================
