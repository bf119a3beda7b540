---------------------------- MODULE QueueProofs -----------------------------
(***************************************************************************)
(* Proofs about the two queues whose consumers sleep: the log's ring of    *)
(* module BlockQueue, for every capacity, every set of items and any       *)
(* number of threads, its invariants and that it implements the bounded    *)
(* FIFO of module BoundedFifo; and the thread pool of module PoolStartup,  *)
(* for any finite number of threads and any number of connections, what    *)
(* sem_init forgets and what works in spite of it.                         *)
(***************************************************************************)
EXTENDS BlockQueue, PoolStartup, SequenceTheorems, FiniteSetTheorems, TLAPS

-----------------------------------------------------------------------------
(* What % does to the sums the ring computes, which exceed an index by at  *)
(* most one lap.                                                           *)
LEMMA Wrap ==
  ASSUME NEW a \in 0 .. 2 * Capacity
  PROVE  a % Capacity = IF a < Capacity THEN a
                        ELSE IF a < 2 * Capacity THEN a - Capacity ELSE 0
<1>1. CASE a < Capacity
  BY <1>1, CapacityAssumption, SMTT(30)
<1>2. CASE a >= Capacity /\ a < 2 * Capacity
  BY <1>2, CapacityAssumption, SMTT(30)
<1>3. CASE a = 2 * Capacity
  BY <1>3, CapacityAssumption, SMTT(30)
<1> QED BY <1>1, <1>2, <1>3, CapacityAssumption

(* A sum may be wrapped before or after the last addition.                 *)
LEMMA WrapSum ==
  ASSUME NEW a \in 0 .. 2 * Capacity, NEW n \in 0 .. Capacity, a + n <= 2 * Capacity
  PROVE  ((a % Capacity) + n) % Capacity = (a + n) % Capacity
<1>1. a % Capacity = IF a < Capacity THEN a
                     ELSE IF a < 2 * Capacity THEN a - Capacity ELSE 0
  BY Wrap
<1>2. (a % Capacity) + n \in 0 .. 2 * Capacity /\ a + n \in 0 .. 2 * Capacity
  BY <1>1, CapacityAssumption
<1> DEFINE b == a % Capacity
<1>3. b = IF a < Capacity THEN a ELSE IF a < 2 * Capacity THEN a - Capacity ELSE 0
  BY <1>1
<1> DEFINE c == b + n
           d == a + n
<1>4. /\ c % Capacity = IF c < Capacity THEN c
                        ELSE IF c < 2 * Capacity THEN c - Capacity ELSE 0
      /\ d % Capacity = IF d < Capacity THEN d
                        ELSE IF d < 2 * Capacity THEN d - Capacity ELSE 0
  <2>1. c \in 0 .. 2 * Capacity /\ d \in 0 .. 2 * Capacity
    BY <1>2
  <2> HIDE DEF c, d
  <2> QED BY <2>1, Wrap
<1> HIDE DEF b
<1>5. c % Capacity = d % Capacity
  BY <1>3, <1>4, CapacityAssumption
<1> QED BY <1>5 DEF b

(* Two places less than a lap apart are different.                         *)
LEMMA WrapDistinct ==
  ASSUME NEW a \in 0 .. 2 * Capacity, NEW b \in 0 .. 2 * Capacity, a < b, b - a < Capacity
  PROVE  a % Capacity # b % Capacity
<1>1. /\ a % Capacity = IF a < Capacity THEN a
                        ELSE IF a < 2 * Capacity THEN a - Capacity ELSE 0
      /\ b % Capacity = IF b < Capacity THEN b
                        ELSE IF b < 2 * Capacity THEN b - Capacity ELSE 0
  BY Wrap
<1> QED BY <1>1, CapacityAssumption

-----------------------------------------------------------------------------
IInv == TypeOK /\ IndicesAgree /\ NoneSleepsOverItems

(* The inductive invariant of the ring: its indices agree, and whoever     *)
(* sleeps does so with reason.                                             *)
THEOREM Invariance == Spec => []IInv
<1>1. Init => IInv
  BY CapacityAssumption, NobodyAssumption
     DEF Init, IInv, TypeOK, IndicesAgree, NoneSleepsOverItems, Index
<1>2. IInv /\ [Next]_vars => IInv'
  <2> SUFFICES ASSUME IInv, [Next]_vars PROVE IInv'
    OBVIOUS
  <2> USE CapacityAssumption, NobodyAssumption DEF IInv
  <2>1. CASE UNCHANGED vars
    BY <2>1 DEF vars, ring, TypeOK, IndicesAgree, NoneSleepsOverItems
  <2>2. ASSUME NEW t \in Thread, PushFull(t) PROVE IInv'
    BY <2>2 DEF PushFull, ring, Broadcast, Return, Free, TypeOK, IndicesAgree, NoneSleepsOverItems
  <2>3. ASSUME NEW t \in Thread, NEW v \in Item, Push(t, v) PROVE IInv'
    <3> USE <2>3
    <3>1. TypeOK'
      <4>1. (end_index + 1) % Capacity \in Index
        BY DEF TypeOK, Index
      <4> QED BY <4>1 DEF Push, ring, Broadcast, Return, Free, TypeOK
    <3>2. IndicesAgree'
      <4>1. /\ end_index' = (end_index + 1) % Capacity
            /\ start_index' = start_index /\ now_size' = now_size + 1
            /\ now_size \in 0 .. Capacity - 1 /\ start_index \in -1 .. Capacity - 1
        BY DEF Push, TypeOK, Index
      <4> DEFINE a == start_index + now_size + 1
      <4>2. end_index' = a % Capacity
        BY <4>1 DEF IndicesAgree
      <4>3. ((a % Capacity) + 1) % Capacity = (a + 1) % Capacity
        <5>1. a \in 0 .. 2 * Capacity /\ 1 \in 0 .. Capacity /\ a + 1 <= 2 * Capacity
          BY <4>1
        <5> HIDE DEF a
        <5> QED BY <5>1, WrapSum
      <4>4. a + 1 = start_index' + now_size' + 1
        BY <4>1
      <4> HIDE DEF a
      <4> QED BY <4>2, <4>3, <4>4 DEF IndicesAgree
    <3>3. NoneSleepsOverItems'
      BY DEF Push, Broadcast, TypeOK, NoneSleepsOverItems
    <3> QED BY <3>1, <3>2, <3>3
  <2>4. ASSUME NEW t \in Thread, PopWait(t) PROVE IInv'
    BY <2>4 DEF PopWait, ring, InLoop, TypeOK, IndicesAgree, NoneSleepsOverItems
  <2>5. ASSUME NEW t \in Thread, PopTake(t) PROVE IInv'
    <3> USE <2>5
    <3>1. TypeOK'
      <4>1. (start_index + 1) % Capacity \in Index
        BY DEF TypeOK, Index
      <4> QED BY <4>1 DEF PopTake, InLoop, Return, TypeOK
    <3>2. IndicesAgree'
      <4>1. /\ start_index' = (start_index + 1) % Capacity
            /\ end_index' = end_index /\ now_size' = now_size - 1
            /\ now_size \in 1 .. Capacity /\ start_index \in -1 .. Capacity - 1
        BY DEF PopTake, TypeOK, Index
      <4> DEFINE a == start_index + 1
      <4>2. ((a % Capacity) + now_size) % Capacity = (a + now_size) % Capacity
        <5>1. a \in 0 .. 2 * Capacity /\ now_size \in 0 .. Capacity /\ a + now_size <= 2 * Capacity
          BY <4>1
        <5> HIDE DEF a
        <5> QED BY <5>1, WrapSum
      <4>3. start_index' \in Int
        BY <3>1 DEF TypeOK, Index
      <4>4. a + now_size = start_index + now_size + 1 /\ start_index' = a % Capacity
            /\ start_index' + now_size' + 1 = start_index' + now_size
        BY <4>1, <4>3
      <4> HIDE DEF a
      <4> QED BY <4>1, <4>2, <4>4 DEF IndicesAgree
    <3>3. NoneSleepsOverItems'
      BY DEF PopTake, TypeOK, NoneSleepsOverItems
    <3> QED BY <3>1, <3>2, <3>3
  <2>6. ASSUME NEW t \in Thread, SpuriousWakeup(t) PROVE IInv'
    BY <2>6 DEF SpuriousWakeup, ring, TypeOK, IndicesAgree, NoneSleepsOverItems
  <2>7. ASSUME NEW t \in Thread, Clear(t) PROVE IInv'
    BY <2>7 DEF Clear, Free, TypeOK, Index, IndicesAgree, NoneSleepsOverItems
  <2>8. ASSUME NEW t \in Thread, Full(t) \/ Empty(t) PROVE IInv'
    BY <2>8 DEF Full, Empty, Query, Return, ring, TypeOK, IndicesAgree, NoneSleepsOverItems
  <2>9. ASSUME NEW t \in Thread, FrontOrBack(t) PROVE IInv'
    BY <2>9 DEF FrontOrBack, ring, TypeOK, IndicesAgree, NoneSleepsOverItems
  <2> QED
    BY <2>1, <2>2, <2>3, <2>4, <2>5, <2>6, <2>7, <2>8, <2>9 DEF Next, Pop
<1> QED BY <1>1, <1>2, PTL DEF Spec

(* Every variable of the queue keeps its type.                             *)
THEOREM TypeCorrect == Spec => []TypeOK
<1>1. IInv => TypeOK
  BY DEF IInv
<1> QED BY <1>1, Invariance, PTL

(* push always writes right after the last item, whatever pushes, pops and *)
(* clears came before it.                                                  *)
THEOREM IndicesAlwaysAgree == Spec => []IndicesAgree
<1>1. IInv => IndicesAgree
  BY DEF IInv
<1> QED BY <1>1, Invariance, PTL

(* No consumer is left asleep while an item waits.                         *)
THEOREM NoLostWakeup == Spec => []NoneSleepsOverItems
<1>1. IInv => NoneSleepsOverItems
  BY DEF IInv
<1> QED BY <1>1, Invariance, PTL

-----------------------------------------------------------------------------
(* The ring as a sequence.                                                 *)
LEMMA ContentsType ==
  ASSUME TypeOK
  PROVE  /\ Contents \in Seq(Item) /\ Len(Contents) = now_size
         /\ \A i \in 1 .. now_size : (start_index + i) % Capacity \in Index
<1>1. \A i \in 1 .. now_size : (start_index + i) % Capacity \in Index
  BY CapacityAssumption DEF TypeOK, Index
<1>2. Contents \in [1 .. now_size -> Item]
  BY <1>1 DEF Contents, TypeOK
<1>3. now_size \in Nat
  BY CapacityAssumption DEF TypeOK
<1> QED BY <1>1, <1>2, <1>3

(* push appends: it writes to none of the places of the items there are.   *)
LEMMA PushAppends ==
  ASSUME IInv, NEW t \in Thread, NEW v \in Item, Push(t, v), TypeOK'
  PROVE  Contents' = Append(Contents, v)
<1> USE CapacityAssumption
<1> DEFINE at(i) == (start_index + i) % Capacity
<1>1. now_size \in 0 .. Capacity - 1 /\ now_size' = now_size + 1 /\ start_index' = start_index
  BY DEF IInv, TypeOK, Push
<1>2. at(now_size + 1) = (end_index + 1) % Capacity
  <2>1. start_index + (now_size + 1) = start_index + now_size + 1
    BY <1>1 DEF IInv, TypeOK, Index
  <2> QED BY <2>1 DEF IInv, IndicesAgree
<1>3. \A i \in 1 .. now_size : at(i) # at(now_size + 1)
  <2> SUFFICES ASSUME NEW i \in 1 .. now_size PROVE at(i) # at(now_size + 1)
    OBVIOUS
  <2> DEFINE a == start_index + i
             b == start_index + (now_size + 1)
  <2>1. /\ a \in 0 .. 2 * Capacity /\ b \in 0 .. 2 * Capacity
        /\ a < b /\ b - a < Capacity
    BY <1>1 DEF IInv, TypeOK, Index
  <2>2. a % Capacity # b % Capacity
    <3> HIDE DEF a, b
    <3> QED BY <2>1, WrapDistinct
  <2> QED BY <2>2
<1>4. array' = [array EXCEPT ![at(now_size + 1)] = v]
  BY <1>2 DEF Push
<1>5. \A i \in 1 .. now_size + 1 : at(i) \in Index
  BY <1>1 DEF IInv, TypeOK, Index
<1>6. \A i \in 1 .. now_size + 1 : array'[at(i)] = IF i = now_size + 1 THEN v ELSE array[at(i)]
  BY <1>1, <1>3, <1>4, <1>5 DEF IInv, TypeOK
<1>7. Contents \in Seq(Item) /\ Len(Contents) = now_size
  BY ContentsType DEF IInv
<1>8. /\ Append(Contents, v) \in Seq(Item) /\ Len(Append(Contents, v)) = now_size + 1
      /\ \A i \in 1 .. now_size : Append(Contents, v)[i] = Contents[i]
      /\ Append(Contents, v)[now_size + 1] = v
  BY <1>7, AppendProperties
<1>9. /\ \A i \in 1 .. now_size : Contents[i] = array[at(i)]
      /\ Contents' \in Seq(Item) /\ Len(Contents') = now_size + 1
      /\ \A i \in 1 .. now_size + 1 : Contents'[i] = array'[at(i)]
  <2>1. Contents' = [i \in 1 .. now_size + 1 |-> array'[at(i)]]
    BY <1>1 DEF Contents
  <2>2. \A i \in 1 .. now_size + 1 : array'[at(i)] \in Item
    BY <1>1, <1>5 DEF TypeOK
  <2>3. now_size + 1 \in Nat
    BY <1>1
  <2> HIDE DEF at
  <2>4. Contents' \in [1 .. now_size + 1 -> Item]
    BY <2>1, <2>2
  <2>5. \A i \in 1 .. now_size : Contents[i] = array[at(i)]
    BY DEF Contents, at
  <2> QED BY <2>1, <2>3, <2>4, <2>5
<1> HIDE DEF at
<1>10. \A i \in 1 .. now_size + 1 : Contents'[i] = Append(Contents, v)[i]
  BY <1>1, <1>6, <1>8, <1>9
<1> QED BY <1>8, <1>9, <1>10, SeqEqual

(* pop returns the first item and leaves the others in their places.       *)
LEMMA PopTakesHead ==
  ASSUME IInv, NEW t \in Thread, PopTake(t), TypeOK'
  PROVE  /\ Contents # <<>> /\ array[(start_index + 1) % Capacity] = Head(Contents)
         /\ Contents' = Tail(Contents)
<1> USE CapacityAssumption
<1>1. /\ now_size \in 1 .. Capacity /\ now_size' = now_size - 1 /\ array' = array
      /\ start_index' = (start_index + 1) % Capacity
  BY DEF IInv, TypeOK, PopTake
<1>2. Contents \in Seq(Item) /\ Len(Contents) = now_size
  BY ContentsType DEF IInv
<1>3. \A i \in 1 .. now_size : Contents[i] = array[(start_index + i) % Capacity]
  BY DEF Contents
<1>4. \A i \in 1 .. now_size - 1 :
        (start_index' + i) % Capacity = (start_index + (i + 1)) % Capacity
  <2> SUFFICES ASSUME NEW i \in 1 .. now_size - 1
               PROVE  (start_index' + i) % Capacity = (start_index + (i + 1)) % Capacity
    OBVIOUS
  <2> DEFINE a == start_index + 1
  <2>1. a \in 0 .. 2 * Capacity /\ i \in 0 .. Capacity /\ a + i <= 2 * Capacity
    BY <1>1 DEF IInv, TypeOK, Index
  <2>2. ((a % Capacity) + i) % Capacity = (a + i) % Capacity
    <3> HIDE DEF a
    <3> QED BY <2>1, WrapSum
  <2>3. a + i = start_index + (i + 1)
    BY <1>1 DEF IInv, TypeOK, Index
  <2> QED BY <1>1, <2>2, <2>3
<1>5. Contents # <<>> /\ Tail(Contents) \in Seq(Item) /\ Len(Tail(Contents)) = now_size - 1
      /\ \A i \in 1 .. now_size - 1 : Tail(Contents)[i] = Contents[i + 1]
  <2>1. Contents # <<>>
    BY <1>1, <1>2
  <2> QED BY <2>1, <1>1, <1>2, HeadTailProperties
<1>6. /\ Contents' \in Seq(Item) /\ Len(Contents') = now_size - 1
      /\ \A i \in 1 .. now_size - 1 : Contents'[i] = array[(start_index' + i) % Capacity]
  <2> DEFINE item(i) == array[(start_index' + i) % Capacity]
  <2>1. Contents' = [i \in 1 .. now_size - 1 |-> item(i)]
    BY <1>1 DEF Contents
  <2>2. \A i \in 1 .. now_size - 1 : (start_index' + i) % Capacity \in Index
    BY <1>1 DEF TypeOK, Index
  <2>3. \A i \in 1 .. now_size - 1 : item(i) \in Item
    BY <2>2 DEF IInv, TypeOK
  <2>4. now_size - 1 \in Nat
    BY <1>1
  <2>5. \A i \in 1 .. now_size - 1 : item(i) = array[(start_index' + i) % Capacity]
    OBVIOUS
  <2> HIDE DEF item
  <2> QED BY <2>1, <2>3, <2>4, <2>5
<1>7. Contents' = Tail(Contents)
  <2>1. ASSUME NEW i \in 1 .. now_size - 1
        PROVE  Contents'[i] = Tail(Contents)[i]
    <3>1. Contents'[i] = array[(start_index' + i) % Capacity]
      BY <1>6
    <3>2. (start_index' + i) % Capacity = (start_index + (i + 1)) % Capacity
      BY <1>4
    <3>3. i + 1 \in 1 .. now_size
      BY <1>1
    <3>4. Contents[i + 1] = array[(start_index + (i + 1)) % Capacity]
      BY <1>3, <3>3
    <3> QED BY <3>1, <3>2, <3>4, <1>5
  <2> QED BY <2>1, <1>5, <1>6, SeqEqual
<1>8. Contents # <<>> /\ Head(Contents) = Contents[1]
  BY <1>1, <1>2
<1> QED BY <1>1, <1>3, <1>7, <1>8

(* BlockQueue implements the bounded FIFO: each of its steps is one of the *)
(* FIFO's, or leaves it alone.                                             *)
THEOREM Refinement == Spec => ImplementsFifo
<1>1. Init => Fifo!Init
  <2> SUFFICES ASSUME Init PROVE Fifo!Init
    OBVIOUS
  <2>1. Contents = <<>>
    BY DEF Init, Contents
  <2> QED BY <2>1 DEF Init, Fifo!Init
<1>2. IInv /\ IInv' /\ [Next]_vars => [Fifo!Next]_Fifo!vars
  <2> SUFFICES ASSUME IInv, IInv', [Next]_vars PROVE [Fifo!Next]_Fifo!vars
    OBVIOUS
  <2>0. Contents \in Seq(Item) /\ Len(Contents) = now_size /\ now_size \in Nat
    BY ContentsType, CapacityAssumption DEF IInv, TypeOK
  <2>9. ASSUME UNCHANGED ring PROVE Contents' = Contents
    BY <2>9 DEF ring, Contents
  <2>1. CASE UNCHANGED vars
    BY <2>1, <2>9 DEF vars, Fifo!vars
  <2>2. ASSUME NEW t \in Thread, PushFull(t) PROVE Fifo!Next
    <3>1. 0 \in Index /\ array[0] \in Item
      BY CapacityAssumption DEF Index, IInv, TypeOK
    <3>2. Fifo!Push(t, array[0])
      <4>1. UNCHANGED ring /\ now_size = Capacity /\ Return(t, FALSE)
        BY <2>2 DEF PushFull
      <4>2. Contents' = Contents /\ Len(Contents) = Capacity
        BY <4>1, <2>0, <2>9
      <4> QED BY <4>1, <4>2 DEF Return, Fifo!Push, Fifo!Return
    <3> QED BY <3>1, <3>2 DEF Fifo!Next
  <2>3. ASSUME NEW t \in Thread, NEW v \in Item, Push(t, v) PROVE Fifo!Next
    <3>1. Contents' = Append(Contents, v)
      BY <2>3, PushAppends DEF IInv
    <3>2. Len(Contents) < Capacity
      BY <2>3, <2>0, CapacityAssumption DEF Push, IInv, TypeOK
    <3> QED BY <2>3, <3>1, <3>2 DEF Push, Return, Fifo!Next, Fifo!Push, Fifo!Return
  <2>4. ASSUME NEW t \in Thread, PopTake(t) PROVE Fifo!Next
    <3>1. /\ Contents # <<>> /\ array[(start_index + 1) % Capacity] = Head(Contents)
          /\ Contents' = Tail(Contents)
      BY <2>4, PopTakesHead DEF IInv
    <3> QED BY <2>4, <3>1 DEF PopTake, Return, Fifo!Next, Fifo!Pop, Fifo!Return
  <2>5. ASSUME NEW t \in Thread, PopWait(t) \/ SpuriousWakeup(t) \/ FrontOrBack(t)
        PROVE  UNCHANGED Fifo!vars
    BY <2>5, <2>9 DEF PopWait, SpuriousWakeup, FrontOrBack, Fifo!vars
  <2>6. ASSUME NEW t \in Thread, Clear(t) PROVE Fifo!Next
    <3>1. Contents' = <<>>
      BY <2>6 DEF Clear, Contents
    <3> QED BY <2>6, <3>1 DEF Clear, Fifo!Next, Fifo!Clear
  <2>7. ASSUME NEW t \in Thread, Full(t) PROVE Fifo!Next
    BY <2>7, <2>0, <2>9 DEF Full, Query, Return, Fifo!Next, Fifo!Full, Fifo!Return
  <2>8. ASSUME NEW t \in Thread, Empty(t) PROVE Fifo!Next
    <3>1. (now_size = 0) = (Contents = <<>>)
      BY <2>0
    <3> QED BY <2>8, <3>1, <2>9 DEF Empty, Query, Return, Fifo!Next, Fifo!Empty, Fifo!Return
  <2> QED
    BY <2>1, <2>2, <2>3, <2>4, <2>5, <2>6, <2>7, <2>8 DEF Next, Pop
<1> QED BY <1>1, <1>2, Invariance, PTL DEF Spec, ImplementsFifo, Fifo!Spec

-----------------------------------------------------------------------------
(* The thread pool.                                                        *)
Size(stage) == Cardinality(In(stage))

(* Until sem_init nothing was appended and nobody woken.                   *)
Fresh ==
  main \in {"create", "init"} => queue = 0 /\ missed = {} /\ In("woken") = {}

(* While there is a token that nobody was woken for, whoever is counted as *)
(* waiting has been woken.                                                 *)
Counted == value > Size("woken") => waiters <= Size("woken")

PoolInv == PoolTypeOK /\ CountLacksMissed /\ Fresh /\ Counted

-----------------------------------------------------------------------------
(* The threads at a stage are finitely many, and so are those missed.      *)
LEMMA SizeType ==
  ASSUME NEW stage
  PROVE  IsFiniteSet(In(stage)) /\ Size(stage) \in Nat
BY WorkerAssumption, FS_Subset, FS_CardinalityType DEF In, Size

(* A thread that goes from stage a to stage b is counted there and no      *)
(* longer here.                                                            *)
Stand(p, stage) == {v \in Worker : p[v] = stage}
Gain(stage, a, b) == (IF stage = b THEN 1 ELSE 0) - (IF stage = a THEN 1 ELSE 0)

Moves(p, q, w, a, b) ==
  /\ w \in Worker /\ p[w] = a /\ a # b
  /\ \A v \in Worker : q[v] = IF v = w THEN b ELSE p[v]

(* When one worker goes from a to b, a stage has gained one, lost one, or  *)
(* is as before.                                                           *)
LEMMA OneMovesAt ==
  ASSUME NEW p, NEW q, NEW w, NEW a, NEW b, NEW stage, Moves(p, q, w, a, b)
  PROVE  /\ Cardinality(Stand(q, stage)) = Cardinality(Stand(p, stage)) + Gain(stage, a, b)
         /\ stage \notin {a, b} => Stand(q, stage) = Stand(p, stage)
<1>1. IsFiniteSet(Stand(p, stage)) /\ Cardinality(Stand(p, stage)) \in Nat
  BY WorkerAssumption, FS_Subset, FS_CardinalityType DEF Stand
<1>2. CASE stage = a
  <2>1. Stand(q, stage) = Stand(p, stage) \ {w} /\ w \in Stand(p, stage)
    BY <1>2 DEF Stand, Moves
  <2>2. Cardinality(Stand(q, stage)) = Cardinality(Stand(p, stage)) - 1
    BY <2>1, <1>1, FS_RemoveElement
  <2>3. Gain(stage, a, b) = -1
    BY <1>2 DEF Gain, Moves
  <2> QED BY <2>2, <2>3, <1>1, <1>2
<1>3. CASE stage = b
  <2>1. Stand(q, stage) = Stand(p, stage) \union {w} /\ w \notin Stand(p, stage)
    BY <1>3 DEF Stand, Moves
  <2>2. Cardinality(Stand(q, stage)) = Cardinality(Stand(p, stage)) + 1
    BY <2>1, <1>1, FS_AddElement
  <2>3. Gain(stage, a, b) = 1
    BY <1>3 DEF Gain, Moves
  <2> QED BY <2>2, <2>3, <1>1, <1>3
<1>4. CASE stage \notin {a, b}
  <2>1. Stand(q, stage) = Stand(p, stage)
    BY <1>4 DEF Stand, Moves
  <2>2. Gain(stage, a, b) = 0
    BY <1>4 DEF Gain, Moves
  <2> QED BY <2>1, <2>2, <1>1
<1> QED BY <1>2, <1>3, <1>4

(* The same, for the stages that the invariant speaks of.                  *)
LEMMA OneMoves ==
  ASSUME NEW w, NEW a, NEW b, Moves(pc, pc', w, a, b)
  PROVE  /\ Size("asleep")' = Size("asleep") + Gain("asleep", a, b)
         /\ Size("woken")' = Size("woken") + Gain("woken", a, b)
         /\ Size("run")' = Size("run") + Gain("run", a, b)
         /\ "woken" \notin {a, b} => In("woken")' = In("woken")
<1>1. /\ In("asleep") = Stand(pc, "asleep") /\ In("asleep")' = Stand(pc', "asleep")
      /\ In("woken") = Stand(pc, "woken") /\ In("woken")' = Stand(pc', "woken")
      /\ In("run") = Stand(pc, "run") /\ In("run")' = Stand(pc', "run")
  BY DEF In, Stand
<1> QED BY <1>1, OneMovesAt DEF Size

(* What the numbers of the invariant are.                                  *)
LEMMA Numbers ==
  ASSUME PoolTypeOK
  PROVE  /\ value \in Nat /\ waiters \in Int /\ queue \in Nat /\ Cardinality(missed) \in Nat
         /\ Size("asleep") \in Nat /\ Size("woken") \in Nat /\ Size("run") \in Nat
<1>1. Cardinality(missed) \in Nat
  BY WorkerAssumption, FS_Subset, FS_CardinalityType DEF PoolTypeOK
<1> QED BY <1>1, SizeType DEF PoolTypeOK

-----------------------------------------------------------------------------
(* The start: no threads, no connections.                                  *)
LEMMA PoolInitOK == PoolInit => PoolInv
<1> SUFFICES ASSUME PoolInit PROVE PoolInv
  OBVIOUS
<1>1. PoolTypeOK
  BY MaxWorkAssumption DEF PoolInit, PoolTypeOK
<1>2. In("asleep") = {} /\ In("woken") = {} /\ In("run") = {}
  BY DEF PoolInit, In
<1>3. Size("asleep") = 0 /\ Size("woken") = 0 /\ Size("run") = 0 /\ Cardinality({}) = 0
  BY <1>2, FS_EmptySet DEF Size
<1>4. CountLacksMissed
  BY <1>3 DEF PoolInit, CountLacksMissed, Size
<1> QED BY <1>1, <1>2, <1>3, <1>4 DEF PoolInit, PoolInv, Fresh, Counted

(* A new thread is counted nowhere.                                        *)
LEMMA CreateKeeps ==
  ASSUME PoolInv, NEW w \in Worker, Create(w)
  PROVE  PoolInv'
<1>1. PoolTypeOK'
  BY DEF PoolInv, PoolTypeOK, Create, sem
<1>2. Moves(pc, pc', w, "none", "wait")
  BY DEF Moves, Create, PoolInv, PoolTypeOK
<1>3. /\ Size("asleep")' = Size("asleep") /\ Size("woken")' = Size("woken")
      /\ Size("run")' = Size("run") /\ In("woken")' = In("woken")
  BY <1>2, OneMoves, SizeType DEF Gain
<1>4. main \in {"create", "init"} /\ main' \in {"create", "init"}
  BY DEF Create
<1>5. CountLacksMissed'
  BY <1>3, <1>4 DEF PoolInv, CountLacksMissed, Size, Create, sem
<1>6. Fresh' /\ Counted'
  BY <1>3, <1>4 DEF PoolInv, Fresh, Counted, Create, sem
<1> QED BY <1>1, <1>5, <1>6 DEF PoolInv

(* sem_init forgets whoever sleeps.                                        *)
LEMMA SemInitKeeps ==
  ASSUME PoolInv, SemInit
  PROVE  PoolInv'
<1>1. PoolTypeOK'
  BY DEF PoolInv, PoolTypeOK, SemInit, In
<1>2. \A stage : In(stage)' = In(stage)
  BY DEF SemInit, In
<1>3. Size("woken") = 0
  BY FS_EmptySet DEF PoolInv, Fresh, SemInit, Size
<1>4. CountLacksMissed'
  BY <1>2, <1>3, Numbers DEF CountLacksMissed, SemInit, PoolInv, Fresh, Size
<1> QED BY <1>1, <1>2, <1>3, <1>4 DEF PoolInv, Fresh, Counted, Size, SemInit

(* An item comes with a token to follow.                                   *)
LEMMA AppendKeeps ==
  ASSUME PoolInv, append
  PROVE  PoolInv'
<1>1. PoolTypeOK'
  BY MaxWorkAssumption DEF PoolInv, PoolTypeOK, append, sem
<1>2. \A stage : In(stage)' = In(stage)
  BY DEF append, In
<1> QED BY <1>1, <1>2, Numbers
        DEF PoolInv, CountLacksMissed, Fresh, Counted, Size, append, sem

(* sem_post leaves a token, and wakes a sleeper if one is counted: then it *)
(* is this one the token is for.                                           *)
LEMMA PostKeeps ==
  ASSUME PoolInv, Post
  PROVE  PoolInv'
<1>1. PoolTypeOK'
  BY DEF PoolInv, PoolTypeOK, Post, In
<1>2. CASE waiters = 0 \/ In("asleep") = {}
  <2>1. \A stage : In(stage)' = In(stage)
    BY <1>2 DEF Post, In
  <2>2. In("asleep") = {} => Size("asleep") = 0
    BY FS_EmptySet DEF Size
  <2> QED BY <1>1, <1>2, <2>1, <2>2, Numbers
          DEF PoolInv, CountLacksMissed, Fresh, Counted, Size, Post
<1>3. CASE ~(waiters = 0 \/ In("asleep") = {})
  <2>1. PICK w \in In("asleep") : pc' = [pc EXCEPT ![w] = "woken"]
    BY <1>3 DEF Post
  <2>2. w \in Worker /\ pc[w] = "asleep"
    BY <2>1 DEF In
  <2>0. Moves(pc, pc', w, "asleep", "woken")
    BY <2>1, <2>2 DEF Moves, PoolInv, PoolTypeOK
  <2>3. /\ Size("asleep")' = Size("asleep") - 1 /\ Size("woken")' = Size("woken") + 1
        /\ Size("run")' = Size("run")
    BY <2>0, OneMoves, SizeType DEF Gain
  <2> QED BY <1>1, <2>3, Numbers
          DEF PoolInv, CountLacksMissed, Fresh, Counted, Size, Post
<1> QED BY <1>2, <1>3

(* A thread takes a token, or finds none and sleeps.                       *)
LEMMA WaitKeeps ==
  ASSUME PoolInv, NEW w \in Worker, Take(w) \/ Sleep(w)
  PROVE  PoolInv'
<1>1. CASE Take(w)
  <2>1. PoolTypeOK'
    BY <1>1 DEF PoolInv, PoolTypeOK, Take
  <2>0. Moves(pc, pc', w, "wait", "run")
    BY <1>1 DEF Moves, PoolInv, PoolTypeOK, Take
  <2>2. /\ Size("run")' = Size("run") + 1 /\ Size("asleep")' = Size("asleep")
        /\ Size("woken")' = Size("woken") /\ In("woken")' = In("woken")
    BY <2>0, OneMoves, SizeType DEF Gain
  <2>7. CountLacksMissed'
    BY <1>1, <2>2, Numbers DEF PoolInv, CountLacksMissed, Size, Take
  <2>8. Fresh'
    BY <1>1, <2>2, Numbers DEF PoolInv, Fresh, Take
  <2>9. Counted'
    BY <1>1, <2>2, Numbers DEF PoolInv, Counted, Take
  <2> QED BY <2>1, <2>7, <2>8, <2>9 DEF PoolInv
<1>2. CASE Sleep(w)
  <2>1. PoolTypeOK'
    BY <1>2 DEF PoolInv, PoolTypeOK, Sleep
  <2>0. Moves(pc, pc', w, "wait", "asleep")
    BY <1>2 DEF Moves, PoolInv, PoolTypeOK, Sleep
  <2>2. /\ Size("asleep")' = Size("asleep") + 1 /\ Size("run")' = Size("run")
        /\ Size("woken")' = Size("woken") /\ In("woken")' = In("woken")
    BY <2>0, OneMoves, SizeType DEF Gain
  <2>7. CountLacksMissed'
    BY <1>2, <2>2, Numbers DEF PoolInv, CountLacksMissed, Size, Sleep
  <2>8. Fresh'
    BY <1>2, <2>2, Numbers DEF PoolInv, Fresh, Sleep
  <2>9. Counted'
    BY <1>2, <2>2, Numbers DEF PoolInv, Counted, Sleep
  <2> QED BY <2>1, <2>7, <2>8, <2>9 DEF PoolInv
<1> QED BY <1>1, <1>2

(* A thread that was woken takes its token, or finds it taken and sleeps   *)
(* again.  Before sem_init there is none.                                  *)
LEMMA WakeKeeps ==
  ASSUME PoolInv, NEW w \in Worker, Wake(w)
  PROVE  PoolInv'
<1>1. PoolTypeOK'
  BY DEF PoolInv, PoolTypeOK, Wake, sem
<1>2. w \in In("woken") /\ main \notin {"create", "init"}
  BY DEF PoolInv, Fresh, Wake, In
<1>3. CASE value > 0
  <2>0. Moves(pc, pc', w, "woken", "run")
    BY <1>3 DEF Moves, PoolInv, PoolTypeOK, Wake
  <2>1. /\ Size("woken")' = Size("woken") - 1 /\ Size("run")' = Size("run") + 1
        /\ Size("asleep")' = Size("asleep")
    BY <2>0, OneMoves, SizeType DEF Gain
  <2> QED BY <1>1, <1>2, <1>3, <2>1, Numbers
          DEF PoolInv, CountLacksMissed, Fresh, Counted, Size, Wake
<1>4. CASE ~(value > 0)
  <2>0. Moves(pc, pc', w, "woken", "asleep")
    BY <1>4 DEF Moves, PoolInv, PoolTypeOK, Wake
  <2>1. /\ Size("woken")' = Size("woken") - 1 /\ Size("asleep")' = Size("asleep") + 1
        /\ Size("run")' = Size("run")
    BY <2>0, OneMoves, SizeType DEF Gain
  <2>2. IsFiniteSet(In("woken")) /\ Size("woken") # 0
    BY <1>2, SizeType, FS_EmptySet DEF Size
  <2> QED BY <1>1, <1>2, <1>4, <2>1, <2>2, Numbers
          DEF PoolInv, CountLacksMissed, Fresh, Counted, Size, Wake, sem
<1> QED BY <1>3, <1>4

(* A thread with a token takes an item, if there is one, and serves it.    *)
LEMMA ServiceKeeps ==
  ASSUME PoolInv, NEW w \in Worker, Run(w) \/ Serve(w)
  PROVE  PoolInv'
<1>1. CASE Run(w)
  <2>1. PoolTypeOK'
    BY <1>1 DEF PoolInv, PoolTypeOK, Run, sem
  <2>0. w \in In("run")
    BY <1>1 DEF Run, In
  <2>2. Size("run") # 0
    BY <2>0, SizeType, FS_EmptySet DEF Size
  <2>3. /\ Size("run")' = Size("run") - 1 /\ Size("asleep")' = Size("asleep")
        /\ Size("woken")' = Size("woken") /\ In("woken")' = In("woken")
    <3>1. CASE queue = 0
      <4>1. Moves(pc, pc', w, "run", "wait")
        BY <1>1, <3>1 DEF Moves, PoolInv, PoolTypeOK, Run
      <4> QED BY <4>1, OneMoves, SizeType DEF Gain
    <3>2. CASE queue # 0
      <4>1. Moves(pc, pc', w, "run", "serve")
        BY <1>1, <3>2 DEF Moves, PoolInv, PoolTypeOK, Run
      <4> QED BY <4>1, OneMoves, SizeType DEF Gain
    <3> QED BY <3>1, <3>2
  <2>7. CountLacksMissed'
    BY <1>1, <2>2, <2>3, Numbers DEF PoolInv, CountLacksMissed, Size, Run, sem
  <2>8. Fresh'
    BY <1>1, <2>2, <2>3, Numbers DEF PoolInv, Fresh, Run, sem
  <2>9. Counted'
    BY <1>1, <2>2, <2>3, Numbers DEF PoolInv, Counted, Run, sem
  <2> QED BY <2>1, <2>7, <2>8, <2>9 DEF PoolInv
<1>2. CASE Serve(w)
  <2>1. PoolTypeOK'
    BY <1>2 DEF PoolInv, PoolTypeOK, Serve, sem
  <2>0. Moves(pc, pc', w, "serve", "wait")
    BY <1>2 DEF Moves, PoolInv, PoolTypeOK, Serve
  <2>2. Size("run")' = Size("run") /\ Size("asleep")' = Size("asleep")
        /\ Size("woken")' = Size("woken") /\ In("woken")' = In("woken")
    BY <2>0, OneMoves, SizeType DEF Gain
  <2>7. CountLacksMissed'
    BY <1>2, <2>2 DEF PoolInv, CountLacksMissed, Size, Serve, sem
  <2>8. Fresh'
    BY <1>2, <2>2 DEF PoolInv, Fresh, Serve, sem
  <2>9. Counted'
    BY <1>2, <2>2 DEF PoolInv, Counted, Serve, sem
  <2> QED BY <2>1, <2>7, <2>8, <2>9 DEF PoolInv
<1> QED BY <1>1, <1>2

-----------------------------------------------------------------------------
(* The inductive invariant of the start.                                   *)
THEOREM PoolInvariance == PoolSpec => []PoolInv
<1>1. PoolInv /\ [PoolNext]_poolVars => PoolInv'
  <2> SUFFICES ASSUME PoolInv, [PoolNext]_poolVars PROVE PoolInv'
    OBVIOUS
  <2>1. CASE UNCHANGED poolVars
    BY <2>1 DEF poolVars, sem, PoolInv, PoolTypeOK, CountLacksMissed, Fresh, Counted, Size, In
  <2>2. CASE PoolNext
    BY <2>2, CreateKeeps, SemInitKeeps, AppendKeeps, PostKeeps, WaitKeeps, WakeKeeps, ServiceKeeps
       DEF PoolNext, Work
  <2> QED BY <2>1, <2>2
<1> QED BY PoolInitOK, <1>1, PTL DEF PoolSpec

(* ThreadPool.cpp:77: for any number of threads, those that did not sleep  *)
(* before sem_init never sleep over a token.                               *)
THEOREM SleepersWereMissed == PoolSpec => []OnlyMissedSleep
<1>1. PoolInv => OnlyMissedSleep
  BY Numbers DEF PoolInv, OnlyMissedSleep, CountLacksMissed, Counted, Size
<1> QED BY PoolInvariance, <1>1, PTL
=============================================================================
