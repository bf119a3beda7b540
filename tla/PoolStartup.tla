---------------------------- MODULE PoolStartup -----------------------------
(***************************************************************************)
(* The start of ThreadPool: the constructor creates the threads first and  *)
(* initialises the semaphore they wait on afterwards.  The threads are     *)
(* those of run; append and what run does with a connection are in module  *)
(* WebServer.                                                              *)
(*                                                                         *)
(* The semaphore is that of glibc: a value and a count of waiters in one   *)
(* word, which sem_init overwrites.  sem_post wakes a sleeper only if the  *)
(* count is not zero.  A thread that slept before sem_init is not in the   *)
(* count, but is woken in place of one that is.  What the memory holds     *)
(* before sem_init is nobody's choice: no token, or one; the mutex is      *)
(* taken to read as free.                                                  *)
(***************************************************************************)
EXTENDS Integers, FiniteSets

CONSTANTS
  Worker,   \* the threads
  MaxWork   \* bound: connections appended

ASSUME WorkerAssumption == IsFiniteSet(Worker) /\ Worker # {}
ASSUME MaxWorkAssumption == MaxWork \in Nat

VARIABLES
  main,      \* stage of the main thread
  pc,        \* stage of each worker
  value,     \* work_queue_sem_: tokens
  waiters,   \* work_queue_sem_: threads counted as waiting
  queue,     \* connections in work_queue_
  appended,  \* connections appended so far
  missed     \* history: threads that slept when sem_init ran

sem  == <<value, waiters>>
poolVars == <<main, pc, sem, queue, appended, missed>>

In(stage) == {w \in Worker : pc[w] = stage}

PoolInit ==
  /\ main = "create" /\ pc = [w \in Worker |-> "none"]
  /\ value \in 0 .. 1 /\ waiters = 0
  /\ queue = 0 /\ appended = 0 /\ missed = {}

-----------------------------------------------------------------------------
(* The constructor: pthread_create, one after the other, then sem_init.    *)
Create(w) ==
  /\ main = "create" /\ pc[w] = "none"
  /\ pc' = [pc EXCEPT ![w] = "wait"]
  /\ main' = IF In("none") = {w} THEN "init" ELSE "create"
  /\ UNCHANGED <<sem, queue, appended, missed>>

SemInit ==
  /\ main = "init" /\ main' = "ready"
  /\ value' = 0 /\ waiters' = 0 /\ missed' = In("asleep")
  /\ UNCHANGED <<pc, queue, appended>>

(* append: the item, then the token.                                       *)
append ==
  /\ main = "ready" /\ appended < MaxWork /\ main' = "post"
  /\ queue' = queue + 1 /\ appended' = appended + 1
  /\ UNCHANGED <<pc, sem, missed>>

(* Mutation of Post: only for the first item.                              *)
PostIfFirst ==
  /\ main = "post" /\ main' = "ready"
  /\ IF queue # 1 THEN UNCHANGED <<pc, value>>
     ELSE /\ value' = value + 1
          /\ IF waiters = 0 \/ In("asleep") = {} THEN UNCHANGED pc
             ELSE \E w \in In("asleep") : pc' = [pc EXCEPT ![w] = "woken"]
  /\ UNCHANGED <<waiters, queue, appended, missed>>

Post ==
  /\ main = "post" /\ main' = "ready"
  /\ value' = value + 1
  /\ IF waiters = 0 \/ In("asleep") = {} THEN UNCHANGED pc
     ELSE \E w \in In("asleep") : pc' = [pc EXCEPT ![w] = "woken"]
  /\ UNCHANGED <<waiters, queue, appended, missed>>

(* sem_wait takes a token, or counts itself and sleeps; woken, it looks    *)
(* again and leaves the count with its token.                              *)
Take(w) ==
  /\ pc[w] = "wait" /\ value > 0
  /\ value' = value - 1 /\ pc' = [pc EXCEPT ![w] = "run"]
  /\ UNCHANGED <<main, waiters, queue, appended, missed>>

Sleep(w) ==
  /\ pc[w] = "wait" /\ value = 0
  /\ waiters' = waiters + 1 /\ pc' = [pc EXCEPT ![w] = "asleep"]
  /\ UNCHANGED <<main, value, queue, appended, missed>>

Wake(w) ==
  /\ pc[w] = "woken"
  /\ IF value > 0
       THEN value' = value - 1 /\ waiters' = waiters - 1 /\ pc' = [pc EXCEPT ![w] = "run"]
       ELSE pc' = [pc EXCEPT ![w] = "asleep"] /\ UNCHANGED sem
  /\ UNCHANGED <<main, queue, appended, missed>>

(* run: a token without an item is no harm; an item is served.             *)
Run(w) ==
  /\ pc[w] = "run"
  /\ IF queue = 0 THEN pc' = [pc EXCEPT ![w] = "wait"] /\ UNCHANGED queue
     ELSE pc' = [pc EXCEPT ![w] = "serve"] /\ queue' = queue - 1
  /\ UNCHANGED <<main, sem, appended, missed>>

Serve(w) ==
  /\ pc[w] = "serve" /\ pc' = [pc EXCEPT ![w] = "wait"]
  /\ UNCHANGED <<main, sem, queue, appended, missed>>

Work(w) == Take(w) \/ Sleep(w) \/ Wake(w) \/ Run(w) \/ Serve(w)

PoolNext ==
  \/ SemInit \/ append \/ Post
  \/ \E w \in Worker : Create(w) \/ Work(w)

PoolSpec == PoolInit /\ [][PoolNext]_poolVars

(* The threads run; that connections come is nobody's promise.             *)
FairPoolSpec ==
  PoolSpec /\ WF_poolVars(SemInit) /\ WF_poolVars(Post)
       /\ WF_poolVars(\E w \in Worker : Create(w)) /\ \A w \in Worker : WF_poolVars(Work(w))

-----------------------------------------------------------------------------
PoolTypeOK ==
  /\ main \in {"create", "init", "ready", "post"}
  /\ pc \in [Worker -> {"none", "wait", "asleep", "woken", "run", "serve"}]
  /\ value \in Nat /\ waiters \in Int
  /\ queue \in Nat /\ appended \in 0 .. MaxWork /\ missed \subseteq Worker

(* sem_post's count lacks, for ever, as many threads as slept too early,   *)
(* and each item has its token, or a thread that is on its way.            *)
CountLacksMissed ==
  /\ Cardinality(In("asleep")) + Cardinality(In("woken"))
       = waiters + Cardinality(missed)
  /\ queue <= value + Cardinality(In("run")) + (IF main = "post" THEN 1 ELSE 0)

(* The pool works with the threads that did not come too early: while a    *)
(* token is there that nobody was woken for, no others sleep.              *)
OnlyMissedSleep ==
  /\ PoolTypeOK /\ CountLacksMissed
  /\ main = "ready" /\ value > Cardinality(In("woken"))
       => Cardinality(In("asleep")) <= Cardinality(missed)

(* ThreadPool.cpp:77: every connection is taken from the queue, unless all *)
(* threads slept before sem_init.                                          *)
ServedUnlessAllMissed == (queue > 0 /\ missed # Worker) ~> queue = 0
=============================================================================
