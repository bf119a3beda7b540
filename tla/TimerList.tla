----------------------------- MODULE TimerList -----------------------------
(***************************************************************************)
(* sort_timer_list (src/timer): the doubly linked list of the connections' *)
(* timers, at the level of its pointers, as the main thread and the pool's *)
(* workers use it.                                                         *)
(*                                                                         *)
(* mutex_ protects each member function but not a pair of them: AddTimer   *)
(* and AdjustTimer unlock before they call InsertTime, and a worker's      *)
(* DelTimer may run in that gap.  A step of this module is one critical    *)
(* section, or one round of a loop inside it; the mutex is held exactly    *)
(* while pc is "walk" or "Tick", all other critical sections being atomic. *)
(*                                                                         *)
(* A timer stands for itself and for its connection: it is the address     *)
(* that `new Timer()` returned, never handed out twice, so that            *)
(* dereferencing a freed one is visible as a fault.  Reuse of descriptors  *)
(* is the subject of module WebServer.                                     *)
(***************************************************************************)
EXTENDS Naturals

CONSTANTS
  Timer,    \* the timers that can be allocated
  Worker,   \* the pool's threads
  Null,     \* the null pointer
  Lease,    \* 3 * alarm_interval_
  MaxTime   \* bound: the wall clock reads 0..MaxTime

ASSUME NullAssumption == Null \notin Timer
ASSUME TimeAssumption == Lease \in Nat /\ MaxTime \in Nat

VARIABLES
  head, tail,   \* the members of sort_timer_list
  pre, next,    \* the links in each Timer
  expire,       \* expire_ of each Timer
  live, freed,  \* the timers allocated now, and those already deleted
  pc,           \* where the main thread is
  arg,          \* the timer the main thread is inserting
  mid,          \* InsertTime's argument, then its local `pre`
  cur,          \* Tick's local `cur`
  caller,       \* who called AddTimer or AdjustTimer
  armed,        \* connections whose descriptor epoll is watching
  handed,       \* connections waiting in the pool's work queue
  held,         \* the connection each worker is serving
  fault,        \* a freed or null timer was dereferenced
  raced,        \* history: a worker freed the node an insertion had chosen
  stolen        \* history: Tick freed these while the pool had them

list  == <<head, tail, pre, next, expire>>
heap  == <<live, freed>>
main  == <<pc, arg, mid, cur, caller>>
owner == <<armed, handed, held>>
ghost == <<raced, stolen>>
vars  == <<list, heap, main, owner, fault, ghost>>

Clock == 0 .. MaxTime
Busy  == handed \union {held[w] : w \in {v \in Worker : held[v] # Null}}

(* The timers the list is meant to contain: all but the one in transit.    *)
Inserting == pc \in {"AddTimer", "call", "InsertTime", "walk"}
Listed    == IF Inserting THEN live \ {arg} ELSE live

(* Undefined behaviour ends what the model says about an execution.        *)
Fault == fault' = TRUE /\ UNCHANGED <<list, heap, main, owner, ghost>>

(* mutex_ is free for a thread that is not in the middle of a section.     *)
Unlocked == pc \notin {"walk", "Tick"}

Init ==
  /\ head = Null /\ tail = Null
  /\ pre = [t \in Timer |-> Null] /\ next = [t \in Timer |-> Null]
  /\ expire = [t \in Timer |-> 0]
  /\ live = {} /\ freed = {}
  /\ pc = "epoll_wait" /\ arg = Null /\ mid = Null
  /\ cur = 0 /\ caller = "EstablishConnection"
  /\ armed = {} /\ handed = {} /\ held = [w \in Worker |-> Null]
  /\ fault = FALSE /\ raced = FALSE /\ stolen = {}

-----------------------------------------------------------------------------
(* The main thread, event by event.                                        *)

(* Mutation of Accept: the deadline is the time of the accept.             *)
AcceptWithoutLease(t) ==
  /\ pc = "epoll_wait"
  /\ t \notin live \union freed
  /\ live' = live \union {t}
  /\ \E time \in Clock : expire' = [expire EXCEPT ![t] = time]
  /\ pc' = "AddTimer" /\ arg' = t /\ caller' = "EstablishConnection"
  /\ UNCHANGED <<head, tail, pre, next, freed, mid, cur, owner, fault, ghost>>

(* EstablishConnection: a new timer, with the deadline it keeps for ever.  *)
Accept(t) ==
  /\ pc = "epoll_wait"
  /\ t \notin live \union freed
  /\ live' = live \union {t}
  /\ \E time \in Clock : expire' = [expire EXCEPT ![t] = time + Lease]
  /\ pc' = "AddTimer" /\ arg' = t /\ caller' = "EstablishConnection"
  /\ UNCHANGED <<head, tail, pre, next, freed, mid, cur, owner, fault, ghost>>

(* Mutation of Return: the descriptor is watched without one-shot.         *)
ReturnWithoutOneShot(t, by) ==
  /\ pc' = "epoll_wait" /\ arg' = Null /\ mid' = Null
  /\ cur' = cur /\ caller' = by /\ held' = held
  /\ armed' = armed \union {t}
  /\ handed' \in IF by = "Deal" THEN {handed, handed \union {t}} ELSE {handed}

(* What the caller does with the connection once its timer is in place:    *)
(* watch it, or append it to the work queue, which drops it when full.     *)
Return(t, by) ==
  /\ pc' = "epoll_wait" /\ arg' = Null /\ mid' = Null
  /\ cur' = cur /\ caller' = by /\ held' = held
  /\ \/ /\ by = "EstablishConnection"
        /\ armed' = armed \union {t} /\ handed' = handed
     \/ /\ by = "Deal"
        /\ armed' = armed \ {t}
        /\ handed' \in {handed, handed \union {t}}

AddEmpty ==
  /\ pc = "AddTimer" /\ head = Null
  /\ head' = arg /\ tail' = arg
  /\ Return(arg, caller)
  /\ UNCHANGED <<pre, next, expire, heap, fault, ghost>>

AddFirst ==
  /\ pc = "AddTimer" /\ head # Null
  /\ expire[arg] < expire[head]
  /\ head' = arg
  /\ next' = [next EXCEPT ![arg] = head]
  /\ pre' = [pre EXCEPT ![head] = arg]
  /\ Return(arg, caller)
  /\ UNCHANGED <<tail, expire, heap, fault, ghost>>

(* Mutation of AddLater: AddTimer does not compare with the head.          *)
AddLaterAlways ==
  /\ pc = "AddTimer" /\ head # Null
  /\ pc' = "call"
  /\ UNCHANGED <<list, heap, arg, mid, cur, caller, owner, fault, ghost>>

(* Not before the head: unlock, and only then read `head` for the call.    *)
AddLater ==
  /\ pc = "AddTimer" /\ head # Null
  /\ expire[arg] >= expire[head]
  /\ pc' = "call"
  /\ UNCHANGED <<list, heap, arg, mid, cur, caller, owner, fault, ghost>>

ReadHead ==
  /\ pc = "call"
  /\ pc' = "InsertTime" /\ mid' = head
  /\ UNCHANGED <<list, heap, arg, cur, caller, owner, fault, ghost>>

(* InsertTime locks and reads mid->next.                                   *)
InsertBegin ==
  /\ pc = "InsertTime"
  /\ IF mid \in live
     THEN pc' = "walk"
          /\ UNCHANGED <<list, heap, arg, mid, cur, caller, owner, fault, ghost>>
     ELSE Fault

(* InsertTime's `post` is next[mid] throughout.                            *)
Walk ==
  /\ pc = "walk" /\ next[mid] # Null
  /\ expire[arg] >= expire[next[mid]]
  /\ mid' = next[mid]
  /\ UNCHANGED <<list, heap, pc, arg, cur, caller, owner, fault, ghost>>

InsertBefore ==
  /\ pc = "walk" /\ next[mid] # Null
  /\ expire[arg] < expire[next[mid]]
  /\ next' = [next EXCEPT ![mid] = arg, ![arg] = next[mid]]
  /\ pre' = [pre EXCEPT ![next[mid]] = arg, ![arg] = mid]
  /\ Return(arg, caller)
  /\ UNCHANGED <<head, tail, expire, heap, fault, ghost>>

(* Mutation of InsertLast: tail->next is not set.                          *)
InsertLastUnlinked ==
  /\ pc = "walk" /\ next[mid] = Null
  /\ next' = [next EXCEPT ![arg] = Null]
  /\ pre' = [pre EXCEPT ![arg] = tail]
  /\ tail' = arg
  /\ Return(arg, caller)
  /\ UNCHANGED <<head, expire, heap, fault, ghost>>

InsertLast ==
  /\ pc = "walk" /\ next[mid] = Null
  /\ next' = [next EXCEPT ![tail] = arg, ![arg] = Null]
  /\ pre' = [pre EXCEPT ![arg] = tail]
  /\ tail' = arg
  /\ Return(arg, caller)
  /\ UNCHANGED <<head, expire, heap, fault, ghost>>

(* DealRead and DealWrite: AdjustTimer on the connection epoll reported    *)
(* (one-shot: it is no longer watched), then append.  expire_ is as it     *)
(* was, so only a tie with the next timer moves anything.                  *)
Misplaced(t) == next[t] # Null /\ t # tail /\ expire[t] >= expire[next[t]]

AdjustNothing(t) ==
  /\ pc = "epoll_wait" /\ t \in armed
  /\ ~Misplaced(t)
  /\ Return(t, "Deal")
  /\ UNCHANGED <<list, heap, fault, ghost>>

AdjustHead(t) ==
  /\ pc = "epoll_wait" /\ t \in armed
  /\ Misplaced(t) /\ (t = head \/ pre[t] = Null)
  /\ head' = next[head]
  /\ pre' = [pre EXCEPT ![next[head]] = Null]
  /\ next' = [next EXCEPT ![t] = Null]
  /\ pc' = "AddTimer" /\ arg' = t /\ caller' = "Deal"
  /\ armed' = armed \ {t}
  /\ UNCHANGED <<tail, expire, heap, mid, cur, handed, held, fault, ghost>>

AdjustMiddle(t) ==
  /\ pc = "epoll_wait" /\ t \in armed
  /\ Misplaced(t) /\ t # head /\ pre[t] # Null
  /\ next' = [next EXCEPT ![pre[t]] = next[t]]
  /\ pre' = [pre EXCEPT ![next[t]] = pre[t]]
  /\ pc' = "InsertTime" /\ arg' = t /\ mid' = next[t] /\ caller' = "Deal"
  /\ armed' = armed \ {t}
  /\ UNCHANGED <<head, tail, expire, heap, cur, handed, held, fault, ghost>>

-----------------------------------------------------------------------------
(* DelTimer, one critical section.  The contents of the deleted object are *)
(* gone with it.                                                           *)
Delete(t) == live' = live \ {t} /\ freed' = freed \union {t}

DelOnly(t) ==
  /\ t = head /\ t = tail
  /\ head' = Null /\ tail' = Null
  /\ pre' = [pre EXCEPT ![t] = Null] /\ next' = [next EXCEPT ![t] = Null]
  /\ Delete(t)

DelHead(t) ==
  /\ ~(t = head /\ t = tail)
  /\ pre[t] = Null \/ t = head
  /\ head' = next[head] /\ tail' = tail
  /\ pre' = [pre EXCEPT ![next[head]] = Null, ![t] = Null]
  /\ next' = [next EXCEPT ![t] = Null]
  /\ Delete(t)

DelTail(t) ==
  /\ pre[t] # Null /\ t # head
  /\ next[t] = Null \/ t = tail
  /\ head' = head /\ tail' = pre[tail]
  /\ next' = [next EXCEPT ![pre[tail]] = Null, ![t] = Null]
  /\ pre' = [pre EXCEPT ![t] = Null]
  /\ Delete(t)

(* Mutation of DelMiddle: timer->next->pre is not set.                     *)
DelMiddleHalf(t) ==
  /\ pre[t] # Null /\ t # head
  /\ next[t] # Null /\ t # tail
  /\ head' = head /\ tail' = tail
  /\ next' = [next EXCEPT ![pre[t]] = next[t], ![t] = Null]
  /\ pre' = [pre EXCEPT ![t] = Null]
  /\ Delete(t)

DelMiddle(t) ==
  /\ pre[t] # Null /\ t # head
  /\ next[t] # Null /\ t # tail
  /\ head' = head /\ tail' = tail
  /\ next' = [next EXCEPT ![pre[t]] = next[t], ![t] = Null]
  /\ pre' = [pre EXCEPT ![next[t]] = pre[t], ![t] = Null]
  /\ Delete(t)

(* A timer somebody else deleted: harmless only when both ends are null.   *)
DelNothing(t) ==
  /\ head = Null /\ tail = Null
  /\ UNCHANGED <<list, heap>>

DelLive(t) ==
  /\ t \in live
  /\ DelOnly(t) \/ DelHead(t) \/ DelTail(t) \/ DelMiddle(t)
  /\ expire' = [expire EXCEPT ![t] = 0]

(* EPOLLRDHUP, EPOLLHUP or EPOLLERR on a watched descriptor.               *)
HangUp(t) ==
  /\ pc = "epoll_wait" /\ t \in armed
  /\ DelLive(t)
  /\ armed' = armed \ {t}
  /\ UNCHANGED <<main, handed, held, fault, ghost>>

(* Tick.  An empty list is no step at all.                                 *)
TickBegin ==
  /\ pc = "epoll_wait" /\ head # Null
  /\ pc' = "Tick" /\ cur' \in Clock
  /\ UNCHANGED <<list, heap, arg, mid, caller, owner, fault, ghost>>

(* One expired timer, its connection closed first.  The last one leaves    *)
(* `tail` pointing to freed memory.                                        *)
TickExpire ==
  /\ pc = "Tick" /\ head # Null
  /\ expire[head] <= cur
  /\ head' = next[head] /\ tail' = tail
  /\ pre' = [t \in Timer |-> IF t = next[head] \/ t = head THEN Null ELSE pre[t]]
  /\ next' = [next EXCEPT ![head] = Null]
  /\ expire' = [expire EXCEPT ![head] = 0]
  /\ Delete(head)
  /\ armed' = armed \ {head}
  /\ stolen' = IF head \in Busy THEN stolen \union {head} ELSE stolen
  /\ UNCHANGED <<main, handed, held, fault, raced>>

(* Mutation of TickStop: a timer whose deadline is now is left.            *)
TickStopEarly ==
  /\ pc = "Tick"
  /\ head = Null \/ (head # Null /\ cur <= expire[head])
  /\ pc' = "epoll_wait" /\ cur' = 0
  /\ UNCHANGED <<list, heap, arg, mid, caller, owner, fault, ghost>>

TickStop ==
  /\ pc = "Tick"
  /\ head = Null \/ (head # Null /\ cur < expire[head])
  /\ pc' = "epoll_wait" /\ cur' = 0
  /\ UNCHANGED <<list, heap, arg, mid, caller, owner, fault, ghost>>

-----------------------------------------------------------------------------
(* The pool's workers: take a connection; then give it back to epoll, or   *)
(* close it after an error or a finished response.                         *)
Take(w, t) ==
  /\ held[w] = Null /\ t \in handed
  /\ handed' = handed \ {t}
  /\ held' = [held EXCEPT ![w] = t]
  /\ UNCHANGED <<list, heap, main, armed, fault, ghost>>

(* ModEpoll; it fails unnoticed on a descriptor Tick has closed.           *)
Rearm(w) ==
  /\ held[w] # Null
  /\ armed' = IF held[w] \in live THEN armed \union {held[w]} ELSE armed
  /\ held' = [held EXCEPT ![w] = Null]
  /\ UNCHANGED <<list, heap, main, handed, fault, ghost>>

WorkerClose(w) ==
  /\ held[w] # Null /\ Unlocked
  /\ DelLive(held[w])
  /\ held' = [held EXCEPT ![w] = Null]
  /\ raced' = \/ raced
              \/ pc = "call" /\ held[w] = head
              \/ pc = "InsertTime" /\ held[w] = mid
  /\ UNCHANGED <<main, armed, handed, fault, stolen>>

WorkerCloseAgain(w) ==
  /\ held[w] # Null /\ Unlocked
  /\ held[w] \notin live
  /\ IF head = Null /\ tail = Null
     THEN /\ DelNothing(held[w])
          /\ held' = [held EXCEPT ![w] = Null]
          /\ UNCHANGED <<main, armed, handed, fault, ghost>>
     ELSE Fault

MainStep ==
  \/ AddEmpty \/ AddFirst \/ AddLater \/ ReadHead
  \/ InsertBegin \/ Walk \/ InsertBefore \/ InsertLast
  \/ TickBegin \/ TickExpire \/ TickStop
  \/ \E t \in Timer : \/ Accept(t) \/ HangUp(t)
                      \/ AdjustNothing(t) \/ AdjustHead(t) \/ AdjustMiddle(t)

WorkerStep(w) ==
  \/ \E t \in Timer : Take(w, t)
  \/ Rearm(w) \/ WorkerClose(w) \/ WorkerCloseAgain(w)

Next == ~fault /\ (MainStep \/ \E w \in Worker : WorkerStep(w))

Spec == Init /\ [][Next]_vars

-----------------------------------------------------------------------------
(* Every variable has its type, and a deadline is a reading of the clock   *)
(* plus the lease.                                                         *)
TypeOK ==
  /\ head \in Timer \union {Null} /\ tail \in Timer \union {Null}
  /\ pre \in [Timer -> Timer \union {Null}]
  /\ next \in [Timer -> Timer \union {Null}]
  /\ expire \in [Timer -> 0 .. MaxTime + Lease]
  /\ \A t \in live : expire[t] >= Lease
  /\ live \subseteq Timer /\ freed \subseteq Timer
  /\ pc \in {"epoll_wait", "AddTimer", "call", "InsertTime", "walk", "Tick"}
  /\ arg \in Timer \union {Null} /\ mid \in Timer \union {Null}
  /\ cur \in Clock /\ caller \in {"EstablishConnection", "Deal"}
  /\ armed \subseteq Timer /\ handed \subseteq Timer
  /\ held \in [Worker -> Timer \union {Null}]
  /\ fault \in BOOLEAN /\ raced \in BOOLEAN /\ stolen \subseteq Timer

(* The links of the listed timers agree with each other and with the two   *)
(* ends, whichever function last changed them: what every walk and every   *)
(* unlinking relies on.  `tail` may dangle only when there is no list.     *)
LinksAgree ==
  /\ head # Null => head \in Listed /\ tail \in Listed
  /\ \A t \in Listed :
       /\ pre[t] = Null <=> t = head
       /\ next[t] = Null <=> t = tail
       /\ pre[t] # Null => pre[t] \in Listed /\ next[pre[t]] = t
       /\ next[t] # Null => next[t] \in Listed /\ pre[next[t]] = t

(* No timer is lost or leaked: the timers reached from `head` are all the  *)
(* timers that are allocated and not being inserted, so that Tick sees     *)
(* each of them.  (A set that has the head and is closed under `next` has  *)
(* them all.)                                                              *)
NoTimerLost ==
  /\ head = Null => Listed = {}
  /\ \A S \in SUBSET Listed :
       (head \in S /\ \A t \in S : next[t] # Null => next[t] \in S) => S = Listed

(* The list ascends, as Tick's early exit needs, unless a worker freed the *)
(* node that an insertion had chosen before InsertTime locked the list.    *)
Ascending == \A t \in Listed : next[t] # Null => expire[t] <= expire[next[t]]
AscendingUnlessRaced == raced \/ Ascending

(* Freed memory is touched in two ways only: Tick deleted the timer of a   *)
(* connection the pool was serving, or a worker deleted the node between   *)
(* the two halves of an insertion.  All other orders of the threads'       *)
(* calls are safe.                                                         *)
FaultExplained == fault => raced \/ stolen # {}

(* When Tick returns, no timer it was called to collect is left.           *)
TickComplete ==
  [][pc = "Tick" /\ pc' = "epoll_wait" /\ ~raced
       => \A t \in Listed' : cur < expire[t]]_vars
=============================================================================
