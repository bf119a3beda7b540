----------------------------- MODULE WebServer -----------------------------
(***************************************************************************)
(* The reactor: WebServer::EpollLoop in the main thread, ThreadPool and    *)
(* its workers, and what they share about a connection, which is addressed *)
(* everywhere by its descriptor: epoll's registration, the slots           *)
(* connections_[fd] and timers_[fd], the work queue with its semaphore,    *)
(* the session map and the counter connection_num_.                        *)
(*                                                                         *)
(* A descriptor is reused as soon as it is closed, so each accept starts a *)
(* new incarnation of it; a timer is named by the incarnation it was made  *)
(* for.  The list of timers is that of module TimerList, reduced to the    *)
(* timers in it, those whose deadline has passed and the one next to which *)
(* an insertion goes on after it has released the mutex; login and request *)
(* data are left to other modules.                                         *)
(*                                                                         *)
(* A thread's task is the descriptor it handles and the calls it still has *)
(* to make in the handler it is in, in the order of the source.  A call is *)
(* one step, save that ++ and -- of the counter are a load and a store and *)
(* that an insertion into the list may take two critical sections.         *)
(***************************************************************************)
EXTENDS Naturals, Sequences, FiniteSets

CONSTANTS
  Fd,             \* the descriptors accept can return, as numbers
  Worker,         \* the pool's threads
  Main,           \* the main thread
  Session,        \* session strings that SessionExists returns
  QueueMax,       \* work_queue_max_size_
  ConnectionMax,  \* connection_max_num_
  UnsignedRange,  \* connection_num_ counts modulo this
  MaxAccept       \* bound: accepts in one behaviour

ASSUME FdAssumption == Fd \subseteq Nat \ {0} /\ IsFiniteSet(Fd)
ASSUME ThreadAssumption == IsFiniteSet(Worker) /\ Main \notin Worker
ASSUME SizeAssumption ==
  /\ QueueMax \in Nat \ {0} /\ ConnectionMax \in Nat /\ MaxAccept \in Nat
  /\ UnsignedRange \in Nat /\ ConnectionMax < UnsignedRange
ASSUME SessionAssumption == Session # {} /\ "" \notin Session

VARIABLES
  open,      \* incarnation a descriptor is open for, 0 when closed
  accepted,  \* incarnations so far
  epoll,     \* registration: "none", "in", "out", or "off" (one-shot, fired)
  session,   \* connections_[fd].session_
  mode,      \* connections_[fd].work_mode_
  timers,    \* timers_[fd]: the incarnation its timer was made for
  home,      \* con_.socket_fd_ of each timer
  live,      \* the timers in sort_timer_list_
  expired,   \* those whose deadline has passed
  members,   \* session_map_
  num,       \* connection_num_
  reg,       \* connection_num_ as a thread loaded it
  queue,     \* work_queue_, of pointers into connections_
  sem,       \* work_queue_sem_
  task,      \* what each thread is doing
  hint,      \* the timer at which the main thread is about to insert, or 0
  fault,     \* a deleted timer was used
  raced,     \* history: a worker deleted the timer of hint
  stolen,    \* history: Tick closed a connection the pool was serving
  reused,    \* history: accept reused a descriptor still to be unbound
  overlap,   \* history: two threads were updating connection_num_ at once
  dropped    \* history: connections the full queue did not take

conn  == <<open, accepted, epoll, session, mode>>
time  == <<timers, home, live, expired>>
count == <<num, reg, overlap>>
pool  == <<queue, sem, dropped>>
ghost == <<hint, fault, raced, stolen, reused>>
vars  == <<conn, time, members, count, pool, task, ghost>>

Thread      == Worker \union {Main}
Incarnation == 1 .. MaxAccept
Free        == {f \in Fd : open[f] = 0}

(* Mutations of the handlers: no timer, no sem_post, no erase, no          *)
(* decrement.                                                              *)
AcceptingUntimed == <<"Establish", "add", "bind", "AddEpoll">>
HandingSilently(m) == <<"AdjustTimer", m>>
HangUpClosingBound == <<"DelTimer", "DelEpoll", "load", "sub">>
TickClosingUncounted == <<"DelEpoll", "erase", "Tick">>

(* The calls of each handler, in the order the source makes them; a mode   *)
(* stands for append with that mode in the main thread, and for ReceiveMes-*)
(* sage and Process, or WriteHTTPMessage, in a worker.                     *)
Accepting     == <<"Establish", "add", "bind", "AddTimer", "AddEpoll">>
Handing(m)    == <<"AdjustTimer", m, "sem_post">>
WorkerClosing == <<"DelTimer", "DelEpoll", "load", "sub", "erase">>
HangUpClosing == <<"DelTimer", "DelEpoll", "erase", "load", "sub">>
TickClosing   == <<"DelEpoll", "load", "sub", "erase", "Tick">>

Idle         == [fd |-> 0, calls |-> <<>>]
Job(f, cs)   == [fd |-> f, calls |-> cs]
Calls(t)     == {task[t].calls[i] : i \in 1 .. Len(task[t].calls)}
At(t, call)  == task[t] # Idle /\ Head(task[t].calls) = call
AtAny(t, cs) == task[t] # Idle /\ Head(task[t].calls) \in cs
Start(t, j)  == task' = [task EXCEPT ![t] = j]
Done(t) == Start(t, IF Len(task[t].calls) = 1 THEN Idle
                    ELSE Job(task[t].fd, Tail(task[t].calls)))

(* Tick holds the list's mutex from its first timer to its last.           *)
TickRuns == "Tick" \in Calls(Main)

Init ==
  /\ open = [f \in Fd |-> 0] /\ accepted = 0
  /\ epoll = [f \in Fd |-> "none"]
  /\ session = [f \in Fd |-> ""]
  /\ mode = [f \in Fd |-> "READ"]
  /\ timers = [f \in Fd |-> 0] /\ home = [g \in Incarnation |-> 0]
  /\ live = {} /\ expired = {}
  /\ members = [s \in Session |-> {}]
  /\ num = 0 /\ reg = [t \in Thread |-> 0]
  /\ queue = <<>> /\ sem = 0
  /\ task = [t \in Thread |-> Idle]
  /\ hint = 0 /\ fault = FALSE /\ raced = FALSE
  /\ stolen = FALSE /\ reused = FALSE /\ overlap = FALSE
  /\ dropped = {}

-----------------------------------------------------------------------------
(* The main thread at epoll_wait.  It takes one event at a time: with      *)
(* one-shot registration nothing but Tick, which runs after the batch, can *)
(* tell that from a batch of events.                                       *)

(* A worker has closed the descriptor and has yet to unbind it.            *)
Unbinding(f) == \E w \in Worker : task[w].fd = f /\ AtAny(w, {"load", "sub", "erase"})

(* EstablishConnection: accept returns the lowest free descriptor.  Beyond *)
(* the limit the handler returns and the descriptor stays open.            *)
Accept ==
  /\ task[Main] = Idle /\ Free # {} /\ accepted < MaxAccept
  /\ LET f == CHOOSE f \in Free : \A h \in Free : f <= h IN
     /\ accepted' = accepted + 1
     /\ open' = [open EXCEPT ![f] = accepted + 1]
     /\ reused' = (reused \/ Unbinding(f))
     /\ Start(Main, IF num >= ConnectionMax THEN Idle ELSE Job(f, Accepting))
  /\ UNCHANGED <<epoll, session, mode, time, members, count, pool, hint, fault, raced, stolen>>

(* Mutation of Event: watched without one-shot.                            *)
EventWithoutOneShot(f, calls) ==
  /\ task[Main] = Idle
  /\ Start(Main, Job(f, calls))
  /\ UNCHANGED <<conn, time, members, count, pool, ghost>>

(* An event on a watched descriptor switches it off.                       *)
Event(f, calls) ==
  /\ task[Main] = Idle
  /\ epoll' = [epoll EXCEPT ![f] = "off"]
  /\ Start(Main, Job(f, calls))
  /\ UNCHANGED <<open, accepted, session, mode, time, members, count, pool, ghost>>

DealRead(f)  == epoll[f] = "in" /\ Event(f, Handing("READ"))
DealWrite(f) == epoll[f] = "out" /\ Event(f, Handing("WRITE"))
HangUp(f)    == epoll[f] \in {"in", "out"} /\ Event(f, HangUpClosing)

(* The deadline of a timer passes, in the order of the accepts; a later    *)
(* SIGALRM makes the loop call Tick (which does nothing, and is no step,   *)
(* when no deadline has passed).                                           *)
Expire(g) ==
  /\ g \in live \ expired /\ \A h \in live \ expired : g <= h
  /\ expired' = expired \union {g}
  /\ UNCHANGED <<conn, timers, home, live, members, count, pool, task, ghost>>

Alarm ==
  /\ task[Main] = Idle /\ expired # {}
  /\ Start(Main, Job(0, <<"Tick">>))
  /\ UNCHANGED <<conn, time, members, count, pool, ghost>>

(* The connection of f is waiting for a worker or being served by one.     *)
InPool(f) == \/ \E i \in 1 .. Len(queue) : queue[i] = f
             \/ \E w \in Worker : task[w].fd = f /\ AtAny(w, {"READ", "WRITE", "DelTimer"})

(* Tick: the next expired timer and, by its con_, the descriptor to close. *)
(* The timer is deleted last, but the mutex hides that until Tick returns. *)
TickNext(g) ==
  /\ At(Main, "Tick") /\ g \in expired
  /\ Start(Main, Job(home[g], TickClosing))
  /\ live' = live \ {g} /\ expired' = expired \ {g}
  /\ stolen' = (stolen \/ InPool(home[g]))
  /\ UNCHANGED <<conn, timers, home, members, count, pool, hint, fault, raced, reused>>

TickEnd ==
  /\ At(Main, "Tick") /\ expired = {}
  /\ Done(Main)
  /\ UNCHANGED <<conn, time, members, count, pool, ghost>>

-----------------------------------------------------------------------------
(* The calls that threads make for the descriptor of their task.           *)

(* connection_num_ is a plain unsigned: ++ and -- load it, then store it.  *)
Load(t) ==
  /\ reg' = [reg EXCEPT ![t] = num] /\ num' = num
  /\ overlap' = (overlap \/ \E u \in Thread \ {t} : AtAny(u, {"add", "sub"}))

Store(t, value) ==
  /\ num' = value % UnsignedRange
  /\ reg' = [reg EXCEPT ![t] = 0] /\ overlap' = overlap

(* HTTPConnection::Establish: session_, then ++connection_num_.            *)
Establish ==
  /\ At(Main, "Establish") /\ Done(Main)
  /\ \E s \in Session : session' = [session EXCEPT ![task[Main].fd] = s]
  /\ Load(Main)
  /\ UNCHANGED <<open, accepted, epoll, mode, time, members, pool, ghost>>

Increment ==
  /\ At(Main, "add") /\ Done(Main)
  /\ Store(Main, reg[Main] + 1)
  /\ UNCHANGED <<conn, time, members, pool, ghost>>

BeginDecrement(t) ==
  /\ At(t, "load") /\ Done(t)
  /\ Load(t)
  /\ UNCHANGED <<conn, time, members, pool, ghost>>

Decrement(t) ==
  /\ At(t, "sub") /\ Done(t)
  /\ Store(t, reg[t] + UnsignedRange - 1)
  /\ UNCHANGED <<conn, time, members, pool, ghost>>

(* session_map_[session].insert(client_fd), under its mutex.               *)
Bind ==
  /\ At(Main, "bind") /\ Done(Main)
  /\ LET f == task[Main].fd
     IN  members' = [members EXCEPT ![session[f]] = @ \union {f}]
  /\ UNCHANGED <<conn, time, count, pool, ghost>>

(* session_map_[connections_[fd].session_].erase(fd): the session is the   *)
(* one the slot has by now.                                                *)
Erase(t) ==
  /\ At(t, "erase") /\ Done(t)
  /\ LET f == task[t].fd
     IN  members' = [members EXCEPT ![session[f]] = @ \ {f}]
  /\ UNCHANGED <<conn, time, count, pool, ghost>>

(* AddTimer and AdjustTimer release the list's mutex once they know where  *)
(* the timer goes, and InsertTime takes it again.  The node they pass is   *)
(* the head of the list, or the successor of the timer to be moved: some   *)
(* other timer that is in the list now.  An AdjustTimer whose own timer is *)
(* deleted by then is Dangling.                                            *)
ChooseNode ==
  /\ AtAny(Main, {"AddTimer", "AdjustTimer"}) /\ hint = 0
  /\ LET own == timers[task[Main].fd] IN
     /\ At(Main, "AdjustTimer") => own \in live
     /\ hint' \in live \ {own}
  /\ UNCHANGED <<conn, time, members, count, pool, task, fault, raced, stolen, reused>>

(* InsertTime dereferences the node, also when a worker has deleted it.    *)
Insert == hint' = 0 /\ fault' = (hint # 0 /\ hint \notin live)

(* new Timer, for the incarnation accepted last.                           *)
AddTimer ==
  /\ At(Main, "AddTimer") /\ Done(Main)
  /\ LET f == task[Main].fd IN
     /\ timers' = [timers EXCEPT ![f] = accepted]
     /\ home' = [home EXCEPT ![accepted] = f]
     /\ live' = live \union {accepted}
  /\ Insert
  /\ UNCHANGED <<conn, expired, members, count, pool, raced, stolen, reused>>

(* epoll_ctl fails, unnoticed, on a descriptor that is closed by now.      *)
AddEpoll ==
  /\ At(Main, "AddEpoll") /\ Done(Main)
  /\ LET f == task[Main].fd
     IN  epoll' = [epoll EXCEPT ![f] = IF open[f] = 0 THEN @ ELSE "in"]
  /\ UNCHANGED <<open, accepted, session, mode, time, members, count, pool, ghost>>

(* DelEpoll removes the registration and closes the descriptor.            *)
DelEpoll(t) ==
  /\ At(t, "DelEpoll") /\ Done(t)
  /\ LET f == task[t].fd IN
     /\ epoll' = [epoll EXCEPT ![f] = "none"]
     /\ open' = [open EXCEPT ![f] = 0]
     /\ dropped' = dropped \ {f}
  /\ UNCHANGED <<accepted, session, mode, time, members, count, queue, sem, ghost>>

(* timers_[fd] was deleted: TimerList has both outcomes of using it.       *)
Dangling(t) ==
  /\ timers[task[t].fd] \notin live
  /\ fault' \in BOOLEAN
  /\ UNCHANGED time

DelTimer(t) ==
  /\ At(t, "DelTimer") /\ Done(t)
  /\ ~TickRuns
  /\ \/ Dangling(t) /\ UNCHANGED raced
     \/ LET g == timers[task[t].fd] IN
        /\ g \in live
        /\ live' = live \ {g} /\ expired' = expired \ {g}
        /\ raced' = (raced \/ g = hint)
        /\ UNCHANGED <<timers, home, fault>>
  /\ UNCHANGED <<conn, members, count, pool, hint, stolen, reused>>

AdjustTimer ==
  /\ At(Main, "AdjustTimer") /\ Done(Main)
  /\ \/ Dangling(Main) /\ hint' = 0
     \/ timers[task[Main].fd] \in live /\ Insert /\ UNCHANGED time
  /\ UNCHANGED <<conn, members, count, pool, raced, stolen, reused>>

(* Mutation of Enqueue: a post for what the full queue refused.            *)
EnqueuePostAnyway(m) ==
  /\ At(Main, m) /\ Done(Main)
  /\ LET f == task[Main].fd IN
     IF Len(queue) >= QueueMax
     THEN dropped' = dropped \union {f} /\ UNCHANGED <<queue, mode>>
     ELSE /\ mode' = [mode EXCEPT ![f] = m]
          /\ queue' = Append(queue, f) /\ dropped' = dropped
  /\ UNCHANGED <<open, accepted, epoll, session, time, members, count, sem, ghost>>

(* ThreadPool::append.  A full queue takes nothing and tells nobody; the   *)
(* semaphore is posted after the mutex is released.                        *)
Enqueue(m) ==
  /\ At(Main, m)
  /\ LET f == task[Main].fd IN
     IF Len(queue) >= QueueMax
     THEN /\ Start(Main, Idle)
          /\ dropped' = dropped \union {f}
          /\ UNCHANGED <<queue, mode>>
     ELSE /\ Done(Main)
          /\ mode' = [mode EXCEPT ![f] = m]
          /\ queue' = Append(queue, f)
          /\ dropped' = dropped
  /\ UNCHANGED <<open, accepted, epoll, session, time, members, count, sem, ghost>>

SemPost ==
  /\ At(Main, "sem_post") /\ Done(Main)
  /\ sem' = sem + 1
  /\ UNCHANGED <<conn, time, members, count, queue, dropped, ghost>>

-----------------------------------------------------------------------------
(* ThreadPool::run.                                                        *)
SemWait(w) ==
  /\ task[w] = Idle /\ sem > 0
  /\ sem' = sem - 1
  /\ Start(w, Job(0, <<"lock">>))
  /\ UNCHANGED <<conn, time, members, count, queue, dropped, ghost>>

(* Lock, pop, unlock, and read work_mode_.                                 *)
Take(w) ==
  /\ At(w, "lock")
  /\ IF queue = <<>>
     THEN Start(w, Idle) /\ UNCHANGED queue
     ELSE /\ Start(w, Job(Head(queue), <<mode[Head(queue)]>>))
          /\ queue' = Tail(queue)
  /\ UNCHANGED <<conn, time, members, count, sem, dropped, ghost>>

(* ModEpoll, which fails unnoticed on a descriptor that was closed.        *)
Rewatch(w, event) ==
  /\ Start(w, Idle)
  /\ LET f == task[w].fd
     IN  epoll' = [epoll EXCEPT ![f] = IF @ = "none" THEN @ ELSE event]
  /\ UNCHANGED <<open, accepted, session, mode, time, members, count, pool, ghost>>

Close(w) ==
  /\ Start(w, Job(task[w].fd, WorkerClosing))
  /\ UNCHANGED <<conn, time, members, count, pool, ghost>>

(* ReceiveMessage and Process: more to receive, a response to send, or an  *)
(* error.                                                                  *)
Read(w) ==
  /\ At(w, "READ")
  /\ Rewatch(w, "in") \/ Rewatch(w, "out") \/ Close(w)

(* WriteHTTPMessage: all sent on a connection to keep, or one to close, or *)
(* an error.  Until then it sleeps and tries again.                        *)
Write(w) ==
  /\ At(w, "WRITE")
  /\ Rewatch(w, "in") \/ Close(w)

Closing(t) == DelTimer(t) \/ DelEpoll(t) \/ BeginDecrement(t) \/ Decrement(t) \/ Erase(t)

MainCall ==
  \/ Establish \/ Increment \/ Bind \/ ChooseNode \/ AddTimer \/ AddEpoll
  \/ AdjustTimer \/ Enqueue("READ") \/ Enqueue("WRITE") \/ SemPost
  \/ Closing(Main)
  \/ TickEnd \/ \E g \in Incarnation : TickNext(g)

MainWait ==
  \/ Accept \/ Alarm
  \/ \E f \in Fd : DealRead(f) \/ DealWrite(f) \/ HangUp(f)

WorkerCall(w) == SemWait(w) \/ Take(w) \/ Read(w) \/ Closing(w)

Next ==
  /\ ~fault
  /\ \/ MainCall \/ MainWait
     \/ \E g \in Incarnation : Expire(g)
     \/ \E w \in Worker : WorkerCall(w) \/ Write(w)

(* The main thread and the workers run; SIGALRM's byte stays in the pipe   *)
(* until a round of the loop reads it.  Peers may stop sending or reading, *)
(* but writing to a descriptor that is closed returns at once.             *)
Fairness ==
  /\ WF_vars(~fault /\ MainCall) /\ SF_vars(~fault /\ Alarm)
  /\ \A w \in Worker :
       /\ WF_vars(~fault /\ WorkerCall(w))
       /\ WF_vars(~fault /\ At(w, "WRITE") /\ open[task[w].fd] = 0 /\ Close(w))

Spec == Init /\ [][Next]_vars /\ Fairness

-----------------------------------------------------------------------------
(* Every variable has its type.                                            *)
TypeOK ==
  /\ open \in [Fd -> 0 .. MaxAccept] /\ accepted \in 0 .. MaxAccept
  /\ epoll \in [Fd -> {"none", "in", "out", "off"}]
  /\ session \in [Fd -> Session \union {""}] /\ mode \in [Fd -> {"READ", "WRITE"}]
  /\ timers \in [Fd -> 0 .. MaxAccept] /\ home \in [Incarnation -> Fd \union {0}]
  /\ expired \subseteq live /\ live \subseteq Incarnation
  /\ members \in [Session -> SUBSET Fd]
  /\ num \in 0 .. UnsignedRange - 1
  /\ reg \in [Thread -> 0 .. UnsignedRange - 1]
  /\ queue \in Seq(Fd) /\ Len(queue) <= QueueMax /\ sem \in Nat
  /\ \A t \in Thread : task[t] = Idle \/ task[t].fd \in Fd \union {0}
  /\ hint \in 0 .. MaxAccept
  /\ {fault, raced, stolen, reused, overlap} \subseteq BOOLEAN /\ dropped \subseteq Fd

(* One-shot registration keeps each connection with one party: epoll, the  *)
(* main thread, the queue or one worker; it is never with two, and with    *)
(* none only if the queue was full.  Tick alone breaks this.               *)
Serving(t) == /\ AtAny(t, {"AdjustTimer", "READ", "WRITE", "DelTimer", "DelEpoll"})
              /\ t = Main => ~TickRuns
Parties(f) ==
  Cardinality({t \in Thread : task[t].fd = f /\ Serving(t)})
  + Cardinality({i \in 1 .. Len(queue) : queue[i] = f})
  + (IF epoll[f] \in {"in", "out"} THEN 1 ELSE 0)
OneOwner ==
  /\ TypeOK
  /\ stolen \/ \A f \in Fd : Parties(f) = IF epoll[f] = "none" \/ f \in dropped THEN 0 ELSE 1

(* The semaphore counts the queue: no worker that was woken finds it empty *)
(* and no work waits without a token or a post on its way.                 *)
TokensMatch ==
  Len(queue) = sem + Cardinality({w \in Worker : At(w, "lock")})
                   + (IF At(Main, "sem_post") THEN 1 ELSE 0)

(* A deleted timer is used only after one of two races: Tick closed a      *)
(* connection under the pool, or a worker deleted the very timer next to   *)
(* which the main thread was inserting another, between the two critical   *)
(* sections of that insertion.  Every handler deletes a timer once, and no *)
(* node chosen in one insertion is used in a later one.                    *)
FaultExplained == fault => stolen \/ raced

(* WebServer.cpp:44: in any case, all requests of one IP are bound         *)
(* together.  A session's members are the connections bound to it, from    *)
(* `bind` to `erase`, unless a descriptor was reused in the middle of its  *)
(* closing.                                                                *)
Bound(f) == \/ epoll[f] # "none"
            \/ task[Main].fd = f /\ AtAny(Main, {"AddTimer", "AddEpoll"})
            \/ \E t \in Thread : task[t].fd = f /\ "erase" \in Calls(t)
SessionsExact ==
  stolen \/ reused \/ \A s \in Session : members[s] = {f \in Fd : session[f] = s /\ Bound(f)}

(* connection_num_ counts the established connections and those closed but *)
(* not yet subtracted, unless two threads updated it at once.              *)
Established(f) == \/ epoll[f] # "none"
                  \/ task[Main].fd = f /\ AtAny(Main, {"bind", "AddTimer", "AddEpoll"})
Subtracting(t) == "sub" \in Calls(t) /\ "DelEpoll" \notin Calls(t)
CountExact ==
  stolen \/ overlap \/ num = Cardinality({f \in Fd : Established(f)})
                             + Cardinality({t \in Thread : Subtracting(t)})

(* If time passes, every connection is closed sooner or later, whatever    *)
(* its peer does and whatever the queue dropped.                           *)
TimePasses == \A g \in Incarnation : WF_vars(~fault /\ Expire(g))
AllEnd ==
  TimePasses =>
    \A f \in Fd, g \in Incarnation :
      (open[f] = g /\ epoll[f] # "none") ~> (open[f] # g \/ fault)

(* If peers read what they are sent, a queued connection is watched again  *)
(* or closed, without the help of a timeout.                               *)
PeersRead == \A w \in Worker : WF_vars(~fault /\ Write(w))
AllServed ==
  PeersRead => \A f \in Fd : (\E i \in 1 .. Len(queue) : queue[i] = f)
                               ~> (epoll[f] # "off" \/ fault)
=============================================================================
