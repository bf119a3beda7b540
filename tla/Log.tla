-------------------------------- MODULE Log --------------------------------
(***************************************************************************)
(* Log/Log.cpp: write_log, which any thread calls, the thread that writes  *)
(* asynchronously, and the files they write to.  The queue between them is *)
(* a BoundedFifo, which is what module BlockQueue implements.              *)
(*                                                                         *)
(* A line is named by its number.  write_log runs under write_log_mutex_   *)
(* from end to end and never waits inside, so a call is one step; so is    *)
(* each critical section of the asynchronous thread.                       *)
(***************************************************************************)
EXTENDS Integers, Sequences, FiniteSets

CONSTANTS
  Writer,       \* threads that call write_log
  Log,          \* the thread of async_write_log
  MaxLines,     \* max_lines_
  Capacity,     \* of log_queue_
  MaxWrites,    \* bound: calls of write_log
  MaxDay,       \* bound: days
  MaxRestarts   \* bound: restarts of the server

ASSUME LogAssumption ==
  /\ Log \notin Writer
  /\ {MaxLines, Capacity, MaxDay} \subseteq Nat \ {0}
  /\ {MaxWrites, MaxRestarts} \subseteq Nat

VARIABLES
  open_async,  \* open_async_
  now_lines,   \* now_lines_
  log_day,     \* log_day_
  today,       \* the date
  log_fp,      \* the name of the open file: its day and its suffix
  written,     \* what is in each file
  queue,       \* log_queue_
  returned,    \* what push returned last
  popped,      \* what pop returned last
  log,         \* the line async_write_log popped, 0 when it has written it
  lines,       \* calls of write_log so far
  lost,        \* lines refused by a full queue or gone with a process
  restarts     \* restarts so far

Line == 1 .. MaxWrites
vars == <<open_async, now_lines, log_day, today, log_fp, written, queue,
          returned, popped, log, lines, lost, restarts>>

Queue == INSTANCE BoundedFifo
           WITH Item <- Line, Thread <- Writer \union {Log}, contents <- queue

(* The suffix -1 stands for none.                                          *)
Name == (1 .. MaxDay) \X (-1 .. MaxWrites \div MaxLines)

Elements(s) == {s[i] : i \in 1 .. Len(s)}

(* Log::Log, on the day d.  Config never sets open_async_log_.             *)
Start(d) ==
  /\ open_async' \in BOOLEAN
  /\ now_lines' = 0 /\ log_day' = d /\ log_fp' = <<d, 0>>
  /\ log' = 0 /\ queue' = <<>>

Init ==
  /\ open_async \in BOOLEAN
  /\ now_lines = 0 /\ log_day = 1 /\ today = 1 /\ log_fp = <<1, 0>>
  /\ written = [f \in Name |-> <<>>]
  /\ Queue!Init
  /\ log = 0 /\ lines = 0 /\ lost = {} /\ restarts = 0

-----------------------------------------------------------------------------
(* Mutation of FileFull: only the first file is ever full.                 *)
FileFullOnce == now_lines + 1 = MaxLines

(* write_log opens another file on a new day, without a suffix, and at     *)
(* every max_lines_-th line.                                               *)
NewDay == today # log_day
FileFull == (now_lines + 1) % MaxLines = 0

Rotate ==
  /\ log_day' = today
  /\ now_lines' = IF NewDay THEN 0 ELSE now_lines + 1
  /\ log_fp' = IF NewDay THEN <<today, -1>>
               ELSE IF FileFull THEN <<today, (now_lines + 1) \div MaxLines>>
               ELSE log_fp

(* Mutation of WriteAsync: what a full queue refuses is written at once.   *)
WriteAsyncElseSync(t, line) ==
  /\ open_async
  /\ Queue!Push(t, line)
  /\ written' = IF returned'[t] THEN written
                ELSE [written EXCEPT ![log_fp'] = Append(@, line)]
  /\ UNCHANGED lost

(* What push returns is ignored.                                           *)
WriteAsync(t, line) ==
  /\ open_async
  /\ Queue!Push(t, line)
  /\ lost' = IF returned'[t] THEN lost ELSE lost \union {line}
  /\ UNCHANGED written

WriteSync(line) ==
  /\ ~open_async
  /\ written' = [written EXCEPT ![log_fp'] = Append(@, line)]
  /\ UNCHANGED <<queue, returned, popped, lost>>

write_log(t) ==
  /\ lines < MaxWrites
  /\ lines' = lines + 1
  /\ Rotate
  /\ WriteAsync(t, lines + 1) \/ WriteSync(lines + 1)
  /\ UNCHANGED <<open_async, today, log, restarts>>

(* Mutation of AsyncPop: the line popped is forgotten.                     *)
AsyncPopDiscard ==
  /\ open_async /\ log = 0
  /\ Queue!Pop(Log)
  /\ UNCHANGED <<open_async, now_lines, log_day, today, log_fp, written, log, lines, lost, restarts>>

(* async_write_log pops a line, then takes the mutex and writes it to the  *)
(* file that is open by then.                                              *)
AsyncPop ==
  /\ open_async /\ log = 0
  /\ Queue!Pop(Log)
  /\ log' = popped'[2]
  /\ UNCHANGED <<open_async, now_lines, log_day, today, log_fp, written, lines, lost, restarts>>

(* Mutation of AsyncWrite: the line is not done with once it is written.   *)
AsyncWriteAgain ==
  /\ log # 0
  /\ written' = [written EXCEPT ![log_fp] = Append(@, log)]
  /\ UNCHANGED <<open_async, now_lines, log_day, today, log_fp, queue, returned,
                 popped, log, lines, lost, restarts>>

AsyncWrite ==
  /\ log # 0
  /\ written' = [written EXCEPT ![log_fp] = Append(@, log)]
  /\ log' = 0
  /\ UNCHANGED <<open_async, now_lines, log_day, today, log_fp, queue, returned,
                 popped, lines, lost, restarts>>

Midnight ==
  /\ today < MaxDay
  /\ today' = today + 1
  /\ UNCHANGED <<open_async, now_lines, log_day, log_fp, written, queue, returned,
                 popped, log, lines, lost, restarts>>

(* The process ends, by SIGTERM or otherwise, and a new one is started.    *)
Restart ==
  /\ restarts < MaxRestarts
  /\ restarts' = restarts + 1
  /\ lost' = lost \union Elements(queue) \union ({log} \ {0})
  /\ Start(today)
  /\ UNCHANGED <<today, written, returned, popped, lines>>

Next == (\E t \in Writer : write_log(t)) \/ AsyncPop \/ AsyncWrite \/ Midnight \/ Restart

(* The asynchronous thread runs.                                           *)
Spec == Init /\ [][Next]_vars /\ WF_vars(AsyncPop) /\ WF_vars(AsyncWrite)

-----------------------------------------------------------------------------
(* Every variable has its type.                                            *)
TypeOK ==
  /\ open_async \in BOOLEAN /\ now_lines \in 0 .. MaxWrites
  /\ {log_day, today} \subseteq 1 .. MaxDay /\ log_fp \in Name
  /\ written \in [Name -> Seq(Line)] /\ queue \in Seq(Line) /\ Len(queue) <= Capacity
  /\ log \in Line \union {0} /\ lines \in 0 .. MaxWrites
  /\ lost \subseteq Line /\ restarts \in 0 .. MaxRestarts

(* Every line is in one place: in one file, in the queue, in the hand of   *)
(* the asynchronous thread, or lost.                                       *)
Copies(line) ==
  Cardinality({p \in Name \X Line : p[2] <= Len(written[p[1]]) /\ written[p[1]][p[2]] = line})
  + Cardinality({i \in 1 .. Len(queue) : queue[i] = line})
  + (IF log = line THEN 1 ELSE 0) + (IF line \in lost THEN 1 ELSE 0)
EachLineOnce == TypeOK /\ \A line \in Line : Copies(line) = IF line <= lines THEN 1 ELSE 0

(* The files keep the order of the calls, across the queue, rotations,     *)
(* midnights and restarts: within a file, and from what is written to what *)
(* is yet to be.                                                           *)
Ascending(s) == \A i, j \in 1 .. Len(s) : i < j => s[i] < s[j]
InOrder ==
  \A f \in Name : Ascending(written[f] \o (IF log = 0 THEN <<>> ELSE <<log>>) \o queue)

(* Config.h:66 says that one file records max_lines_ lines at most.  A     *)
(* file exceeds that by what the queue and the asynchronous thread held    *)
(* when it was opened, which comes to Capacity lines at most in each run of*)
(* the server: held were they one more, the file's first line would be     *)
(* refused.                                                                *)
OverfullByQueue ==
  \A f \in Name : Len(written[f]) <= (restarts + 1) * (MaxLines + Capacity)

(* A line the queue took reaches a file, unless the server ends first.     *)
TakenIsWritten ==
  \A line \in Line : (line \in Elements(queue)) ~>
    (line \in lost \/ \E f \in Name : line \in Elements(written[f]))
=============================================================================
