----------------------------- MODULE LogProofs -----------------------------
(***************************************************************************)
(* Proofs about module Log, for any writers, sizes of files and of the     *)
(* queue, and numbers of calls, days and restarts.                         *)
(***************************************************************************)
EXTENDS Log, FiniteSetTheorems, TLAPS

(* Without the asynchronous thread nothing is held for it.                 *)
HeldByAsync == open_async \/ (log = 0 /\ queue = <<>>)

(* The calls so far are the lines that are anywhere; the i-th line of a    *)
(* file is the i-th call at the earliest.                                  *)
Known ==
  /\ now_lines <= lines /\ log_day <= today /\ log <= lines /\ lost \subseteq 1 .. lines
  /\ \A f \in Name : \A i \in 1 .. Len(written[f]) : i <= written[f][i] /\ written[f][i] <= lines
  /\ \A i \in 1 .. Len(queue) : queue[i] <= lines

(* What is written comes before what the asynchronous thread holds, which  *)
(* comes before what is queued.                                            *)
Ordered ==
  /\ \A f \in Name : Ascending(written[f])
  /\ \A f \in Name : \A i \in 1 .. Len(written[f]) :
       /\ log # 0 => written[f][i] < log
       /\ \A j \in 1 .. Len(queue) : written[f][i] < queue[j]
  /\ log # 0 => \A j \in 1 .. Len(queue) : log < queue[j]
  /\ Ascending(queue)

(* No line is in two files, or both lost and elsewhere; none is nowhere.   *)
Apart ==
  /\ \A f, g \in Name : \A i \in 1 .. Len(written[f]), j \in 1 .. Len(written[g]) :
       written[f][i] = written[g][j] => f = g
  /\ \A f \in Name : \A i \in 1 .. Len(written[f]) : written[f][i] \notin lost
  /\ \A i \in 1 .. Len(queue) : queue[i] \notin lost
  /\ log \notin lost
  /\ \A line \in 1 .. lines :
       \/ line \in lost \/ log = line \/ \E i \in 1 .. Len(queue) : queue[i] = line
       \/ \E f \in Name : \E i \in 1 .. Len(written[f]) : written[f][i] = line

(* The files this run of the server has yet to open.                       *)
Unopened == {f \in Name : \/ f[1] > log_day
                          \/ f[1] = log_day /\ f[2] > now_lines \div MaxLines}
Held == Len(queue) + (IF log = 0 THEN 0 ELSE 1)
Left == MaxLines - 1 - (now_lines % MaxLines)
Most(n) == n * (MaxLines + Capacity)

(* Of the share of this run the open file has used what it holds, what the *)
(* asynchronous thread is to write, and what the calls until the next file *)
(* may add.                                                                *)
Room ==
  /\ log_fp[1] = log_day /\ log_fp \notin Unopened
  /\ \A f \in Unopened : Len(written[f]) <= Most(restarts)
  /\ \A f \in Name : Len(written[f]) <= Most(restarts + 1)
  /\ Len(written[log_fp]) + Held + Left <= Most(restarts + 1)

Answers == returned \in [Writer \union {Log} -> BOOLEAN]

IInv == TypeOK /\ Answers /\ HeldByAsync /\ Known /\ Ordered /\ Apart /\ Room
-----------------------------------------------------------------------------
(* The number of full files and the lines in the last, from call to call.  *)
LEMMA NextLine ==
  ASSUME NEW n \in Nat, NEW m \in Nat \ {0}
  PROVE  /\ n \div m \in Nat /\ n % m \in 0 .. m - 1
         /\ (n + 1) % m = 0 => (n + 1) \div m = n \div m + 1 /\ n % m = m - 1
         /\ (n + 1) % m # 0 => (n + 1) \div m = n \div m /\ (n + 1) % m = (n % m) + 1
<1> DEFINE q == n \div m
           r == n % m
           k == (n + 1) \div m
           s == (n + 1) % m
<1>1. q \in Int /\ r \in 0 .. m - 1 /\ n = m * q + r
  OBVIOUS
<1>2. k \in Int /\ s \in 0 .. m - 1 /\ n + 1 = m * k + s
  OBVIOUS
<1> HIDE DEF q, r, k, s
<1>3. q \in Nat
  BY <1>1
<1>4. m * (k - q) = r + 1 - s
  BY <1>1, <1>2
<1>5. k - q \in {0, 1}
  <2>1. k - q < 2
    BY <1>1, <1>2, <1>4
  <2>2. k - q > -1
    BY <1>1, <1>2, <1>4
  <2> QED BY <2>1, <2>2, <1>1, <1>2
<1>6. CASE k = q
  BY <1>1, <1>2, <1>3, <1>4, <1>6 DEF q, r, k, s
<1>7. CASE k = q + 1
  BY <1>1, <1>2, <1>3, <1>4, <1>7 DEF q, r, k, s
<1> QED BY <1>5, <1>6, <1>7, <1>1, <1>2

(* More calls fill no fewer files.                                         *)
LEMMA FilesGrow ==
  ASSUME NEW n \in Nat, NEW o \in Nat, n <= o, NEW m \in Nat \ {0}
  PROVE  n \div m <= o \div m
<1> DEFINE q == n \div m
           k == o \div m
<1>1. q \in Int /\ (n % m) \in 0 .. m - 1 /\ n = m * q + (n % m)
  OBVIOUS
<1>2. k \in Int /\ (o % m) \in 0 .. m - 1 /\ o = m * k + (o % m)
  OBVIOUS
<1>3. m * (k - q) > -m
  BY <1>1, <1>2
<1> HIDE DEF q, k
<1>4. k - q > -1
  BY <1>1, <1>2, <1>3
<1> QED BY <1>1, <1>2, <1>4 DEF q, k

(* Each run of the server has the same share.                              *)
LEMMA MostStep ==
  ASSUME NEW n \in Nat
  PROVE  /\ Most(n) \in Nat /\ Most(n + 1) \in Nat
         /\ Most(n + 1) = Most(n) + (MaxLines + Capacity)
BY LogAssumption DEF Most

(* Sequences with a line more at the end, and with one less at the head.   *)
LEMMA OneMore ==
  ASSUME NEW s \in Seq(Line), NEW line \in Line
  PROVE  /\ Append(s, line) \in Seq(Line) /\ Len(Append(s, line)) = Len(s) + 1
         /\ Append(s, line)[Len(s) + 1] = line
         /\ \A i \in 1 .. Len(s) : i \in 1 .. Len(Append(s, line)) /\ Append(s, line)[i] = s[i]
         /\ \A i \in 1 .. Len(Append(s, line)) :
              \/ i = Len(s) + 1 /\ Append(s, line)[i] = line
              \/ i \in 1 .. Len(s) /\ Append(s, line)[i] = s[i]
OBVIOUS

(* The same of what is left without the head.                              *)
LEMMA OneLess ==
  ASSUME NEW s \in Seq(Line), s # <<>>
  PROVE  /\ Head(s) \in Line /\ Head(s) = s[1] /\ 1 \in 1 .. Len(s)
         /\ Tail(s) \in Seq(Line) /\ Len(Tail(s)) = Len(s) - 1 /\ Len(s) \in Nat
         /\ \A i \in 1 .. Len(Tail(s)) : i + 1 \in 1 .. Len(s) /\ Tail(s)[i] = s[i + 1]
         /\ \A i \in 1 .. Len(s) : i = 1 \/ (i - 1 \in 1 .. Len(Tail(s)) /\ Tail(s)[i - 1] = s[i])
OBVIOUS

(* What it is to write a line to a file: wrote[g] is what g holds then.    *)
Wrote(wrote, f, line) ==
  /\ wrote \in [Name -> Seq(Line)]
  /\ \A g \in Name : Len(wrote[g]) = IF g = f THEN Len(written[g]) + 1 ELSE Len(written[g])
  /\ \A g \in Name : \A i \in 1 .. Len(written[g]) :
       i \in 1 .. Len(wrote[g]) /\ wrote[g][i] = written[g][i]
  /\ \A g \in Name : \A i \in 1 .. Len(wrote[g]) :
       \/ i \in 1 .. Len(written[g]) /\ wrote[g][i] = written[g][i]
       \/ g = f /\ i = Len(written[f]) + 1 /\ wrote[g][i] = line
  /\ Len(written[f]) + 1 \in 1 .. Len(wrote[f]) /\ wrote[f][Len(written[f]) + 1] = line

(* Appending to a file writes to it.                                       *)
LEMMA Writing ==
  ASSUME written \in [Name -> Seq(Line)], NEW f \in Name, NEW line \in Line,
         NEW wrote, wrote = [written EXCEPT ![f] = Append(@, line)]
  PROVE  Wrote(wrote, f, line)
<1>1. /\ wrote \in [Name -> Seq(Line)] /\ wrote[f] = Append(written[f], line)
      /\ \A g \in Name : g # f => wrote[g] = written[g]
      /\ \A g \in Name : written[g] \in Seq(Line) /\ Len(written[g]) \in Nat
  BY OneMore
<1>2. /\ Len(wrote[f]) = Len(written[f]) + 1 /\ wrote[f][Len(written[f]) + 1] = line
      /\ \A i \in 1 .. Len(written[f]) : i \in 1 .. Len(wrote[f]) /\ wrote[f][i] = written[f][i]
      /\ \A i \in 1 .. Len(wrote[f]) :
           \/ i = Len(written[f]) + 1 /\ wrote[f][i] = line
           \/ i \in 1 .. Len(written[f]) /\ wrote[f][i] = written[f][i]
  BY <1>1, OneMore
<1> QED BY <1>1, <1>2 DEF Wrote

-----------------------------------------------------------------------------
(* Names, and the files that are yet to be opened.                         *)
LEMMA Naming ==
  ASSUME NEW d \in 1 .. MaxDay, NEW k \in {-1, 0}
  PROVE  <<d, k>> \in Name /\ <<d, k>>[1] = d /\ <<d, k>>[2] = k
<1>1. MaxWrites \div MaxLines \in Nat
  BY LogAssumption, NextLine
<1> QED BY <1>1 DEF Name

(* The calls until the next file, and what is held, are bounded.           *)
LEMMA LeftType ==
  ASSUME TypeOK
  PROVE  Left \in 0 .. MaxLines - 1 /\ Held \in 0 .. Capacity + 1
<1>1. now_lines \in Nat /\ MaxLines \in Nat \ {0} /\ Capacity \in Nat
  BY LogAssumption DEF TypeOK
<1>2. now_lines % MaxLines \in 0 .. MaxLines - 1
  BY <1>1, NextLine
<1>3. Len(queue) \in 0 .. Capacity
  BY <1>1 DEF TypeOK
<1> QED BY <1>1, <1>2, <1>3 DEF Left, Held

(* write_log goes on with the open file, or opens one it had not opened.   *)
Rotated ==
  /\ now_lines' \in 0 .. MaxWrites /\ now_lines' <= lines'
  /\ log_day' \in 1 .. MaxDay /\ log_day' <= today' /\ log_fp' \in Name
  /\ log_fp'[1] = log_day' /\ log_fp' \notin Unopened' /\ Unopened' \subseteq Unopened
  /\ \/ log_fp' = log_fp /\ Left >= 1 /\ Left' = Left - 1
     \/ log_fp' \in Unopened /\ Left' = MaxLines - 1

(* Rotate does.                                                            *)
LEMMA Rotating ==
  ASSUME TypeOK, Known, lines < MaxWrites, lines' = lines + 1, today' = today, Rotate,
         log_fp[1] = log_day, log_fp \notin Unopened
  PROVE  Rotated
<1> DEFINE n == now_lines
           m == MaxLines
<1>1. /\ n \in Nat /\ m \in Nat \ {0} /\ n <= lines /\ lines \in Nat /\ n + 1 <= MaxWrites
      /\ MaxWrites \in Nat /\ log_day \in 1 .. MaxDay /\ today \in 1 .. MaxDay /\ log_day <= today
      /\ log_day \in Nat /\ today \in Nat /\ MaxDay \in Nat
  BY LogAssumption DEF TypeOK, Known
<1>2. /\ n \div m \in Nat /\ n % m \in 0 .. m - 1 /\ (n + 1) \div m \in Nat
      /\ (n + 1) \div m <= MaxWrites \div m /\ MaxWrites \div m \in Nat
      /\ (n + 1) % m \in 0 .. m - 1 /\ 0 \div m = 0 /\ 0 % m = 0
  <2>1. n + 1 \in Nat /\ 0 \in Nat
    BY <1>1
  <2>2. /\ n \div m \in Nat /\ n % m \in 0 .. m - 1 /\ MaxWrites \div m \in Nat
        /\ (n + 1) \div m \in Nat /\ (n + 1) % m \in 0 .. m - 1
    BY <1>1, <2>1, NextLine
  <2>3. (n + 1) \div m <= MaxWrites \div m
    BY <1>1, <2>1, FilesGrow
  <2>4. 0 \div m = 0 /\ 0 % m = 0
    <3>1. 0 \div m \in Nat /\ 0 % m \in 0 .. m - 1 /\ 0 = m * (0 \div m) + (0 % m)
      BY <1>1, <2>1, NextLine
    <3> QED BY <1>1, <3>1
  <2> QED BY <2>2, <2>3, <2>4
<1>3. CASE NewDay
  <2>1. now_lines' = 0 /\ log_day' = today /\ log_fp' = <<today, -1>> /\ log_day < today
    BY <1>1, <1>3 DEF Rotate, NewDay
  <2>2. log_fp' \in Name /\ log_fp'[1] = today /\ log_fp'[2] = -1
    BY <1>1, <2>1, Naming
  <2>3. Left' = MaxLines - 1
    BY <1>1, <1>2, <2>1 DEF Left
  <2>4. log_fp' \in Unopened /\ log_fp' \notin Unopened'
    BY <1>1, <1>2, <2>1, <2>2 DEF Unopened
  <2>5. Unopened' \subseteq Unopened
    <3> SUFFICES ASSUME NEW f \in Name, f[1] > log_day' \/ f[1] = log_day' PROVE f[1] > log_day
      BY DEF Unopened
    <3>1. f[1] \in Nat
      BY DEF Name
    <3> QED BY <1>1, <2>1, <3>1
  <2> QED BY <1>1, <2>1, <2>2, <2>3, <2>4, <2>5 DEF Rotated
<1>4. CASE ~NewDay /\ FileFull
  <2>1. now_lines' = n + 1 /\ log_day' = today /\ log_day = today
        /\ log_fp' = <<today, (n + 1) \div m>> /\ (n + 1) % m = 0
    BY <1>1, <1>4 DEF Rotate, NewDay, FileFull
  <2>2. log_fp' \in Name /\ log_fp'[1] = today /\ log_fp'[2] = (n + 1) \div m
    BY <1>1, <1>2, <2>1 DEF Name
  <2>3. (n + 1) \div m = (n \div m) + 1
    BY <1>1, <2>1, NextLine
  <2>4. Left' = MaxLines - 1
    BY <1>1, <2>1 DEF Left
  <2>5. log_fp' \in Unopened /\ log_fp' \notin Unopened'
    BY <1>1, <1>2, <2>1, <2>2, <2>3 DEF Unopened
  <2>6. Unopened' \subseteq Unopened
    <3> SUFFICES ASSUME NEW f \in Name, f[2] > (n \div m) + 1 PROVE f[2] > n \div m
      BY <2>1, <2>3 DEF Unopened
    <3>1. f[2] \in Int
      BY DEF Name
    <3> QED BY <1>2, <3>1
  <2> QED BY <1>1, <2>1, <2>2, <2>4, <2>5, <2>6 DEF Rotated
<1>5. CASE ~NewDay /\ ~FileFull
  <2>1. now_lines' = n + 1 /\ log_day' = log_day /\ log_fp' = log_fp /\ (n + 1) % m # 0
    BY <1>1, <1>5 DEF Rotate, NewDay, FileFull
  <2>2. (n + 1) \div m = n \div m /\ (n + 1) % m = (n % m) + 1
    BY <1>1, <2>1, NextLine
  <2>3. Left >= 1 /\ Left' = Left - 1
    BY <1>1, <1>2, <2>1, <2>2 DEF Left
  <2>4. Unopened' = Unopened
    BY <2>1, <2>2 DEF Unopened
  <2> QED BY <1>1, <2>1, <2>3, <2>4 DEF TypeOK, Rotated
<1> QED BY <1>3, <1>4, <1>5

-----------------------------------------------------------------------------
(* The call takes its line to the queue, to the file, or nowhere.          *)
Taken(line) ==
  /\ Len(queue) < Capacity /\ queue' = Append(queue, line)
  /\ UNCHANGED <<written, lost>> /\ open_async
Refused(line) ==
  /\ lost' = lost \union {line} /\ UNCHANGED <<written, queue>>
Direct(line) ==
  /\ written' = [written EXCEPT ![log_fp'] = Append(@, line)]
  /\ UNCHANGED <<queue, lost>> /\ ~open_async

(* One of the three is what a call does with its line.                     *)
LEMMA Calling ==
  ASSUME Answers, NEW t \in Writer, write_log(t)
  PROVE  /\ lines < MaxWrites /\ lines' = lines + 1 /\ Rotate
         /\ UNCHANGED <<open_async, today, log, restarts>>
         /\ Taken(lines + 1) \/ Refused(lines + 1) \/ Direct(lines + 1)
         /\ Answers'
<1>1. CASE WriteAsync(t, lines + 1)
  <2>1. CASE Len(queue) < Capacity /\ queue' = Append(queue, lines + 1) /\ Queue!Return(t, TRUE)
    <3>1. returned'[t] /\ returned' \in [Writer \union {Log} -> BOOLEAN]
      BY <2>1 DEF Answers, Queue!Return
    <3> QED BY <1>1, <2>1, <3>1 DEF write_log, WriteAsync, Taken, Answers
  <2>2. CASE UNCHANGED queue /\ Queue!Return(t, FALSE)
    <3>1. ~returned'[t] /\ returned' \in [Writer \union {Log} -> BOOLEAN]
      BY <2>2 DEF Answers, Queue!Return
    <3> QED BY <1>1, <2>2, <3>1 DEF write_log, WriteAsync, Refused, Answers
  <2> QED BY <1>1, <2>1, <2>2 DEF WriteAsync, Queue!Push
<1>2. CASE WriteSync(lines + 1)
  BY <1>2 DEF write_log, WriteSync, Direct, Answers
<1> QED BY <1>1, <1>2 DEF write_log

(* Every line there is belongs to a call; so does every position.          *)
LEMMA Ranges ==
  ASSUME IInv
  PROVE  /\ lines \in Nat /\ MaxWrites \in Nat /\ lines <= MaxWrites
         /\ queue \in Seq(Line) /\ Len(queue) \in Nat /\ Len(queue) <= Capacity /\ Capacity \in Nat
         /\ log \in Line \union {0} /\ log \in Nat /\ log <= lines /\ lost \subseteq 1 .. lines
         /\ 0 \notin Line
         /\ \A i \in 1 .. Len(queue) : queue[i] \in Line /\ queue[i] \in Nat /\ queue[i] <= lines
         /\ \A f \in Name : Len(written[f]) \in Nat
         /\ \A f \in Name : \A i \in 1 .. Len(written[f]) :
              /\ i <= written[f][i] /\ written[f][i] <= lines
              /\ written[f][i] \in Line /\ written[f][i] \in Nat /\ i \in Nat
<1>1. \A f \in Name : written[f] \in Seq(Line)
  BY DEF IInv, TypeOK
<1>2. \A s \in Seq(Line) : Len(s) \in Nat /\ \A i \in 1 .. Len(s) : s[i] \in Line /\ i \in Nat
  OBVIOUS
<1>3. Line \subseteq Nat /\ 0 \notin Line
  BY LogAssumption DEF Line
<1>4. queue \in Seq(Line) /\ lines \in Nat /\ MaxWrites \in Nat /\ lines <= MaxWrites
  BY LogAssumption DEF IInv, TypeOK
<1>5. log \in Line \union {0} /\ Capacity \in Nat /\ Len(queue) <= Capacity
  BY LogAssumption DEF IInv, TypeOK
<1>6. /\ log <= lines /\ lost \subseteq 1 .. lines
      /\ \A i \in 1 .. Len(queue) : queue[i] <= lines
      /\ \A f \in Name : \A i \in 1 .. Len(written[f]) : i <= written[f][i] /\ written[f][i] <= lines
  BY DEF IInv, Known
<1>7. \A i \in 1 .. Len(queue) : queue[i] \in Line /\ queue[i] \in Nat
  BY <1>2, <1>3, <1>4
<1>8. /\ \A f \in Name : Len(written[f]) \in Nat
      /\ \A f \in Name : \A i \in 1 .. Len(written[f]) :
           written[f][i] \in Line /\ written[f][i] \in Nat /\ i \in Nat
  BY <1>1, <1>2, <1>3
<1>9. Len(queue) \in Nat /\ log \in Nat
  BY <1>2, <1>3, <1>4, <1>5
<1> QED BY <1>3, <1>4, <1>5, <1>6, <1>7, <1>8, <1>9

(* A line that is queued is later than all others.                         *)
LEMMA TakenKeeps ==
  ASSUME IInv, lines < MaxWrites, lines' = lines + 1, Taken(lines + 1), log' = log,
         Rotated, today' = today
  PROVE  queue' \in Seq(Line) /\ Len(queue') <= Capacity /\ Known' /\ Ordered' /\ Apart'
<1> DEFINE line == lines + 1
<1>1. /\ queue \in Seq(Line) /\ Len(queue) \in Nat /\ lines \in Nat /\ line \in Line
      /\ Capacity \in Nat /\ MaxWrites \in Nat
      /\ queue' = Append(queue, line) /\ written' = written /\ lost' = lost /\ log' = log
      /\ lines' = line /\ log \in Line \union {0} /\ lost \subseteq Line
      /\ Len(queue) < Capacity
  BY LogAssumption DEF IInv, TypeOK, Taken, Line
<1>2. /\ queue' \in Seq(Line) /\ Len(queue') = Len(queue) + 1 /\ queue'[Len(queue) + 1] = line
      /\ \A i \in 1 .. Len(queue) : i \in 1 .. Len(queue') /\ queue'[i] = queue[i]
      /\ \A i \in 1 .. Len(queue') :
           \/ i = Len(queue) + 1 /\ queue'[i] = line
           \/ i \in 1 .. Len(queue) /\ queue'[i] = queue[i]
  BY <1>1, OneMore
<1>3. /\ \A i \in 1 .. Len(queue) : queue[i] \in Line /\ queue[i] <= lines
      /\ \A f \in Name : \A i \in 1 .. Len(written[f]) :
           i <= written[f][i] /\ written[f][i] <= lines /\ written[f][i] \in Line /\ i \in Nat
      /\ log <= lines /\ lost \subseteq 1 .. lines
  BY Ranges
<1> HIDE DEF line
<1>4. line = lines + 1
  BY DEF line
<1>5. Known'
  <2>1. \A i \in 1 .. Len(queue') : queue'[i] <= line
    BY <1>1, <1>2, <1>3, <1>4 DEF Line
  <2>2. \A f \in Name : \A i \in 1 .. Len(written[f]) : i <= written[f][i] /\ written[f][i] <= line
    BY <1>1, <1>3, <1>4 DEF Line
  <2>3. log <= line /\ lost \subseteq 1 .. line
    BY <1>1, <1>3, <1>4 DEF Line
  <2> QED BY <1>1, <2>1, <2>2, <2>3 DEF Known, Rotated
<1>6. Ordered'
  <2>1. Ascending(queue')
    <3> SUFFICES ASSUME NEW i \in 1 .. Len(queue'), NEW j \in 1 .. Len(queue'), i < j
                 PROVE  queue'[i] < queue'[j]
      BY DEF Ascending
    <3>1. i \in 1 .. Len(queue) /\ queue'[i] = queue[i]
      BY <1>1, <1>2
    <3>2. CASE j = Len(queue) + 1
      BY <1>1, <1>2, <1>3, <1>4, <3>1, <3>2 DEF Line
    <3>3. CASE j \in 1 .. Len(queue) /\ queue'[j] = queue[j]
      BY <3>1, <3>3 DEF IInv, Ordered, Ascending
    <3> QED BY <1>2, <3>2, <3>3
  <2>2. \A f \in Name : \A i \in 1 .. Len(written[f]) :
          \A j \in 1 .. Len(queue') : written[f][i] < queue'[j]
    <3> SUFFICES ASSUME NEW f \in Name, NEW i \in 1 .. Len(written[f]), NEW j \in 1 .. Len(queue')
                 PROVE  written[f][i] < queue'[j]
      OBVIOUS
    <3>1. CASE j = Len(queue) + 1
      BY <1>1, <1>2, <1>3, <1>4, <3>1 DEF Line
    <3>2. CASE j \in 1 .. Len(queue) /\ queue'[j] = queue[j]
      BY <3>2 DEF IInv, Ordered
    <3> QED BY <1>2, <3>1, <3>2
  <2>3. log # 0 => \A j \in 1 .. Len(queue') : log < queue'[j]
    BY <1>1, <1>2, <1>3, <1>4 DEF IInv, Ordered, Line
  <2> QED BY <1>1, <2>1, <2>2, <2>3 DEF IInv, Ordered
<1>7. Apart'
  <2>1. \A i \in 1 .. Len(queue') : queue'[i] \notin lost
    BY <1>1, <1>2, <1>3, <1>4 DEF IInv, Apart
  <2>2. \A k \in 1 .. line :
          \/ k \in lost \/ log = k \/ \E i \in 1 .. Len(queue') : queue'[i] = k
          \/ \E f \in Name : \E i \in 1 .. Len(written[f]) : written[f][i] = k
    <3> SUFFICES ASSUME NEW k \in 1 .. line
                 PROVE  \/ k \in lost \/ log = k \/ \E i \in 1 .. Len(queue') : queue'[i] = k
                        \/ \E f \in Name : \E i \in 1 .. Len(written[f]) : written[f][i] = k
      OBVIOUS
    <3>1. CASE k = line
      <4>1. Len(queue) + 1 \in 1 .. Len(queue')
        BY <1>1, <1>2
      <4> QED BY <1>2, <3>1, <4>1
    <3>2. CASE k \in 1 .. lines
      BY <1>2, <3>2 DEF IInv, Apart
    <3> QED BY <1>1, <1>4, <3>1, <3>2
  <2> QED BY <1>1, <2>1, <2>2 DEF IInv, Apart
<1>8. Len(queue') <= Capacity
  BY <1>1, <1>2
<1> QED BY <1>2, <1>5, <1>6, <1>7, <1>8

(* A line that is refused is later than all others, and lost.              *)
LEMMA RefusedKeeps ==
  ASSUME IInv, lines < MaxWrites, lines' = lines + 1, Refused(lines + 1), log' = log,
         Rotated, today' = today
  PROVE  lost' \subseteq Line /\ Known' /\ Ordered' /\ Apart'
<1> DEFINE line == lines + 1
<1>1. /\ lines \in Nat /\ MaxWrites \in Nat /\ line \in Line /\ lines' = line
      /\ written' = written /\ queue' = queue /\ log' = log /\ lost' = lost \union {line}
  BY Ranges DEF Refused, Line
<1> HIDE DEF line
<1>2. line = lines + 1
  BY DEF line
<1>3. Known'
  <2>1. log <= line /\ lost' \subseteq 1 .. line
    BY <1>1, <1>2, Ranges
  <2>2. \A i \in 1 .. Len(queue) : queue[i] <= line
    BY <1>1, <1>2, Ranges
  <2>3. \A f \in Name : \A i \in 1 .. Len(written[f]) : i <= written[f][i] /\ written[f][i] <= line
    BY <1>1, <1>2, Ranges
  <2> QED BY <1>1, <2>1, <2>2, <2>3 DEF Known, Rotated
<1>4. Ordered'
  BY <1>1 DEF IInv, Ordered
<1>5. Apart'
  <2>1. /\ \A f \in Name : \A i \in 1 .. Len(written[f]) : written[f][i] # line
        /\ \A i \in 1 .. Len(queue) : queue[i] # line
        /\ log # line
    BY <1>1, <1>2, Ranges
  <2>2. /\ \A f \in Name : \A i \in 1 .. Len(written[f]) : written[f][i] \notin lost'
        /\ \A i \in 1 .. Len(queue) : queue[i] \notin lost'
        /\ log \notin lost'
    BY <1>1, <2>1 DEF IInv, Apart
  <2>3. \A k \in 1 .. line : k \in lost' \/ (k \notin lost /\ k \in 1 .. lines)
    BY <1>1, <1>2
  <2>4. \A k \in 1 .. line :
          \/ k \in lost' \/ log = k \/ \E i \in 1 .. Len(queue) : queue[i] = k
          \/ \E f \in Name : \E i \in 1 .. Len(written[f]) : written[f][i] = k
    BY <2>3 DEF IInv, Apart
  <2>5. \A f, g \in Name : \A i \in 1 .. Len(written[f]), j \in 1 .. Len(written[g]) :
          written[f][i] = written[g][j] => f = g
    BY DEF IInv, Apart
  <2> QED BY <1>1, <2>2, <2>4, <2>5 DEF Apart
<1>6. lost' \subseteq Line
  BY <1>1, Ranges DEF Line
<1> QED BY <1>3, <1>4, <1>5, <1>6

(* A line later than all that is written goes to the end of a file.        *)
Sorted(wrote, line) ==
  /\ \A g \in Name : Ascending(wrote[g])
  /\ \A g \in Name : \A i \in 1 .. Len(wrote[g]) :
       /\ i <= wrote[g][i] /\ wrote[g][i] <= line
       /\ wrote[g][i] = line \/ \E j \in 1 .. Len(written[g]) : wrote[g][i] = written[g][j]
  /\ \A g, h \in Name : \A i \in 1 .. Len(wrote[g]), j \in 1 .. Len(wrote[h]) :
       wrote[g][i] = wrote[h][j] => g = h

(* Files that are sorted stay so.                                          *)
LEMMA WroteOrdered ==
  ASSUME IInv, NEW f \in Name, NEW line \in Line, NEW wrote, Wrote(wrote, f, line),
         \A g \in Name : \A i \in 1 .. Len(written[g]) : written[g][i] < line
  PROVE  Sorted(wrote, line)
<1>1. /\ line \in Nat /\ line >= 1
      /\ \A g \in Name : /\ Len(written[g]) \in Nat
                         /\ Len(wrote[g]) \in {Len(written[g]), Len(written[g]) + 1}
  <2>1. \A g \in Name : Len(written[g]) \in Nat
    BY Ranges
  <2>2. \A g \in Name : Len(wrote[g]) \in {Len(written[g]), Len(written[g]) + 1}
    BY <2>1 DEF Wrote
  <2>3. line \in Nat /\ line >= 1
    BY LogAssumption DEF Line
  <2> QED BY <2>1, <2>2, <2>3
<1>2. \A g \in Name : \A i \in 1 .. Len(written[g]) :
        written[g][i] \in Nat /\ i <= written[g][i] /\ i \in Nat
  BY Ranges
<1>3. ASSUME NEW g \in Name, NEW i \in 1 .. Len(wrote[g])
      PROVE  \/ i \in 1 .. Len(written[g]) /\ wrote[g][i] = written[g][i]
             \/ g = f /\ i = Len(written[f]) + 1 /\ wrote[g][i] = line
  BY DEF Wrote
<1>4. ASSUME NEW g \in Name PROVE Ascending(wrote[g])
  <2> SUFFICES ASSUME NEW i \in 1 .. Len(wrote[g]), NEW j \in 1 .. Len(wrote[g]), i < j
               PROVE  wrote[g][i] < wrote[g][j]
    BY DEF Ascending
  <2>1. i \in 1 .. Len(written[g]) /\ wrote[g][i] = written[g][i]
    <3>1. i # Len(written[g]) + 1
      BY <1>1
    <3> QED BY <1>3, <3>1
  <2>2. CASE j \in 1 .. Len(written[g]) /\ wrote[g][j] = written[g][j]
    BY <2>1, <2>2 DEF IInv, Ordered, Ascending
  <2>3. CASE wrote[g][j] = line
    BY <2>1, <2>3
  <2> QED BY <1>3, <2>2, <2>3
<1>5. Len(written[f]) + 1 <= line
  <2>1. CASE Len(written[f]) = 0
    BY <1>1, <2>1
  <2>2. CASE Len(written[f]) # 0
    <3>1. Len(written[f]) \in 1 .. Len(written[f])
      BY <1>1, <2>2
    <3> QED BY <1>1, <1>2, <3>1
  <2> QED BY <2>1, <2>2
<1>6. ASSUME NEW g \in Name, NEW i \in 1 .. Len(wrote[g])
      PROVE  i <= wrote[g][i] /\ wrote[g][i] <= line
  <2>1. CASE i \in 1 .. Len(written[g]) /\ wrote[g][i] = written[g][i]
    <3>1. written[g][i] < line
      BY <2>1
    <3> QED BY <1>1, <1>2, <2>1, <3>1
  <2>2. CASE i = Len(written[f]) + 1 /\ wrote[g][i] = line
    BY <1>1, <1>5, <2>2
  <2> QED BY <1>3, <2>1, <2>2
<1>7. ASSUME NEW g \in Name, NEW h \in Name, NEW i \in 1 .. Len(wrote[g]), NEW j \in 1 .. Len(wrote[h]),
             wrote[g][i] = wrote[h][j]
      PROVE  g = h
  <2>1. CASE wrote[g][i] = line
    <3>1. \A k \in 1 .. Len(written[h]) : written[h][k] # line
      BY <1>1, <1>2
    <3>2. \A k \in 1 .. Len(written[g]) : written[g][k] # line
      BY <1>1, <1>2
    <3> QED BY <1>3, <1>7, <2>1, <3>1, <3>2
  <2>2. CASE wrote[g][i] # line
    <3>1. /\ i \in 1 .. Len(written[g]) /\ wrote[g][i] = written[g][i]
          /\ j \in 1 .. Len(written[h]) /\ wrote[h][j] = written[h][j]
      BY <1>3, <1>7, <2>2
    <3>2. written[g][i] = written[h][j]
      BY <1>7, <3>1
    <3> QED BY <3>1, <3>2 DEF IInv, Apart
  <2> QED BY <2>1, <2>2
<1> QED BY <1>3, <1>4, <1>6, <1>7 DEF Sorted

(* Nothing is queued or in hand where lines are written directly.          *)
LEMMA DirectKeeps ==
  ASSUME IInv, lines < MaxWrites, lines' = lines + 1, Direct(lines + 1), log' = log,
         Rotated, today' = today
  PROVE  written' \in [Name -> Seq(Line)] /\ Known' /\ Ordered' /\ Apart'
<1> DEFINE line == lines + 1
           f    == log_fp'
<1>1. /\ lines \in Nat /\ MaxWrites \in Nat /\ line \in Line /\ lines' = line /\ f \in Name
      /\ log' = log /\ queue' = queue /\ lost' = lost /\ log = 0 /\ queue = <<>>
      /\ written' = [written EXCEPT ![f] = Append(@, line)]
  BY Ranges DEF Direct, Line, Rotated, IInv, HeldByAsync
<1>2. Wrote(written', f, line)
  BY <1>1, Writing DEF IInv, TypeOK
<1> HIDE DEF line, f
<1>3. line = lines + 1 /\ 1 .. Len(<<>>) = {}
  BY DEF line
<1>4. \A g \in Name : \A i \in 1 .. Len(written[g]) : written[g][i] < line
  BY <1>1, <1>3, Ranges
<1>5. Sorted(written', line)
  BY <1>1, <1>2, <1>4, WroteOrdered
<1>6. Known'
  <2>1. log <= line /\ lost \subseteq 1 .. line
    BY <1>1, <1>3, Ranges
  <2> QED BY <1>1, <1>3, <1>5, <2>1 DEF Known, Rotated, Sorted
<1>7. Ordered'
  BY <1>1, <1>3, <1>5 DEF IInv, Ordered, Sorted
<1>8. Apart'
  <2>1. line \notin lost
    BY <1>1, <1>3, Ranges
  <2>2. \A g \in Name : \A i \in 1 .. Len(written'[g]) : written'[g][i] \notin lost
    BY <1>5, <2>1 DEF IInv, Apart, Sorted
  <2>3. \A k \in 1 .. line : \/ k \in lost
                            \/ \E g \in Name : \E i \in 1 .. Len(written'[g]) : written'[g][i] = k
    <3> SUFFICES ASSUME NEW k \in 1 .. line, k \notin lost
                 PROVE  \E g \in Name : \E i \in 1 .. Len(written'[g]) : written'[g][i] = k
      OBVIOUS
    <3>1. CASE k = line
      BY <1>1, <1>2, <3>1 DEF Wrote
    <3>2. CASE k # line
      <4>1. k \in 1 .. lines /\ k # 0
        BY <1>1, <1>3, <3>2
      <4>2. PICK g \in Name : \E i \in 1 .. Len(written[g]) : written[g][i] = k
        BY <1>1, <1>3, <4>1 DEF IInv, Apart
      <4> QED BY <1>2, <4>2 DEF Wrote
    <3> QED BY <3>1, <3>2
  <2> QED BY <1>1, <1>3, <1>5, <2>2, <2>3 DEF IInv, Apart, Sorted
<1> QED BY <1>2, <1>6, <1>7, <1>8 DEF Wrote

-----------------------------------------------------------------------------
(* What is counted in natural numbers.                                     *)
LEMMA LengthOfWritten ==
  ASSUME IInv
  PROVE  /\ \A f \in Name : Len(written[f]) \in Nat
         /\ MaxLines \in Nat \ {0} /\ Capacity \in Nat \ {0} /\ restarts \in Nat
         /\ Left \in 0 .. MaxLines - 1 /\ Held \in 0 .. Capacity + 1
         /\ Most(restarts) \in Nat /\ Most(restarts + 1) = Most(restarts) + (MaxLines + Capacity)
<1>1. restarts \in Nat
  BY LogAssumption DEF IInv, TypeOK
<1> QED BY <1>1, Ranges, LeftType, MostStep, LogAssumption DEF IInv

(* What a step does to the room in the open file.                          *)
LEMMA RoomKept ==
  ASSUME IInv, Rotated, restarts' = restarts, NEW new \in {0, 1},
         \A f \in Name : written'[f] = written[f] \/ f = log_fp',
         Len(written'[log_fp']) = Len(written[log_fp']) + new,
         Held' \in 0 .. Capacity + 1 - new, Held' + new <= Held + 1
  PROVE  Room'
<1> DEFINE f == log_fp'
           a == Len(written[f])
           b == Len(written'[f])
<1>1. /\ f \in Name /\ a \in Nat /\ b = a + new /\ Held' \in Nat /\ Held \in Nat
      /\ \A g \in Name : g # f => written'[g] = written[g]
      /\ Left \in 0 .. MaxLines - 1 /\ MaxLines \in Nat \ {0} /\ Capacity \in Nat \ {0}
      /\ Most(restarts) \in Nat /\ Most(restarts + 1) = Most(restarts) + (MaxLines + Capacity)
  BY LengthOfWritten DEF Rotated
<1>2. b + Held' + Left' <= Most(restarts + 1) /\ Left' \in Nat
  <2>1. CASE f = log_fp /\ Left >= 1 /\ Left' = Left - 1
    <3>1. a + Held + Left <= Most(restarts + 1)
      BY <2>1 DEF IInv, Room
    <3> HIDE DEF a, b, f
    <3>2. Left' \in Nat /\ Left \in Nat /\ Left' = Left - 1
      BY <1>1, <2>1
    <3>3. a \in Nat /\ Held \in Nat /\ Held' \in Nat
      BY <1>1
    <3>4. b = a + new /\ Most(restarts + 1) \in Nat
      BY <1>1
    <3>5. ASSUME NEW h \in Nat, NEW k \in Nat, NEW l \in Nat, NEW m \in Nat,
                 h = Held, k = Held', l = Left, m = Left'
          PROVE  b + k + m <= Most(restarts + 1)
      <4>1. k + new <= h + 1 /\ m = l - 1 /\ a + h + l <= Most(restarts + 1)
        BY <3>1, <3>2, <3>5
      <4> QED BY <3>3, <3>4, <4>1
    <3> QED BY <3>2, <3>3, <3>5
  <2>2. CASE f \in Unopened /\ Left' = MaxLines - 1
    <3>1. a <= Most(restarts)
      BY <2>2 DEF IInv, Room
    <3> HIDE DEF a, b
    <3> QED BY <1>1, <2>2, <3>1
  <2> QED BY <2>1, <2>2 DEF Rotated
<1>3. \A g \in Unopened' : Len(written'[g]) <= Most(restarts)
  <2>1. \A g \in Unopened' : g # f /\ g \in Unopened /\ g \in Name
    BY DEF Rotated, Unopened
  <2> QED BY <1>1, <2>1 DEF IInv, Room
<1>4. \A g \in Name : Len(written'[g]) <= Most(restarts + 1)
  <2>1. b <= Most(restarts + 1)
    <3> HIDE DEF b
    <3> QED BY <1>1, <1>2
  <2> QED BY <1>1, <2>1 DEF IInv, Room
<1>5. Most(restarts)' = Most(restarts) /\ Most(restarts + 1)' = Most(restarts + 1)
  BY DEF Most
<1> QED BY <1>2, <1>3, <1>4, <1>5 DEF Room, Rotated

(* A call keeps the invariant, whatever becomes of its line.               *)
LEMMA CallKeeps ==
  ASSUME IInv, NEW t \in Writer, write_log(t)
  PROVE  IInv'
<1> DEFINE line == lines + 1
<1>1. /\ lines < MaxWrites /\ lines' = line /\ Rotate
      /\ UNCHANGED <<open_async, today, log, restarts>>
      /\ Taken(line) \/ Refused(line) \/ Direct(line)
      /\ Answers'
  BY Calling DEF IInv
<1>2. Rotated
  BY <1>1, Rotating DEF IInv, Room
<1>3. /\ lines' \in 0 .. MaxWrites /\ line \in Line /\ TypeOK /\ Room
      /\ Len(queue) \in Nat /\ log \in Nat
  BY <1>1, Ranges DEF IInv, Line
<1>4. CASE Taken(line)
  <2>1. queue' \in Seq(Line) /\ Len(queue') <= Capacity /\ Known' /\ Ordered' /\ Apart'
    BY <1>1, <1>2, <1>4, TakenKeeps
  <2>2. Len(queue') = Len(queue) + 1 /\ written' = written /\ lost' = lost /\ open_async' = open_async /\ open_async
    BY <1>1, <1>3, <1>4, OneMore DEF Taken, TypeOK
  <2>3. TypeOK'
    BY <1>1, <1>2, <1>3, <2>1, <2>2 DEF TypeOK, Rotated
  <2>4. Held' = Held + 1 /\ Held' \in 0 .. Capacity + 1
    BY <1>1, <1>3, <2>1, <2>2, LengthOfWritten DEF Held
  <2>5. Room'
    BY <1>1, <1>2, <2>2, <2>4, LengthOfWritten, RoomKept DEF Rotated
  <2> QED BY <1>1, <2>1, <2>2, <2>3, <2>5 DEF IInv, HeldByAsync
<1>5. CASE Refused(line)
  <2>1. lost' \subseteq Line /\ Known' /\ Ordered' /\ Apart'
    BY <1>1, <1>2, <1>5, RefusedKeeps
  <2>2. queue' = queue /\ written' = written
    BY <1>5 DEF Refused
  <2>3. TypeOK'
    BY <1>1, <1>2, <1>3, <2>1, <2>2 DEF TypeOK, Rotated
  <2>4. Held' = Held /\ Held' \in 0 .. Capacity + 1
    BY <1>1, <2>2, LengthOfWritten DEF Held
  <2>5. Room'
    BY <1>1, <1>2, <2>2, <2>4, LengthOfWritten, RoomKept DEF Rotated
  <2> QED BY <1>1, <2>1, <2>2, <2>3, <2>5 DEF IInv, HeldByAsync
<1>6. CASE Direct(line)
  <2>1. written' \in [Name -> Seq(Line)] /\ Known' /\ Ordered' /\ Apart'
    BY <1>1, <1>2, <1>6, DirectKeeps
  <2>2. /\ queue' = queue /\ lost' = lost /\ log = 0 /\ queue = <<>>
        /\ written' = [written EXCEPT ![log_fp'] = Append(@, line)]
    BY <1>6 DEF Direct, IInv, HeldByAsync
  <2>3. TypeOK'
    BY <1>1, <1>2, <1>3, <2>1, <2>2 DEF TypeOK, Rotated
  <2>4. Held' = 0 /\ Held = 0
    BY <1>1, <2>2 DEF Held
  <2>5. /\ \A f \in Name : written'[f] = written[f] \/ f = log_fp'
        /\ Len(written'[log_fp']) = Len(written[log_fp']) + 1
    BY <1>2, <1>3, <2>2, OneMore DEF TypeOK, Rotated
  <2>6. Room'
    BY <1>1, <1>2, <2>4, <2>5, LengthOfWritten, RoomKept
  <2> QED BY <1>1, <2>1, <2>2, <2>3, <2>6 DEF IInv, HeldByAsync
<1> QED BY <1>1, <1>4, <1>5, <1>6

(* The asynchronous thread takes the line at the head of the queue.        *)
LEMMA PopKeeps ==
  ASSUME IInv, AsyncPop
  PROVE  IInv'
<1>1. /\ open_async /\ log = 0 /\ queue # <<>> /\ queue' = Tail(queue) /\ log' = Head(queue)
      /\ UNCHANGED <<open_async, now_lines, log_day, today, log_fp, written, returned>>
      /\ UNCHANGED <<lines, lost, restarts>>
  BY DEF AsyncPop, Queue!Pop
<1>2. /\ Head(queue) \in Line /\ Head(queue) = queue[1] /\ 1 \in 1 .. Len(queue)
      /\ Tail(queue) \in Seq(Line) /\ Len(Tail(queue)) = Len(queue) - 1 /\ Len(queue) \in Nat
      /\ \A i \in 1 .. Len(Tail(queue)) : i + 1 \in 1 .. Len(queue) /\ Tail(queue)[i] = queue[i + 1]
      /\ \A i \in 1 .. Len(queue) :
           i = 1 \/ (i - 1 \in 1 .. Len(Tail(queue)) /\ Tail(queue)[i - 1] = queue[i])
  BY <1>1, OneLess DEF IInv, TypeOK
<1>3. log' # 0 /\ log' \in Line
  BY <1>1, <1>2, Ranges
<1>4. TypeOK'
  <2>1. Len(queue') <= Capacity
    BY <1>1, <1>2, Ranges
  <2> QED BY <1>1, <1>2, <1>3, <2>1 DEF IInv, TypeOK
<1>5. Known'
  BY <1>1, <1>2 DEF IInv, Known
<1>6. Ordered'
  <2>1. ASSUME NEW i \in 1 .. Len(queue'), NEW j \in 1 .. Len(queue'), i < j
        PROVE  queue'[i] < queue'[j]
    <3>1. /\ i + 1 \in 1 .. Len(queue) /\ j + 1 \in 1 .. Len(queue) /\ i + 1 < j + 1
          /\ queue'[i] = queue[i + 1] /\ queue'[j] = queue[j + 1]
      BY <1>1, <1>2, <2>1
    <3> QED BY <3>1 DEF IInv, Ordered, Ascending
  <2>2. ASSUME NEW j \in 1 .. Len(queue') PROVE log' < queue'[j]
    <3>1. j + 1 \in 1 .. Len(queue) /\ 1 < j + 1 /\ queue'[j] = queue[j + 1] /\ log' = queue[1]
      BY <1>1, <1>2
    <3> QED BY <1>2, <3>1 DEF IInv, Ordered, Ascending
  <2>3. ASSUME NEW f \in Name, NEW i \in 1 .. Len(written[f])
        PROVE  written[f][i] < log' /\ \A j \in 1 .. Len(queue') : written[f][i] < queue'[j]
    <3>1. \A j \in 1 .. Len(queue) : written[f][i] < queue[j]
      BY DEF IInv, Ordered
    <3> QED BY <1>1, <1>2, <3>1
  <2>4. \A f \in Name : Ascending(written[f])
    BY DEF IInv, Ordered
  <2> QED BY <1>1, <2>1, <2>2, <2>3, <2>4 DEF Ordered, Ascending
<1>7. Apart'
  <2>1. /\ \A f, g \in Name : \A i \in 1 .. Len(written[f]), j \in 1 .. Len(written[g]) :
              written[f][i] = written[g][j] => f = g
        /\ \A f \in Name : \A i \in 1 .. Len(written[f]) : written[f][i] \notin lost
        /\ \A i \in 1 .. Len(queue) : queue[i] \notin lost
    BY DEF IInv, Apart
  <2>2. log' \notin lost /\ \A i \in 1 .. Len(queue') : queue'[i] \notin lost
    BY <1>1, <1>2, <2>1
  <2>3. ASSUME NEW k \in 1 .. lines
        PROVE  \/ k \in lost \/ log' = k \/ \E i \in 1 .. Len(queue') : queue'[i] = k
               \/ \E f \in Name : \E i \in 1 .. Len(written[f]) : written[f][i] = k
    <3>1. CASE \E i \in 1 .. Len(queue) : queue[i] = k
      BY <1>1, <1>2, <3>1
    <3>2. CASE ~\E i \in 1 .. Len(queue) : queue[i] = k
      <4>1. k # 0
        OBVIOUS
      <4> QED BY <1>1, <3>2, <4>1 DEF IInv, Apart
    <3> QED BY <3>1, <3>2
  <2>4. queue' = Tail(queue) /\ log' = Head(queue) /\ written' = written /\ lost' = lost /\ lines' = lines
    BY <1>1
  <2>5. 1 .. lines' = 1 .. lines /\ \A k \in 1 .. lines :
          \/ k \in lost \/ log' = k \/ \E i \in 1 .. Len(queue') : queue'[i] = k
          \/ \E f \in Name : \E i \in 1 .. Len(written[f]) : written[f][i] = k
    BY <2>3, <2>4
  <2> QED BY <2>1, <2>2, <2>4, <2>5 DEF Apart
<1>8. Room'
  <2>1. Held' = Held
    BY <1>1, <1>2, <1>3 DEF Held
  <2> QED BY <1>1, <2>1 DEF IInv, Room, Left, Most, Unopened
<1> QED BY <1>1, <1>4, <1>5, <1>6, <1>7, <1>8 DEF IInv, Answers, HeldByAsync

(* It puts the line in the file that is open by then.                      *)
LEMMA WriteKeeps ==
  ASSUME IInv, AsyncWrite
  PROVE  IInv'
<1>1. /\ log # 0 /\ log' = 0 /\ written' = [written EXCEPT ![log_fp] = Append(@, log)]
      /\ UNCHANGED <<open_async, now_lines, log_day, today, log_fp, queue, returned>>
      /\ UNCHANGED <<lines, lost, restarts>>
  BY DEF AsyncWrite
<1>2. log \in Line /\ log_fp \in Name /\ written \in [Name -> Seq(Line)]
  BY <1>1 DEF IInv, TypeOK
<1>3. Wrote(written', log_fp, log)
  BY <1>1, <1>2, Writing
<1>4. Sorted(written', log)
  <2>1. \A g \in Name : \A i \in 1 .. Len(written[g]) : written[g][i] < log
    BY <1>1 DEF IInv, Ordered
  <2> QED BY <1>2, <1>3, <2>1, WroteOrdered
<1>5. TypeOK'
  BY <1>1, <1>3 DEF IInv, TypeOK, Wrote
<1>6. Known'
  <2>1. \A f \in Name : \A i \in 1 .. Len(written'[f]) : i <= written'[f][i] /\ written'[f][i] <= lines
    <3>1. ASSUME NEW f \in Name, NEW i \in 1 .. Len(written'[f])
          PROVE  i <= written'[f][i] /\ written'[f][i] <= lines
      <4>1. i <= written'[f][i] /\ written'[f][i] <= log /\ written'[f][i] \in Nat
        <5>1. written'[f] \in Seq(Line) /\ Line \subseteq Nat
          BY <1>3 DEF Wrote, Line
        <5>2. written'[f][i] \in Line
          BY <5>1
        <5> QED BY <1>4, <5>1, <5>2 DEF Sorted
      <4> QED BY <4>1, Ranges
    <3> QED BY <3>1
  <2> QED BY <1>1, <2>1, Ranges DEF IInv, Known
<1>7. Ordered'
  <2>1. ASSUME NEW f \in Name, NEW i \in 1 .. Len(written'[f]), NEW j \in 1 .. Len(queue)
        PROVE  written'[f][i] < queue[j]
    <3>1. CASE written'[f][i] = log
      BY <1>1, <3>1 DEF IInv, Ordered
    <3>2. CASE \E k \in 1 .. Len(written[f]) : written'[f][i] = written[f][k]
      BY <3>2 DEF IInv, Ordered
    <3> QED BY <1>4, <3>1, <3>2 DEF Sorted
  <2>2. Ascending(queue) /\ \A f \in Name : Ascending(written'[f])
    BY <1>4 DEF IInv, Ordered, Sorted
  <2> QED BY <1>1, <2>1, <2>2 DEF Ordered
<1>8. Apart'
  <2>1. \A f, g \in Name : \A i \in 1 .. Len(written'[f]), j \in 1 .. Len(written'[g]) :
          written'[f][i] = written'[g][j] => f = g
    BY <1>4 DEF Sorted
  <2>2. ASSUME NEW f \in Name, NEW i \in 1 .. Len(written'[f]) PROVE written'[f][i] \notin lost
    BY <1>4 DEF IInv, Apart, Sorted
  <2>3. log' \notin lost /\ \A i \in 1 .. Len(queue) : queue[i] \notin lost
    BY <1>1, Ranges DEF IInv, Apart
  <2>4. ASSUME NEW k \in 1 .. lines
        PROVE  \/ k \in lost \/ \E i \in 1 .. Len(queue) : queue[i] = k
               \/ \E f \in Name : \E i \in 1 .. Len(written'[f]) : written'[f][i] = k
    <3>1. CASE log = k
      BY <1>2, <1>3, <3>1 DEF Wrote
    <3>2. CASE \E f \in Name : \E i \in 1 .. Len(written[f]) : written[f][i] = k
      BY <1>3, <3>2 DEF Wrote
    <3> QED BY <3>1, <3>2 DEF IInv, Apart
  <2> QED BY <1>1, <2>1, <2>2, <2>3, <2>4 DEF Apart
<1>9. Room'
  <2>1. Held = Held' + 1 /\ Held' \in Nat
    BY <1>1, Ranges DEF Held
  <2>2. /\ \A f \in Name : Len(written'[f]) = IF f = log_fp THEN Len(written[f]) + 1 ELSE Len(written[f])
        /\ log_fp \notin Unopened /\ log_fp[1] = log_day /\ \A f \in Unopened : f \in Name
    BY <1>3 DEF Wrote, IInv, Room, Unopened
  <2>3. Len(written'[log_fp]) + Held' + Left <= Most(restarts + 1)
    <3>1. Len(written[log_fp]) + Held + Left <= Most(restarts + 1)
      BY DEF IInv, Room
    <3>2. Len(written'[log_fp]) = Len(written[log_fp]) + 1 /\ Len(written[log_fp]) \in Nat
      BY <1>2, <2>2, LengthOfWritten
    <3>3. Left \in Nat /\ Held \in Nat /\ Most(restarts + 1) \in Nat
      BY LengthOfWritten
    <3> QED BY <2>1, <3>1, <3>2, <3>3
  <2>4. Len(written'[log_fp]) <= Most(restarts + 1)
    <3>1. Len(written'[log_fp]) \in Nat /\ Left \in Nat /\ Held' \in Nat /\ Most(restarts + 1) \in Nat
      BY <1>2, <2>1, <2>2, LengthOfWritten
    <3> QED BY <2>3, <3>1
  <2>5. /\ \A f \in Unopened : Len(written'[f]) <= Most(restarts)
        /\ \A f \in Name : Len(written'[f]) <= Most(restarts + 1)
    BY <2>2, <2>4 DEF IInv, Room
  <2> QED BY <1>1, <2>2, <2>3, <2>5 DEF Room, Left, Most, Unopened
<1> QED BY <1>1, <1>5, <1>6, <1>7, <1>8, <1>9 DEF IInv, Answers, HeldByAsync

(* A restart gives each file another share and loses what was held.        *)
LEMMA RestartKeeps ==
  ASSUME IInv, Restart
  PROVE  IInv'
<1>1. /\ restarts < MaxRestarts /\ restarts' = restarts + 1
      /\ lost' = lost \union Elements(queue) \union ({log} \ {0})
      /\ open_async' \in BOOLEAN /\ now_lines' = 0 /\ log_day' = today /\ log_fp' = <<today, 0>>
      /\ log' = 0 /\ queue' = <<>>
      /\ UNCHANGED <<today, written, returned, lines>>
  BY DEF Restart, Start
<1>2. /\ today \in 1 .. MaxDay /\ today \in Nat /\ MaxWrites \in Nat /\ MaxRestarts \in Nat
      /\ restarts \in Nat /\ lines \in Nat /\ Len(<<>>) = 0 /\ 1 .. Len(<<>>) = {} /\ <<>> \in Seq(Line)
  BY LogAssumption DEF IInv, TypeOK
<1>3. log_fp' \in Name /\ log_fp'[1] = today /\ log_fp'[2] = 0
  BY <1>1, <1>2, Naming
<1>4. lost' \subseteq 1 .. lines
  <2>1. Elements(queue) \subseteq 1 .. lines
    BY Ranges DEF Elements, Line
  <2>2. {log} \ {0} \subseteq 1 .. lines
    BY Ranges
  <2> QED BY <1>1, <2>1, <2>2, Ranges
<1>5. TypeOK'
  <2>1. lost' \subseteq Line
    BY <1>4, Ranges DEF Line
  <2>2. Len(queue') <= Capacity
    BY <1>1, <1>2, LogAssumption
  <2>3. restarts' \in 0 .. MaxRestarts
    BY <1>1, <1>2
  <2> QED BY <1>1, <1>2, <1>3, <2>1, <2>2, <2>3 DEF IInv, TypeOK
<1>6. Known'
  BY <1>1, <1>2, <1>4 DEF IInv, Known
<1>7. Ordered'
  BY <1>1, <1>2 DEF IInv, Ordered, Ascending
<1>8. Apart'
  <2>1. ASSUME NEW f \in Name, NEW i \in 1 .. Len(written[f]) PROVE written[f][i] \notin lost'
    <3>1. written[f][i] \notin lost
      BY DEF IInv, Apart
    <3>2. written[f][i] \notin Elements(queue)
      <4>1. ASSUME NEW j \in 1 .. Len(queue) PROVE written[f][i] # queue[j]
        <5>1. written[f][i] < queue[j]
          BY DEF IInv, Ordered
        <5> QED BY <5>1, Ranges
      <4> QED BY <4>1 DEF Elements
    <3>3. log # 0 => written[f][i] # log
      <4>1. log # 0 => written[f][i] < log
        BY DEF IInv, Ordered
      <4> QED BY <4>1, Ranges
    <3> QED BY <1>1, <3>1, <3>2, <3>3
  <2>2. 0 \notin lost'
    BY <1>2, <1>4
  <2>3. ASSUME NEW k \in 1 .. lines
        PROVE  k \in lost' \/ \E f \in Name : \E i \in 1 .. Len(written[f]) : written[f][i] = k
    <3>1. CASE \E i \in 1 .. Len(queue) : queue[i] = k
      BY <1>1, <3>1 DEF Elements
    <3>2. CASE log = k
      BY <1>1, <1>2, <3>2
    <3> QED BY <1>1, <3>1, <3>2 DEF IInv, Apart
  <2>4. \A f, g \in Name : \A i \in 1 .. Len(written[f]), j \in 1 .. Len(written[g]) :
          written[f][i] = written[g][j] => f = g
    BY DEF IInv, Apart
  <2> QED BY <1>1, <1>2, <2>1, <2>2, <2>3, <2>4 DEF Apart
<1>9. Room'
  <2>1. 0 \div MaxLines = 0 /\ 0 % MaxLines = 0 /\ MaxLines \in Nat \ {0} /\ Capacity \in Nat \ {0}
    <3>1. MaxLines \in Nat \ {0} /\ Capacity \in Nat \ {0}
      BY LogAssumption
    <3>2. 0 = MaxLines * (0 \div MaxLines) + (0 % MaxLines) /\ 0 % MaxLines \in 0 .. MaxLines - 1
          /\ 0 \div MaxLines \in Nat
      BY <3>1, NextLine
    <3> QED BY <3>1, <3>2
  <2>2. Held' = 0 /\ Left' = MaxLines - 1
    BY <1>1, <1>2, <2>1 DEF Held, Left
  <2>3. /\ Most(restarts)' = Most(restarts + 1)
        /\ Most(restarts + 1)' = Most(restarts + 1) + (MaxLines + Capacity)
        /\ Most(restarts + 1) \in Nat
    <3>1. Most(restarts)' = Most(restarts + 1) /\ Most(restarts + 1)' = Most((restarts + 1) + 1)
      BY <1>1 DEF Most
    <3>2. restarts + 1 \in Nat
      BY <1>2
    <3> QED BY <3>1, <3>2, MostStep
  <2>4. \A f \in Name : Len(written[f]) <= Most(restarts + 1) /\ Len(written[f]) \in Nat
    BY LengthOfWritten DEF IInv, Room
  <2>5. log_fp' \notin Unopened'
    BY <1>1, <1>2, <1>3, <2>1 DEF Unopened
  <2>6. \A f \in Unopened' : Len(written'[f]) <= Most(restarts)'
    BY <1>1, <2>3, <2>4 DEF Unopened
  <2>7. /\ \A f \in Name : Len(written'[f]) <= Most(restarts + 1)'
        /\ Len(written'[log_fp']) + Held' + Left' <= Most(restarts + 1)'
    <3> DEFINE n == Most(restarts + 1)
               o == Most(restarts + 1)'
    <3>1. \A f \in Name : Len(written'[f]) <= n /\ Len(written'[f]) \in Nat
      BY <1>1, <2>4
    <3>2. n \in Nat /\ o = n + (MaxLines + Capacity)
      BY <2>3
    <3> HIDE DEF n, o
    <3>3. \A f \in Name : Len(written'[f]) <= o /\ Len(written'[f]) + 0 + (MaxLines - 1) <= o
      BY <2>1, <3>1, <3>2
    <3>4. Len(written'[log_fp']) + Held' + Left' <= o
      BY <1>3, <2>2, <3>3
    <3> QED BY <3>3, <3>4 DEF o
  <2> QED BY <1>1, <1>3, <2>5, <2>6, <2>7 DEF Room
<1> QED BY <1>1, <1>5, <1>6, <1>7, <1>8, <1>9 DEF IInv, Answers, HeldByAsync

(* A new day changes nothing but the date.                                 *)
LEMMA MidnightKeeps ==
  ASSUME IInv, Midnight
  PROVE  IInv'
<1>1. /\ today < MaxDay /\ today' = today + 1
      /\ UNCHANGED <<open_async, now_lines, log_day, log_fp, written, queue, returned>>
      /\ UNCHANGED <<log, lines, lost, restarts>>
  BY DEF Midnight
<1>2. today' \in 1 .. MaxDay /\ log_day <= today'
  BY <1>1, LogAssumption DEF IInv, TypeOK, Known
<1>3. TypeOK' /\ Known'
  BY <1>1, <1>2 DEF IInv, TypeOK, Known
<1>4. Ordered' /\ HeldByAsync' /\ Answers'
  BY <1>1 DEF IInv, Ordered, HeldByAsync, Answers
<1>5. Apart'
  BY <1>1 DEF IInv, Apart
<1>6. Room'
  BY <1>1 DEF IInv, Room, Held, Left, Most, Unopened
<1> QED BY <1>3, <1>4, <1>5, <1>6 DEF IInv

(* A step that changes nothing keeps all of it.                            *)
LEMMA StutterKeeps ==
  ASSUME IInv, UNCHANGED vars
  PROVE  IInv'
<1>1. TypeOK' /\ Known'
  BY DEF vars, IInv, TypeOK, Known
<1>2. Ordered' /\ HeldByAsync' /\ Answers'
  BY DEF vars, IInv, Ordered, HeldByAsync, Answers
<1>3. Apart'
  BY DEF vars, IInv, Apart
<1>4. Room'
  BY DEF vars, IInv, Room, Held, Left, Most, Unopened
<1> QED BY <1>1, <1>2, <1>3, <1>4 DEF IInv

(* The first run of the server starts with nothing written.                *)
LEMMA InitOK == Init => IInv
<1> SUFFICES ASSUME Init PROVE IInv
  OBVIOUS
<1>1. /\ open_async \in BOOLEAN /\ now_lines = 0 /\ log_day = 1 /\ today = 1 /\ log_fp = <<1, 0>>
      /\ written = [f \in Name |-> <<>>] /\ queue = <<>> /\ log = 0 /\ lines = 0 /\ lost = {}
      /\ restarts = 0 /\ returned = [t \in Writer \union {Log} |-> FALSE]
  BY DEF Init, Queue!Init
<1>2. /\ MaxLines \in Nat \ {0} /\ Capacity \in Nat \ {0} /\ MaxDay \in Nat \ {0}
      /\ MaxWrites \in Nat /\ MaxRestarts \in Nat
      /\ Len(<<>>) = 0 /\ 1 .. Len(<<>>) = {} /\ <<>> \in Seq(Line)
  BY LogAssumption
<1>3. log_fp \in Name /\ log_fp[1] = 1 /\ log_fp[2] = 0
  <2>1. 1 \in 1 .. MaxDay
    BY <1>2
  <2> QED BY <1>1, <2>1, Naming
<1>4. 0 \div MaxLines = 0 /\ 0 % MaxLines = 0
  <2>1. 0 = MaxLines * (0 \div MaxLines) + (0 % MaxLines) /\ 0 % MaxLines \in 0 .. MaxLines - 1
        /\ 0 \div MaxLines \in Nat
    BY <1>2, NextLine
  <2> QED BY <1>2, <2>1
<1>5. TypeOK
  BY <1>1, <1>2, <1>3 DEF TypeOK
<1>6. Known /\ Ordered /\ HeldByAsync /\ Answers
  BY <1>1, <1>2 DEF Known, Ordered, Ascending, HeldByAsync, Answers
<1>7. Apart
  BY <1>1, <1>2 DEF Apart
<1>8. Room
  <2>1. Held = 0 /\ Left = MaxLines - 1 /\ log_fp \notin Unopened
    BY <1>1, <1>2, <1>3, <1>4 DEF Held, Left, Unopened
  <2>2. \A f \in Name : Len(written[f]) = 0
    BY <1>1, <1>2
  <2>3. Most(restarts) = 0 /\ Most(restarts + 1) = MaxLines + Capacity
    BY <1>1, <1>2 DEF Most
  <2> QED BY <1>1, <1>2, <1>3, <2>1, <2>2, <2>3 DEF Room, Unopened
<1> QED BY <1>5, <1>6, <1>7, <1>8 DEF IInv

(* The invariant holds in every state.                                     *)
THEOREM Invariance == Spec => []IInv
<1>1. IInv /\ [Next]_vars => IInv'
  BY CallKeeps, PopKeeps, WriteKeeps, MidnightKeeps, RestartKeeps, StutterKeeps DEF Next
<1> QED BY InitOK, <1>1, PTL DEF Spec

-----------------------------------------------------------------------------
(* What is written, in hand and queued is in the order of the calls.       *)
LEMMA OrderOfPlaces ==
  ASSUME IInv, NEW f \in Name
  PROVE  Ascending(written[f] \o (IF log = 0 THEN <<>> ELSE <<log>>) \o queue)
<1> DEFINE w == written[f]
           h == IF log = 0 THEN <<>> ELSE <<log>>
           n == Len(w)
           m == Len(h)
           s == w \o h \o queue
<1>1. w \in Seq(Line) /\ h \in Seq(Line) /\ queue \in Seq(Line)
  BY Ranges DEF IInv, TypeOK
<1>2. m \in Nat /\ \A i \in 1 .. m : log # 0 /\ h[i] = log /\ m = 1
  BY <1>1
<1>3. /\ n \in Nat /\ Len(queue) \in Nat /\ Len(s) = n + m + Len(queue)
      /\ \A i \in 1 .. Len(s) :
           \/ i \in 1 .. n /\ s[i] = w[i]
           \/ i - n \in 1 .. m /\ s[i] = h[i - n]
           \/ i - (n + m) \in 1 .. Len(queue) /\ s[i] = queue[i - (n + m)]
  <2> HIDE DEF w, h
  <2> QED BY <1>1
<1>4. \A i \in 1 .. Len(s) : \/ i \in 1 .. n /\ s[i] = w[i]
                             \/ i = n + 1 /\ m = 1 /\ s[i] = log /\ log # 0
                             \/ i - (n + m) \in 1 .. Len(queue) /\ s[i] = queue[i - (n + m)]
  <2> HIDE DEF w, h, s
  <2> QED BY <1>2, <1>3
<1>5. /\ \A i, j \in 1 .. n : i < j => w[i] < w[j]
      /\ \A i, j \in 1 .. Len(queue) : i < j => queue[i] < queue[j]
      /\ \A i \in 1 .. n, j \in 1 .. Len(queue) : w[i] < queue[j]
      /\ log # 0 => (\A i \in 1 .. n : w[i] < log) /\ \A j \in 1 .. Len(queue) : log < queue[j]
  BY DEF IInv, Ordered, Ascending
<1> HIDE DEF w, h, s
<1> SUFFICES ASSUME NEW i \in 1 .. Len(s), NEW j \in 1 .. Len(s), i < j
             PROVE  s[i] < s[j]
  BY DEF Ascending, s, w, h
<1>6. CASE i \in 1 .. n /\ s[i] = w[i]
  BY <1>3, <1>4, <1>5, <1>6
<1>7. CASE i = n + 1 /\ m = 1 /\ s[i] = log /\ log # 0
  <2>1. j \notin 1 .. n /\ j # n + 1
    BY <1>3, <1>7
  <2> QED BY <1>4, <1>5, <1>7, <2>1
<1>8. CASE i - (n + m) \in 1 .. Len(queue) /\ s[i] = queue[i - (n + m)]
  <2>1. j \notin 1 .. n /\ j # n + 1 /\ i - (n + m) < j - (n + m)
    BY <1>2, <1>3, <1>8
  <2> QED BY <1>4, <1>5, <1>8, <2>1
<1> QED BY <1>4, <1>6, <1>7, <1>8

(* InOrder: a file keeps the order of the calls to write_log, through the  *)
(* queue and over rotations, midnights and restarts.                       *)
THEOREM FilesInOrder == Spec => []InOrder
<1>1. IInv => InOrder
  BY OrderOfPlaces DEF InOrder
<1> QED BY <1>1, Invariance, PTL

(* OverfullByQueue: a file exceeds max_lines_ by no more than log_queue_   *)
(* holds, in each run of the server.                                       *)
THEOREM OverfullOnlyByQueue == Spec => []OverfullByQueue
<1>1. IInv => OverfullByQueue
  BY DEF IInv, Room, OverfullByQueue, Most
<1> QED BY <1>1, Invariance, PTL

-----------------------------------------------------------------------------
(* A set of at most one element is counted by whether it has one.          *)
LEMMA AtMostOne ==
  ASSUME NEW S, \A x, y \in S : x = y
  PROVE  Cardinality(S) = IF S = {} THEN 0 ELSE 1
<1>1. CASE S = {}
  BY <1>1, FS_EmptySet
<1>2. CASE S # {}
  <2>1. PICK x \in S : S = {x}
    BY <1>2
  <2> QED BY <1>2, <2>1, FS_Singleton
<1> QED BY <1>1, <1>2

(* The number of places a line is in.                                      *)
LEMMA Counting ==
  ASSUME IInv, NEW line \in Line
  PROVE  Copies(line) = IF line <= lines THEN 1 ELSE 0
<1> DEFINE W == {p \in Name \X Line : p[2] <= Len(written[p[1]]) /\ written[p[1]][p[2]] = line}
           Q == {i \in 1 .. Len(queue) : queue[i] = line}
           isWritten == \E f \in Name : \E i \in 1 .. Len(written[f]) : written[f][i] = line
           isQueued  == \E i \in 1 .. Len(queue) : queue[i] = line
<1>1. line \in Nat /\ line # 0 /\ line >= 1 /\ Line = 1 .. MaxWrites
  BY Ranges DEF Line
<1>2. ASSUME NEW f \in Name, NEW i \in 1 .. Len(written[f]) PROVE i \in Line
  BY <1>1, <1>2, Ranges
<1>3. W # {} <=> isWritten
  <2>1. ASSUME isWritten PROVE W # {}
    <3>1. PICK f \in Name : \E i \in 1 .. Len(written[f]) : written[f][i] = line
      BY <2>1
    <3>2. PICK i \in 1 .. Len(written[f]) : written[f][i] = line
      BY <3>1
    <3>3. i \in Line /\ i <= Len(written[f])
      BY <1>2, Ranges
    <3>4. <<f, i>> \in W
      BY <3>2, <3>3
    <3> QED BY <3>4
  <2>2. ASSUME W # {} PROVE isWritten
    <3>1. PICK p \in W : TRUE
      BY <2>2
    <3>2. p[1] \in Name /\ p[2] \in 1 .. Len(written[p[1]]) /\ written[p[1]][p[2]] = line
      BY <1>1, <3>1, Ranges
    <3> QED BY <3>2
  <2> QED BY <2>1, <2>2
<1>4. \A p, q \in W : p = q
  <2> SUFFICES ASSUME NEW p \in W, NEW q \in W PROVE p = q
    OBVIOUS
  <2>1. /\ p = <<p[1], p[2]>> /\ p[1] \in Name /\ p[2] \in 1 .. Len(written[p[1]])
        /\ q = <<q[1], q[2]>> /\ q[1] \in Name /\ q[2] \in 1 .. Len(written[q[1]])
        /\ written[p[1]][p[2]] = line /\ written[q[1]][q[2]] = line
    BY <1>1, Ranges
  <2>2. p[1] = q[1]
    BY <2>1 DEF IInv, Apart
  <2>3. p[2] = q[2]
    <3>1. p[2] \in Nat /\ q[2] \in Nat
      BY <2>1, Ranges
    <3>2. ~(p[2] < q[2]) /\ ~(q[2] < p[2])
      BY <1>1, <2>1, <2>2 DEF IInv, Ordered, Ascending
    <3> QED BY <3>1, <3>2
  <2> QED BY <2>1, <2>2, <2>3
<1>5. \A i, j \in Q : i = j
  <2> SUFFICES ASSUME NEW i \in Q, NEW j \in Q PROVE i = j
    OBVIOUS
  <2>1. ~(i < j) /\ ~(j < i)
    BY <1>1 DEF IInv, Ordered, Ascending
  <2> QED BY <2>1, Ranges
<1>6. Cardinality(W) = IF isWritten THEN 1 ELSE 0
  BY <1>3, <1>4, AtMostOne
<1>7. Cardinality(Q) = IF isQueued THEN 1 ELSE 0
  BY <1>5, AtMostOne
<1>8. /\ isWritten => line \notin lost /\ log # line /\ ~isQueued
      /\ isQueued => line \notin lost /\ log # line
      /\ log = line => line \notin lost
  <2>1. isWritten => line \notin lost /\ log # line /\ ~isQueued
    <3> SUFFICES ASSUME NEW f \in Name, NEW i \in 1 .. Len(written[f]), written[f][i] = line
                 PROVE  line \notin lost /\ log # line /\ ~isQueued
      OBVIOUS
    <3>1. line \notin lost
      BY DEF IInv, Apart
    <3>2. log # 0 => line < log
      BY DEF IInv, Ordered
    <3>3. \A j \in 1 .. Len(queue) : line < queue[j]
      BY DEF IInv, Ordered
    <3> QED BY <1>1, <3>1, <3>2, <3>3, Ranges
  <2>2. isQueued => line \notin lost /\ log # line
    <3> SUFFICES ASSUME NEW i \in 1 .. Len(queue), queue[i] = line
                 PROVE  line \notin lost /\ log # line
      OBVIOUS
    <3>1. log # 0 => log < line
      BY DEF IInv, Ordered
    <3> QED BY <1>1, <3>1, Ranges DEF IInv, Apart
  <2> QED BY <2>1, <2>2 DEF IInv, Apart
<1>9. line <= lines <=> (isWritten \/ isQueued \/ log = line \/ line \in lost)
  <2>1. ASSUME line <= lines PROVE isWritten \/ isQueued \/ log = line \/ line \in lost
    <3>1. line \in 1 .. lines
      BY <1>1, <2>1, Ranges
    <3> QED BY <3>1 DEF IInv, Apart
  <2>2. isWritten => line <= lines
    BY Ranges
  <2>3. (isQueued \/ log = line \/ line \in lost) => line <= lines
    BY Ranges
  <2> QED BY <2>1, <2>2, <2>3
<1>10. Copies(line) = Cardinality(W) + Cardinality(Q)
                      + (IF log = line THEN 1 ELSE 0) + (IF line \in lost THEN 1 ELSE 0)
  BY DEF Copies
<1> HIDE DEF W, Q, isWritten, isQueued
<1> QED BY <1>6, <1>7, <1>8, <1>9, <1>10

(* EachLineOnce: a line is in one file, in log_queue_, in the hand of the  *)
(* asynchronous thread or lost, and nowhere else as well.                  *)
THEOREM EveryLineOnce == Spec => []EachLineOnce
<1>1. IInv => EachLineOnce
  BY Counting DEF IInv, EachLineOnce
<1> QED BY <1>1, Invariance, PTL
=============================================================================
