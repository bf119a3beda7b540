-------------------------- MODULE WebServerProofs ---------------------------
(***************************************************************************)
(* Proofs about module WebServer, for any descriptors, workers, sessions   *)
(* and limits.                                                             *)
(***************************************************************************)
EXTENDS WebServer, Integers, FiniteSetTheorems, WellFoundedInduction, TLAPS

-----------------------------------------------------------------------------
(* Tasks.  What a task says of its thread: the call it makes next, and     *)
(* whether a call is still to come.                                        *)
In(cs, c) == \E i \in 1 .. Len(cs) : cs[i] = c
Now(j)    == IF j = Idle THEN "none" ELSE Head(j.calls)
Has(j, c) == In(j.calls, c)

Call == {"Establish", "add", "bind", "AddTimer", "AddEpoll", "AdjustTimer", "READ", "WRITE",
         "sem_post", "DelTimer", "DelEpoll", "load", "sub", "erase", "Tick", "lock"}

(* What is left of a handler at each of its calls.                         *)
AcceptPlans ==
  {Accepting, <<"add", "bind", "AddTimer", "AddEpoll">>, <<"bind", "AddTimer", "AddEpoll">>,
   <<"AddTimer", "AddEpoll">>, <<"AddEpoll">>}
HandPlans ==
  {Handing("READ"), Handing("WRITE"), <<"READ", "sem_post">>, <<"WRITE", "sem_post">>,
   <<"sem_post">>}
HangPlans ==
  {HangUpClosing, <<"DelEpoll", "erase", "load", "sub">>, <<"erase", "load", "sub">>,
   <<"load", "sub">>, <<"sub">>}
TickPlans ==
  {TickClosing, <<"load", "sub", "erase", "Tick">>, <<"sub", "erase", "Tick">>,
   <<"erase", "Tick">>, <<"Tick">>}
WorkPlans ==
  {<<"READ">>, <<"WRITE">>, WorkerClosing, <<"DelEpoll", "load", "sub", "erase">>,
   <<"load", "sub", "erase">>, <<"sub", "erase">>, <<"erase">>}
MainPlans == AcceptPlans \union HandPlans \union HangPlans \union TickPlans

WorkJobs == {Idle, Job(0, <<"lock">>)} \union {Job(f, cs) : f \in Fd, cs \in WorkPlans}
MainJobs == {Idle, Job(0, <<"Tick">>)} \union {Job(f, cs) : f \in Fd, cs \in MainPlans}

Tasks ==
  /\ DOMAIN task = Thread
  /\ \A w \in Worker : task[w] \in WorkJobs
  /\ task[Main] \in MainJobs

(* Which call follows which.                                               *)
Following(c) ==
  CASE c = "Establish"   -> {"add"}
    [] c = "add"         -> {"bind"}
    [] c = "bind"        -> {"AddTimer"}
    [] c = "AddTimer"    -> {"AddEpoll"}
    [] c = "AdjustTimer" -> {"READ", "WRITE"}
    [] c \in {"READ", "WRITE"} -> {"sem_post"}
    [] c = "DelTimer"    -> {"DelEpoll"}
    [] c = "DelEpoll"    -> {"load", "erase"}
    [] c = "load"        -> {"sub"}
    [] c = "sub"         -> {"erase"}
    [] c = "erase"       -> {"load", "Tick"}
    [] OTHER             -> {}
Last == {"AddEpoll", "READ", "WRITE", "sem_post", "sub", "erase", "Tick", "lock"}

(* What all plans have in common.                                          *)
Plan(cs) ==
  /\ cs \in Seq(Call) /\ cs # <<>>
  /\ Len(cs) = 1 <=> Tail(cs) = <<>>
  /\ IF Tail(cs) = <<>> THEN Head(cs) \in Last ELSE Head(Tail(cs)) \in Following(Head(cs))
  /\ \A c : In(Tail(cs), c) <=> In(cs, c) /\ c # Head(cs)
  /\ In(cs, "DelEpoll") <=> Head(cs) \in {"DelTimer", "DelEpoll"}
  /\ In(cs, "erase") => Head(cs) \in {"DelTimer", "DelEpoll", "load", "sub", "erase"}
  /\ In(cs, "sub") => Head(cs) \in {"DelTimer", "DelEpoll", "load", "sub", "erase"}
  /\ In(cs, "Tick") => Head(cs) \in {"DelEpoll", "load", "sub", "erase", "Tick"}
  /\ Head(cs) \in {"DelTimer", "DelEpoll", "erase"} => In(cs, "erase")
  /\ Head(cs) \in {"DelTimer", "DelEpoll", "load", "sub"} => In(cs, "sub")
  /\ Head(cs) = "Tick" => In(cs, "Tick")

Row(cs, n, rest) ==
  /\ cs \in Seq(Call) /\ cs # <<>>
  /\ Head(cs) = n /\ Tail(cs) = rest /\ (Len(cs) = 1 <=> rest = <<>>)

(* The calls of a row: the one at its head and those of the rest.          *)
LEMMA InRow ==
  ASSUME NEW cs, NEW n, NEW rest, Row(cs, n, rest), NEW c
  PROVE  In(cs, c) <=> c = n \/ In(rest, c)
<1>1. /\ Len(cs) \in Nat \ {0} /\ Len(rest) = Len(cs) - 1 /\ cs[1] = n
      /\ \A i \in 1 .. Len(rest) : rest[i] = cs[i + 1]
  BY DEF Row
<1>2. ASSUME In(cs, c), c # n PROVE In(rest, c)
  <2>1. PICK i \in 1 .. Len(cs) : cs[i] = c
    BY <1>2 DEF In
  <2>2. i - 1 \in 1 .. Len(rest) /\ rest[i - 1] = c
    BY <2>1, <1>1, <1>2
  <2> QED BY <2>2 DEF In
<1>3. ASSUME In(rest, c) PROVE In(cs, c)
  <2>1. PICK i \in 1 .. Len(rest) : rest[i] = c
    BY <1>3 DEF In
  <2>2. i + 1 \in 1 .. Len(cs) /\ cs[i + 1] = c
    BY <2>1, <1>1
  <2> QED BY <2>2 DEF In
<1>4. In(cs, n)
  <2>1. 1 \in 1 .. Len(cs)
    BY <1>1
  <2> QED BY <2>1, <1>1 DEF In
<1> QED BY <1>2, <1>3, <1>4

(* A call in front of a plan.                                              *)
LEMMA PlanRow ==
  ASSUME NEW cs, NEW n, NEW rest, Row(cs, n, rest), Plan(rest), ~In(rest, n),
         Head(rest) \in Following(n), In(rest, "DelEpoll") <=> n = "DelTimer",
         In(rest, "erase") => n \in {"DelTimer", "DelEpoll", "load", "sub"},
         In(rest, "sub") => n \in {"DelTimer", "DelEpoll", "load", "erase"},
         In(rest, "Tick") => n \in {"DelEpoll", "load", "sub", "erase"},
         n \in {"DelTimer", "DelEpoll"} => In(rest, "erase") /\ In(rest, "sub"),
         n = "load" => In(rest, "sub")
  PROVE  Plan(cs) /\ \A c : In(cs, c) <=> c = n \/ In(rest, c)
<1>1. \A c : In(cs, c) <=> c = n \/ In(rest, c)
  BY InRow
<1>2. rest # <<>>
  BY DEF Plan
<1> QED BY <1>1, <1>2 DEF Plan, Row

(* The last call of a plan.                                                *)
LEMMA LastRow ==
  ASSUME NEW c \in Last
  PROVE  Plan(<<c>>) /\ Row(<<c>>, c, <<>>) /\ \A d : In(<<c>>, d) <=> d = c
<1>1. Row(<<c>>, c, <<>>)
  BY DEF Row, Call, Last
<1>2. \A d : ~In(<<>>, d)
  BY DEF In
<1>3. \A d : In(<<c>>, d) <=> d = c
  BY <1>1, <1>2, InRow
<1> QED BY <1>1, <1>2, <1>3 DEF Plan, Row, Last

(* Accepting a connection is a plan at each of its points.                 *)
LEMMA AcceptPlan ==
  ASSUME NEW cs \in AcceptPlans
  PROVE  /\ Plan(cs) /\ (Tail(cs) = <<>> \/ Tail(cs) \in AcceptPlans)
         /\ Head(cs) \in {"Establish", "add", "bind", "AddTimer", "AddEpoll"}
<1>1. /\ Row(<<"AddTimer", "AddEpoll">>, "AddTimer", <<"AddEpoll">>)
      /\ Row(<<"bind", "AddTimer", "AddEpoll">>, "bind", <<"AddTimer", "AddEpoll">>)
      /\ Row(<<"add", "bind", "AddTimer", "AddEpoll">>, "add", <<"bind", "AddTimer", "AddEpoll">>)
      /\ Row(Accepting, "Establish", <<"add", "bind", "AddTimer", "AddEpoll">>)
  BY DEF Row, Call, Accepting
<1>2. /\ "AddEpoll" \in Following("AddTimer") /\ "AddTimer" \in Following("bind")
      /\ "bind" \in Following("add") /\ "add" \in Following("Establish")
  BY DEF Following
<1>3. Plan(<<"AddEpoll">>) /\ Row(<<"AddEpoll">>, "AddEpoll", <<>>) /\ \A c : In(<<"AddEpoll">>, c) <=> c = "AddEpoll"
  BY LastRow DEF Last
<1>4. /\ Plan(<<"AddTimer", "AddEpoll">>)
      /\ \A c : In(<<"AddTimer", "AddEpoll">>, c) <=> c = "AddTimer" \/ In(<<"AddEpoll">>, c)
  BY <1>1, <1>2, <1>3, PlanRow
<1>5. /\ Plan(<<"bind", "AddTimer", "AddEpoll">>)
      /\ \A c : In(<<"bind", "AddTimer", "AddEpoll">>, c)
                   <=> c = "bind" \/ In(<<"AddTimer", "AddEpoll">>, c)
  BY <1>1, <1>2, <1>3, <1>4, PlanRow
<1>6. /\ Plan(<<"add", "bind", "AddTimer", "AddEpoll">>)
      /\ \A c : In(<<"add", "bind", "AddTimer", "AddEpoll">>, c)
                   <=> c = "add" \/ In(<<"bind", "AddTimer", "AddEpoll">>, c)
  BY <1>1, <1>2, <1>3, <1>4, <1>5, PlanRow
<1>7. Plan(Accepting)
  BY <1>1, <1>2, <1>3, <1>4, <1>5, <1>6, PlanRow
<1> QED BY <1>1, <1>3, <1>4, <1>5, <1>6, <1>7 DEF AcceptPlans, Row

(* Handing a connection to a worker is a plan at each of its points.       *)
LEMMA HandPlan ==
  ASSUME NEW cs \in HandPlans
  PROVE  /\ Plan(cs) /\ (Tail(cs) = <<>> \/ Tail(cs) \in HandPlans)
         /\ Head(cs) \in {"AdjustTimer", "READ", "WRITE", "sem_post"}
         /\ Head(cs) \in {"READ", "WRITE"} => Tail(cs) # <<>>
<1>1. Plan(<<"sem_post">>) /\ Row(<<"sem_post">>, "sem_post", <<>>)
      /\ \A c : In(<<"sem_post">>, c) <=> c = "sem_post"
  BY LastRow DEF Last
<1>2. ASSUME NEW m \in {"READ", "WRITE"}
      PROVE  /\ Plan(Handing(m)) /\ Row(Handing(m), "AdjustTimer", <<m, "sem_post">>)
             /\ Plan(<<m, "sem_post">>) /\ Row(<<m, "sem_post">>, m, <<"sem_post">>)
  <2>1. /\ Row(<<m, "sem_post">>, m, <<"sem_post">>)
        /\ Row(Handing(m), "AdjustTimer", <<m, "sem_post">>)
    BY DEF Row, Call, Handing
  <2>2. "sem_post" \in Following(m) /\ m \in Following("AdjustTimer")
    BY DEF Following
  <2>3. Plan(<<m, "sem_post">>) /\ \A c : In(<<m, "sem_post">>, c) <=> c = m \/ In(<<"sem_post">>, c)
    BY <1>1, <2>1, <2>2, PlanRow
  <2>4. Head(<<m, "sem_post">>) \in Following("AdjustTimer")
    BY <2>1, <2>2 DEF Row
  <2>5. Plan(Handing(m))
    BY <1>1, <2>1, <2>3, <2>4, PlanRow
  <2> QED BY <2>1, <2>3, <2>5
<1> QED BY <1>1, <1>2 DEF HandPlans, Row

(* So is closing the connection that hung up, which is not Tick's.         *)
LEMMA HangPlan ==
  ASSUME NEW cs \in HangPlans
  PROVE  /\ Plan(cs) /\ (Tail(cs) = <<>> \/ Tail(cs) \in HangPlans)
         /\ Head(cs) \in {"DelTimer", "DelEpoll", "erase", "load", "sub"} /\ ~In(cs, "Tick")
<1>1. /\ Row(<<"load", "sub">>, "load", <<"sub">>)
      /\ Row(<<"erase", "load", "sub">>, "erase", <<"load", "sub">>)
      /\ Row(<<"DelEpoll", "erase", "load", "sub">>, "DelEpoll", <<"erase", "load", "sub">>)
      /\ Row(HangUpClosing, "DelTimer", <<"DelEpoll", "erase", "load", "sub">>)
  BY DEF Row, Call, HangUpClosing
<1>2. /\ "sub" \in Following("load") /\ "load" \in Following("erase")
      /\ "erase" \in Following("DelEpoll") /\ "DelEpoll" \in Following("DelTimer")
  BY DEF Following
<1>3. Plan(<<"sub">>) /\ Row(<<"sub">>, "sub", <<>>) /\ \A c : In(<<"sub">>, c) <=> c = "sub"
  BY LastRow DEF Last
<1>4. Plan(<<"load", "sub">>) /\ \A c : In(<<"load", "sub">>, c) <=> c = "load" \/ In(<<"sub">>, c)
  BY <1>1, <1>2, <1>3, PlanRow
<1>5. /\ Plan(<<"erase", "load", "sub">>)
      /\ \A c : In(<<"erase", "load", "sub">>, c) <=> c = "erase" \/ In(<<"load", "sub">>, c)
  BY <1>1, <1>2, <1>3, <1>4, PlanRow
<1>6. /\ Plan(<<"DelEpoll", "erase", "load", "sub">>)
      /\ \A c : In(<<"DelEpoll", "erase", "load", "sub">>, c)
                   <=> c = "DelEpoll" \/ In(<<"erase", "load", "sub">>, c)
  BY <1>1, <1>2, <1>3, <1>4, <1>5, PlanRow
<1>7. /\ Plan(HangUpClosing)
      /\ \A c : In(HangUpClosing, c) <=> c = "DelTimer" \/ In(<<"DelEpoll", "erase", "load", "sub">>, c)
  BY <1>1, <1>2, <1>3, <1>4, <1>5, <1>6, PlanRow
<1> QED BY <1>1, <1>3, <1>4, <1>5, <1>6, <1>7 DEF HangPlans, Row

(* So is what Tick does with a connection that expired.                    *)
LEMMA TickPlan ==
  ASSUME NEW cs \in TickPlans
  PROVE  /\ Plan(cs) /\ (Tail(cs) = <<>> \/ Tail(cs) \in TickPlans)
         /\ Head(cs) \in {"DelEpoll", "load", "sub", "erase", "Tick"} /\ In(cs, "Tick")
<1>1. /\ Row(<<"erase", "Tick">>, "erase", <<"Tick">>)
      /\ Row(<<"sub", "erase", "Tick">>, "sub", <<"erase", "Tick">>)
      /\ Row(<<"load", "sub", "erase", "Tick">>, "load", <<"sub", "erase", "Tick">>)
      /\ Row(TickClosing, "DelEpoll", <<"load", "sub", "erase", "Tick">>)
  BY DEF Row, Call, TickClosing
<1>2. /\ "Tick" \in Following("erase") /\ "erase" \in Following("sub")
      /\ "sub" \in Following("load") /\ "load" \in Following("DelEpoll")
  BY DEF Following
<1>3. Plan(<<"Tick">>) /\ Row(<<"Tick">>, "Tick", <<>>) /\ \A c : In(<<"Tick">>, c) <=> c = "Tick"
  BY LastRow DEF Last
<1>4. /\ Plan(<<"erase", "Tick">>)
      /\ \A c : In(<<"erase", "Tick">>, c) <=> c = "erase" \/ In(<<"Tick">>, c)
  BY <1>1, <1>2, <1>3, PlanRow
<1>5. /\ Plan(<<"sub", "erase", "Tick">>)
      /\ \A c : In(<<"sub", "erase", "Tick">>, c) <=> c = "sub" \/ In(<<"erase", "Tick">>, c)
  BY <1>1, <1>2, <1>3, <1>4, PlanRow
<1>6. /\ Plan(<<"load", "sub", "erase", "Tick">>)
      /\ \A c : In(<<"load", "sub", "erase", "Tick">>, c)
                   <=> c = "load" \/ In(<<"sub", "erase", "Tick">>, c)
  BY <1>1, <1>2, <1>3, <1>4, <1>5, PlanRow
<1>7. /\ Plan(TickClosing)
      /\ \A c : In(TickClosing, c) <=> c = "DelEpoll" \/ In(<<"load", "sub", "erase", "Tick">>, c)
  BY <1>1, <1>2, <1>3, <1>4, <1>5, <1>6, PlanRow
<1> QED BY <1>1, <1>3, <1>4, <1>5, <1>6, <1>7 DEF TickPlans, Row

(* So is what a worker does with a connection, up to closing it.           *)
LEMMA WorkPlan ==
  ASSUME NEW cs \in WorkPlans
  PROVE  /\ Plan(cs) /\ (Tail(cs) = <<>> \/ Tail(cs) \in WorkPlans)
         /\ Head(cs) \in {"READ", "WRITE", "DelTimer", "DelEpoll", "load", "sub", "erase"}
         /\ ~In(cs, "Tick")
         /\ Head(cs) \in {"load", "sub"} => In(cs, "erase")
         /\ Head(cs) = "erase" => Tail(cs) = <<>>
<1>1. /\ Row(<<"sub", "erase">>, "sub", <<"erase">>)
      /\ Row(<<"load", "sub", "erase">>, "load", <<"sub", "erase">>)
      /\ Row(<<"DelEpoll", "load", "sub", "erase">>, "DelEpoll", <<"load", "sub", "erase">>)
      /\ Row(WorkerClosing, "DelTimer", <<"DelEpoll", "load", "sub", "erase">>)
  BY DEF Row, Call, WorkerClosing
<1>2. /\ "erase" \in Following("sub") /\ "sub" \in Following("load")
      /\ "load" \in Following("DelEpoll") /\ "DelEpoll" \in Following("DelTimer")
  BY DEF Following
<1>3. \A c \in {"READ", "WRITE", "erase"} :
        Plan(<<c>>) /\ Row(<<c>>, c, <<>>) /\ \A d : In(<<c>>, d) <=> d = c
  BY LastRow DEF Last
<1>4. Plan(<<"sub", "erase">>) /\ \A c : In(<<"sub", "erase">>, c) <=> c = "sub" \/ In(<<"erase">>, c)
  BY <1>1, <1>2, <1>3, PlanRow
<1>5. /\ Plan(<<"load", "sub", "erase">>)
      /\ \A c : In(<<"load", "sub", "erase">>, c) <=> c = "load" \/ In(<<"sub", "erase">>, c)
  BY <1>1, <1>2, <1>3, <1>4, PlanRow
<1>6. /\ Plan(<<"DelEpoll", "load", "sub", "erase">>)
      /\ \A c : In(<<"DelEpoll", "load", "sub", "erase">>, c)
                   <=> c = "DelEpoll" \/ In(<<"load", "sub", "erase">>, c)
  BY <1>1, <1>2, <1>3, <1>4, <1>5, PlanRow
<1>7. /\ Plan(WorkerClosing)
      /\ \A c : In(WorkerClosing, c)
                   <=> c = "DelTimer" \/ In(<<"DelEpoll", "load", "sub", "erase">>, c)
  BY <1>1, <1>2, <1>3, <1>4, <1>5, <1>6, PlanRow
<1> QED BY <1>1, <1>3, <1>4, <1>5, <1>6, <1>7 DEF WorkPlans, Row

(* The same of the tasks.                                                  *)
Shape(j) ==
  /\ Now(j) \in Call \union {"none"} /\ (Now(j) = "none" <=> j = Idle)
  /\ j.fd \in Fd \/ (j.fd = 0 /\ Now(j) \in {"none", "lock", "Tick"})
  /\ Now(j) \in {"none", "lock"} => j.fd = 0
  /\ Has(j, "DelEpoll") <=> Now(j) \in {"DelTimer", "DelEpoll"}
  /\ Has(j, "erase") => Now(j) \in {"DelTimer", "DelEpoll", "load", "sub", "erase"}
  /\ Has(j, "sub") => Now(j) \in {"DelTimer", "DelEpoll", "load", "sub", "erase"}
  /\ Has(j, "Tick") => Now(j) \in {"DelEpoll", "load", "sub", "erase", "Tick"}
  /\ Now(j) \in {"DelTimer", "DelEpoll", "erase"} => Has(j, "erase")
  /\ Now(j) \in {"DelTimer", "DelEpoll", "load", "sub"} => Has(j, "sub")
  /\ Now(j) = "Tick" => Has(j, "Tick")

(* A task that follows a plan is at the head of the plan.                  *)
LEMMA JobShape ==
  ASSUME NEW f, NEW cs, Plan(cs)
  PROVE  /\ Job(f, cs) # Idle /\ Job(f, cs).fd = f /\ Job(f, cs).calls = cs
         /\ Now(Job(f, cs)) = Head(cs) /\ Head(cs) \in Call
         /\ \A c : Has(Job(f, cs), c) <=> In(cs, c)
<1>1. Job(f, cs).fd = f /\ Job(f, cs).calls = cs
  BY DEF Job
<1>2. cs # <<>> /\ Head(cs) \in Call
  BY DEF Plan
<1>3. Job(f, cs) # Idle
  BY <1>1, <1>2 DEF Idle
<1> QED BY <1>1, <1>2, <1>3 DEF Now, Has

(* A thread without a task is at no call and has none left.                *)
LEMMA IdleShape == Now(Idle) = "none" /\ Idle.fd = 0 /\ \A c : ~Has(Idle, c)
BY DEF Idle, Now, Has, In

(* A worker is never in Tick and is at one of the worker's calls.          *)
LEMMA WorkShape ==
  ASSUME NEW j \in WorkJobs
  PROVE  /\ Shape(j) /\ ~Has(j, "Tick")
         /\ Now(j) \in {"none", "lock", "READ", "WRITE", "DelTimer", "DelEpoll", "load", "sub", "erase"}
         /\ Now(j) \in {"load", "sub"} => Has(j, "erase")
         /\ j # Idle => Plan(j.calls)
<1>1. CASE j = Idle
  BY <1>1, IdleShape DEF Shape
<1>2. CASE j = Job(0, <<"lock">>)
  <2>1. Plan(<<"lock">>) /\ Row(<<"lock">>, "lock", <<>>) /\ \A c : In(<<"lock">>, c) <=> c = "lock"
    BY LastRow DEF Last
  <2>2. /\ j # Idle /\ j.fd = 0 /\ Now(j) = "lock" /\ j.calls = <<"lock">>
        /\ \A c : Has(j, c) <=> c = "lock"
    BY <1>2, <2>1, JobShape DEF Row
  <2> QED BY <2>1, <2>2 DEF Shape, Call
<1>3. CASE \E f \in Fd, cs \in WorkPlans : j = Job(f, cs)
  <2>1. PICK f \in Fd, cs \in WorkPlans : j = Job(f, cs)
    BY <1>3
  <2>2. /\ Plan(cs) /\ ~In(cs, "Tick")
        /\ Head(cs) \in {"READ", "WRITE", "DelTimer", "DelEpoll", "load", "sub", "erase"}
        /\ Head(cs) \in {"load", "sub"} => In(cs, "erase")
    BY WorkPlan
  <2>3. /\ j # Idle /\ j.fd = f /\ Now(j) = Head(cs) /\ j.calls = cs
        /\ \A c : Has(j, c) <=> In(cs, c)
    BY <2>1, <2>2, JobShape
  <2>4. Shape(j)
    BY <2>2, <2>3 DEF Shape, Call, Plan
  <2>5. Plan(j.calls) /\ ~Has(j, "Tick")
    BY <2>2, <2>3
  <2>6. /\ Now(j) \in {"READ", "WRITE", "DelTimer", "DelEpoll", "load", "sub", "erase"}
        /\ Now(j) \in {"load", "sub"} => Has(j, "erase")
    BY <2>2, <2>3
  <2> QED BY <2>4, <2>5, <2>6
<1>4. j = Idle \/ j = Job(0, <<"lock">>) \/ \E f \in Fd, cs \in WorkPlans : j = Job(f, cs)
  BY DEF WorkJobs
<1> QED BY <1>1, <1>2, <1>3, <1>4

(* The main thread never waits for the queue's lock.                       *)
LEMMA MainShape ==
  ASSUME NEW j \in MainJobs
  PROVE  /\ Shape(j) /\ Now(j) # "lock"
         /\ j # Idle => Plan(j.calls)
<1>1. CASE j = Idle
  BY <1>1, IdleShape DEF Shape
<1>2. CASE j = Job(0, <<"Tick">>)
  <2>1. Plan(<<"Tick">>) /\ Row(<<"Tick">>, "Tick", <<>>) /\ \A c : In(<<"Tick">>, c) <=> c = "Tick"
    BY LastRow DEF Last
  <2>2. /\ j # Idle /\ j.fd = 0 /\ Now(j) = "Tick" /\ j.calls = <<"Tick">>
        /\ \A c : Has(j, c) <=> c = "Tick"
    BY <1>2, <2>1, JobShape DEF Row
  <2> QED BY <2>1, <2>2 DEF Shape, Call
<1>3. CASE \E f \in Fd, cs \in MainPlans : j = Job(f, cs)
  <2>1. PICK f \in Fd, cs \in MainPlans : j = Job(f, cs)
    BY <1>3
  <2>2. /\ Plan(cs)
        /\ Head(cs) \in {"Establish", "add", "bind", "AddTimer", "AddEpoll", "AdjustTimer",
                         "READ", "WRITE", "sem_post", "DelTimer", "DelEpoll", "load", "sub",
                         "erase", "Tick"}
    BY AcceptPlan, HandPlan, HangPlan, TickPlan DEF MainPlans
  <2>3. /\ j # Idle /\ j.fd = f /\ Now(j) = Head(cs) /\ j.calls = cs
        /\ \A c : Has(j, c) <=> In(cs, c)
    BY <2>1, <2>2, JobShape
  <2> QED BY <2>2, <2>3 DEF Shape, Call, Plan
<1> QED BY <1>1, <1>2, <1>3 DEF MainJobs

(* What Done does with a task.                                             *)
Rest(j) == IF Len(j.calls) = 1 THEN Idle ELSE Job(j.fd, Tail(j.calls))

(* Done strikes the call out of the task and ends it after the last.       *)
LEMMA RestShape ==
  ASSUME NEW j, Plan(j.calls), j # Idle
  PROVE  /\ \A c : Has(Rest(j), c) <=> Has(j, c) /\ c # Now(j)
         /\ \/ Rest(j) = Idle /\ Now(j) \in Last
            \/ Rest(j).fd = j.fd /\ Now(Rest(j)) \in Following(Now(j))
<1> DEFINE cs == j.calls
<1>1. /\ Now(j) = Head(cs) /\ \A c : Has(j, c) <=> In(cs, c)
  BY DEF Now, Has
<1>2. /\ Len(cs) = 1 <=> Tail(cs) = <<>>
      /\ IF Tail(cs) = <<>> THEN Head(cs) \in Last ELSE Head(Tail(cs)) \in Following(Head(cs))
      /\ \A c : In(Tail(cs), c) <=> In(cs, c) /\ c # Head(cs)
  BY DEF Plan
<1> HIDE DEF cs
<1>3. CASE Tail(cs) = <<>>
  <2>1. Rest(j) = Idle
    BY <1>2, <1>3 DEF Rest, cs
  <2>2. \A c : ~In(<<>>, c)
    BY DEF In
  <2> QED BY <2>1, <2>2, <1>1, <1>2, <1>3, IdleShape
<1>4. CASE Tail(cs) # <<>>
  <2>1. Rest(j) = Job(j.fd, Tail(cs))
    BY <1>2, <1>4 DEF Rest, cs
  <2>2. Rest(j).fd = j.fd /\ Rest(j).calls = Tail(cs)
    BY <2>1 DEF Job
  <2>3. Rest(j) # Idle
    BY <2>2, <1>4 DEF Idle
  <2> QED BY <2>2, <2>3, <1>1, <1>2, <1>4 DEF Now, Has
<1> QED BY <1>3, <1>4

(* What is left of a worker's task is a worker's task.                     *)
LEMMA WorkRest ==
  ASSUME NEW j \in WorkJobs, j # Idle
  PROVE  Rest(j) \in WorkJobs
<1>1. CASE j = Job(0, <<"lock">>)
  BY <1>1 DEF Rest, Job, WorkJobs
<1>2. CASE \E f \in Fd, cs \in WorkPlans : j = Job(f, cs)
  <2>1. PICK f \in Fd, cs \in WorkPlans : j = Job(f, cs)
    BY <1>2
  <2>2. Plan(cs) /\ (Tail(cs) = <<>> \/ Tail(cs) \in WorkPlans)
    BY WorkPlan
  <2>3. j.fd = f /\ j.calls = cs
    BY <2>1 DEF Job
  <2>4. Rest(j) = IF Tail(cs) = <<>> THEN Idle ELSE Job(f, Tail(cs))
    BY <2>2, <2>3 DEF Rest, Plan
  <2> QED BY <2>2, <2>4 DEF WorkJobs
<1> QED BY <1>1, <1>2 DEF WorkJobs

(* What is left of a task of the main thread is one; sem_post follows the  *)
(* hand-over.                                                              *)
LEMMA MainRest ==
  ASSUME NEW j \in MainJobs, j # Idle
  PROVE  /\ Rest(j) \in MainJobs
         /\ Now(j) \in {"READ", "WRITE"} => Now(Rest(j)) = "sem_post"
<1>1. CASE j = Job(0, <<"Tick">>)
  BY <1>1 DEF Rest, Job, MainJobs, Now, Idle
<1>2. CASE \E f \in Fd, cs \in MainPlans : j = Job(f, cs)
  <2>1. PICK f \in Fd, cs \in MainPlans : j = Job(f, cs)
    BY <1>2
  <2>2. /\ Plan(cs) /\ (Tail(cs) = <<>> \/ Tail(cs) \in MainPlans)
        /\ Head(cs) \in {"READ", "WRITE"} => Tail(cs) # <<>>
    BY AcceptPlan, HandPlan, HangPlan, TickPlan DEF MainPlans
  <2>3. j.fd = f /\ j.calls = cs
    BY <2>1 DEF Job
  <2>4. Rest(j) = IF Tail(cs) = <<>> THEN Idle ELSE Job(f, Tail(cs))
    BY <2>2, <2>3 DEF Rest, Plan
  <2>5. Now(j) \in {"READ", "WRITE"} => Now(Rest(j)) = "sem_post"
    <3>1. Now(j) = Head(cs)
      BY <2>3 DEF Now
    <3>2. Tail(cs) # <<>> => Job(f, Tail(cs)) # Idle
      BY DEF Job, Idle
    <3>3. Now(j) \in {"READ", "WRITE"} => Rest(j) # Idle
      BY <2>2, <2>4, <3>1, <3>2
    <3>4. Now(j) \in {"READ", "WRITE"} => Now(Rest(j)) \in Following(Now(j))
      BY <2>2, <2>3, <3>3, RestShape
    <3> QED BY <3>4 DEF Following
  <2> QED BY <2>2, <2>4, <2>5 DEF MainJobs
<1> QED BY <1>1, <1>2 DEF MainJobs

(* A thread makes a call, and goes on with what is left.                   *)
LEMMA Advance ==
  ASSUME Tasks, NEW t \in Thread, task[t] # Idle, Done(t)
  PROVE  /\ Tasks'
         /\ \A u \in Thread : u # t => task'[u] = task[u]
         /\ \A c : Has(task'[t], c) <=> Has(task[t], c) /\ c # Now(task[t])
         /\ \/ Now(task'[t]) = "none" /\ task'[t].fd = 0 /\ Now(task[t]) \in Last
            \/ task'[t].fd = task[t].fd /\ Now(task'[t]) \in Following(Now(task[t]))
         /\ t = Main /\ Now(task[t]) \in {"READ", "WRITE"} => Now(task'[t]) = "sem_post"
<1>1. task' = [task EXCEPT ![t] = Rest(task[t])]
  BY DEF Done, Start, Rest
<1>2. task'[t] = Rest(task[t]) /\ \A u \in Thread : u # t => task'[u] = task[u]
  BY <1>1 DEF Tasks
<1>3. CASE t = Main
  BY <1>1, <1>2, <1>3, MainShape, MainRest, RestShape, IdleShape, ThreadAssumption DEF Tasks, Thread
<1>4. CASE t \in Worker
  BY <1>1, <1>2, <1>4, WorkShape, WorkRest, RestShape, IdleShape, ThreadAssumption DEF Tasks, Thread
<1> QED BY <1>3, <1>4 DEF Thread

(* A thread begins a task.                                                 *)
LEMMA Begin ==
  ASSUME Tasks, NEW t \in Thread, NEW j, Start(t, j),
         t = Main => j \in MainJobs, t # Main => j \in WorkJobs
  PROVE  Tasks' /\ task'[t] = j /\ \A u \in Thread : u # t => task'[u] = task[u]
BY ThreadAssumption DEF Tasks, Thread, Start

(* The guards of the actions, and what the properties ask of a task.       *)
LEMMA Reading ==
  ASSUME Tasks, NEW t \in Thread
  PROVE  /\ Shape(task[t])
         /\ \A c : At(t, c) <=> task[t] # Idle /\ Now(task[t]) = c
         /\ \A cs : AtAny(t, cs) <=> task[t] # Idle /\ Now(task[t]) \in cs
         /\ \A c : c \in Calls(t) <=> Has(task[t], c)
<1>1. Shape(task[t])
  BY WorkShape, MainShape DEF Tasks, Thread
<1> QED BY <1>1 DEF At, AtAny, Now, Calls, Has, In

-----------------------------------------------------------------------------
(* What the tasks come to: whom each thread serves, whose descriptor it is *)
(* about to close, whom it has yet to unbind, and so on; 0 is nobody.      *)
ServedBy(j)   == IF Now(j) \in {"AdjustTimer", "READ", "WRITE", "DelTimer", "DelEpoll"}
                    /\ ~Has(j, "Tick") THEN j.fd ELSE 0
LeftBy(j)     == IF Now(j) = "DelEpoll" THEN j.fd ELSE 0
UnboundBy(j)  == IF Has(j, "erase") /\ ~Has(j, "DelEpoll") THEN j.fd ELSE 0
SubtractBy(j) == Has(j, "sub") /\ ~Has(j, "DelEpoll")
UpdateBy(j)   == Now(j) \in {"add", "sub"}
OpenCalls     == {"Establish", "add", "bind", "AddTimer", "AddEpoll"}

Server   == [t \in Thread |-> ServedBy(task[t])]
Leaver   == [t \in Thread |-> LeftBy(task[t])]
Unbinder == [t \in Thread |-> UnboundBy(task[t])]
Subs     == {t \in Thread : SubtractBy(task[t])}
Updaters == {t \in Thread : UpdateBy(task[t])}
Lockers  == {w \in Worker : Now(task[w]) = "lock"}
Posts    == IF Now(task[Main]) = "sem_post" THEN 1 ELSE 0
OpenCall == IF Now(task[Main]) \in OpenCalls THEN Now(task[Main]) ELSE "none"
OpenFd   == IF Now(task[Main]) \in OpenCalls THEN task[Main].fd ELSE 0

(* A thread's next task changes them in its own place.                     *)
LEMMA Digest ==
  ASSUME NEW t \in Thread, \A u \in Thread : u # t => task'[u] = task[u]
  PROVE  /\ Server' = [Server EXCEPT ![t] = ServedBy(task'[t])]
         /\ Leaver' = [Leaver EXCEPT ![t] = LeftBy(task'[t])]
         /\ Unbinder' = [Unbinder EXCEPT ![t] = UnboundBy(task'[t])]
         /\ Subs' = IF SubtractBy(task'[t]) THEN Subs \union {t} ELSE Subs \ {t}
         /\ Updaters' = IF UpdateBy(task'[t]) THEN Updaters \union {t} ELSE Updaters \ {t}
         /\ t = Main => Lockers' = Lockers
         /\ t # Main => /\ UNCHANGED <<Posts, OpenCall, OpenFd>>
                        /\ Lockers' = IF Now(task'[t]) = "lock" THEN Lockers \union {t} ELSE Lockers \ {t}
<1>1. Server' = [Server EXCEPT ![t] = ServedBy(task'[t])]
  BY DEF Server
<1>2. Leaver' = [Leaver EXCEPT ![t] = LeftBy(task'[t])]
  BY DEF Leaver
<1>3. Unbinder' = [Unbinder EXCEPT ![t] = UnboundBy(task'[t])]
  BY DEF Unbinder
<1>4. Subs' = IF SubtractBy(task'[t]) THEN Subs \union {t} ELSE Subs \ {t}
  BY DEF Subs
<1>5. Updaters' = IF UpdateBy(task'[t]) THEN Updaters \union {t} ELSE Updaters \ {t}
  BY DEF Updaters
<1>6. t = Main => Lockers' = Lockers
  BY ThreadAssumption DEF Lockers, Thread
<1>7. t # Main => /\ UNCHANGED <<Posts, OpenCall, OpenFd>>
                  /\ Lockers' = IF Now(task'[t]) = "lock" THEN Lockers \union {t} ELSE Lockers \ {t}
  BY DEF Posts, OpenCall, OpenFd, Lockers, Thread
<1> QED BY <1>1, <1>2, <1>3, <1>4, <1>5, <1>6, <1>7

(* What they are for a thread that is at a call.                           *)
LEMMA AtCall ==
  ASSUME Tasks, NEW t \in Thread
  PROVE  LET c == Now(task[t])
             f == task[t].fd
         IN  /\ Server[t] = IF c \in {"AdjustTimer", "READ", "WRITE", "DelTimer"} THEN f
                            ELSE IF c = "DelEpoll" /\ ~Has(task[t], "Tick") THEN f ELSE 0
             /\ Leaver[t] = IF c = "DelEpoll" THEN f ELSE 0
             /\ Unbinder[t] = IF Has(task[t], "erase") /\ c \notin {"DelTimer", "DelEpoll"}
                              THEN f ELSE 0
             /\ t \in Subs <=> Has(task[t], "sub") /\ c \notin {"DelTimer", "DelEpoll"}
             /\ t \in Updaters <=> c \in {"add", "sub"}
             /\ Shape(task[t])
             /\ t = Main => /\ Posts = IF c = "sem_post" THEN 1 ELSE 0
                            /\ c \in OpenCalls => OpenCall = c /\ OpenFd = f
                            /\ c \notin OpenCalls => OpenCall = "none" /\ OpenFd = 0
             /\ t # Main => (t \in Lockers <=> c = "lock") /\ ~Has(task[t], "Tick")
<1>1. Shape(task[t]) /\ (t # Main => ~Has(task[t], "Tick"))
  BY WorkShape, MainShape DEF Tasks, Thread
<1>2. /\ Server[t] = ServedBy(task[t]) /\ Leaver[t] = LeftBy(task[t])
      /\ Unbinder[t] = UnboundBy(task[t])
      /\ t \in Subs <=> SubtractBy(task[t])
      /\ t \in Updaters <=> UpdateBy(task[t])
  BY DEF Server, Leaver, Unbinder, Subs, Updaters
<1>3. Server[t] = IF Now(task[t]) \in {"AdjustTimer", "READ", "WRITE", "DelTimer"} THEN task[t].fd
                  ELSE IF Now(task[t]) = "DelEpoll" /\ ~Has(task[t], "Tick") THEN task[t].fd ELSE 0
  BY <1>1, <1>2 DEF Shape, ServedBy
<1>4. /\ Leaver[t] = IF Now(task[t]) = "DelEpoll" THEN task[t].fd ELSE 0
      /\ Unbinder[t] = IF Has(task[t], "erase") /\ Now(task[t]) \notin {"DelTimer", "DelEpoll"}
                       THEN task[t].fd ELSE 0
      /\ t \in Subs <=> Has(task[t], "sub") /\ Now(task[t]) \notin {"DelTimer", "DelEpoll"}
      /\ t \in Updaters <=> Now(task[t]) \in {"add", "sub"}
  BY <1>1, <1>2 DEF Shape, LeftBy, UnboundBy, SubtractBy, UpdateBy
<1>5. t = Main => /\ Posts = IF Now(task[t]) = "sem_post" THEN 1 ELSE 0
                  /\ Now(task[t]) \in OpenCalls => OpenCall = Now(task[t]) /\ OpenFd = task[t].fd
                  /\ Now(task[t]) \notin OpenCalls => OpenCall = "none" /\ OpenFd = 0
  BY DEF Posts, OpenCall, OpenFd
<1>6. t # Main => (t \in Lockers <=> Now(task[t]) = "lock")
  BY DEF Lockers, Thread
<1> QED BY <1>1, <1>3, <1>4, <1>5, <1>6

(* What becomes of them when the thread makes the call.                    *)
LEMMA Called ==
  ASSUME Tasks, NEW t \in Thread, task[t] # Idle, Done(t)
  PROVE  LET c == Now(task[t])
             f == task[t].fd
         IN  /\ Server' = IF c \in {"READ", "WRITE", "DelEpoll"} THEN [Server EXCEPT ![t] = 0]
                          ELSE Server
             /\ Leaver' = IF c = "DelTimer" THEN [Leaver EXCEPT ![t] = f]
                          ELSE IF c = "DelEpoll" THEN [Leaver EXCEPT ![t] = 0] ELSE Leaver
             /\ Unbinder' = IF c = "DelEpoll" THEN [Unbinder EXCEPT ![t] = f]
                            ELSE IF c = "erase" THEN [Unbinder EXCEPT ![t] = 0] ELSE Unbinder
             /\ Subs' = IF c = "DelEpoll" THEN Subs \union {t}
                        ELSE IF c = "sub" THEN Subs \ {t} ELSE Subs
             /\ Updaters' = IF c \in {"Establish", "load"} THEN Updaters \union {t}
                            ELSE IF c \in {"add", "sub"} THEN Updaters \ {t} ELSE Updaters
             /\ Lockers' = IF c = "lock" THEN Lockers \ {t} ELSE Lockers
             /\ t # Main => UNCHANGED <<Posts, OpenCall, OpenFd>>
             /\ t = Main => /\ Posts' = IF c \in {"READ", "WRITE"} THEN 1 ELSE 0
                            /\ c \notin OpenCalls \ {"AddEpoll"} => OpenCall' = "none" /\ OpenFd' = 0
                            /\ c \in OpenCalls \ {"AddEpoll"} =>
                                 OpenFd' = f /\ OpenCall' \in Following(c)
             /\ Tasks'
             /\ \A u \in Thread : u # t => task'[u] = task[u]
             /\ Has(task'[t], "Tick") <=> Has(task[t], "Tick") /\ c # "Tick"
<1> DEFINE c == Now(task[t])
           f == task[t].fd
<1>1. /\ Tasks' /\ Shape(task[t])
      /\ \A u \in Thread : u # t => task'[u] = task[u]
      /\ \A d : Has(task'[t], d) <=> Has(task[t], d) /\ d # c
      /\ \/ Now(task'[t]) = "none" /\ task'[t].fd = 0 /\ c \in Last
         \/ task'[t].fd = f /\ Now(task'[t]) \in Following(c)
      /\ t = Main /\ c \in {"READ", "WRITE"} => Now(task'[t]) = "sem_post"
  BY Advance, AtCall
<1>2. Shape(task'[t])
  BY <1>1, WorkShape, MainShape DEF Tasks, Thread
<1> HIDE DEF c, f
<1>3. ServedBy(task'[t]) = IF c \in {"AdjustTimer", "DelTimer"} THEN f ELSE 0
  BY <1>1, <1>2 DEF ServedBy, Shape, Following, Last, c, f
<1>4. LeftBy(task'[t]) = IF c = "DelTimer" THEN f ELSE 0
  BY <1>1, <1>2 DEF LeftBy, Shape, Following, Last, c, f
<1>5. UnboundBy(task'[t]) = IF c = "erase" THEN 0 ELSE IF c = "DelEpoll" THEN f ELSE Unbinder[t]
  <2>1. Unbinder[t] = IF Has(task[t], "erase") /\ c \notin {"DelTimer", "DelEpoll"} THEN f ELSE 0
    BY AtCall DEF c, f
  <2>2. /\ Has(task'[t], "erase") <=> Has(task[t], "erase") /\ c # "erase"
        /\ Has(task'[t], "DelEpoll") <=> Has(task[t], "DelEpoll") /\ c # "DelEpoll"
        /\ Has(task'[t], "erase") => task'[t].fd = f
    BY <1>1, <1>2 DEF Shape
  <2>3. /\ Has(task[t], "DelEpoll") <=> c \in {"DelTimer", "DelEpoll"}
        /\ c \in {"DelTimer", "DelEpoll", "erase"} => Has(task[t], "erase")
    BY <1>1 DEF Shape, c
  <2> QED BY <2>1, <2>2, <2>3 DEF UnboundBy
<1>6. SubtractBy(task'[t]) <=> c = "DelEpoll" \/ (t \in Subs /\ c # "sub")
  <2>1. t \in Subs <=> Has(task[t], "sub") /\ c \notin {"DelTimer", "DelEpoll"}
    BY AtCall DEF c
  <2>2. /\ Has(task'[t], "sub") <=> Has(task[t], "sub") /\ c # "sub"
        /\ Has(task'[t], "DelEpoll") <=> Has(task[t], "DelEpoll") /\ c # "DelEpoll"
    BY <1>1
  <2>3. /\ Has(task[t], "DelEpoll") <=> c \in {"DelTimer", "DelEpoll"}
        /\ c \in {"DelTimer", "DelEpoll"} => Has(task[t], "sub")
    BY <1>1 DEF Shape, c
  <2> QED BY <2>1, <2>2, <2>3 DEF SubtractBy
<1>7. UpdateBy(task'[t]) <=> c \in {"Establish", "load"}
  BY <1>1, <1>2 DEF UpdateBy, Shape, Following, Last, c
<1>8. Now(task'[t]) # "lock"
  BY <1>1 DEF Following
<1>9. t = Main => /\ Now(task'[t]) = "sem_post" <=> c \in {"READ", "WRITE"}
                  /\ c \notin OpenCalls \ {"AddEpoll"} => Now(task'[t]) \notin OpenCalls
                  /\ c \in OpenCalls \ {"AddEpoll"} =>
                       Now(task'[t]) \in Following(c) /\ task'[t].fd = f
  BY <1>1 DEF Following, Last, OpenCalls
<1>10. t = Main => /\ Posts' = IF c \in {"READ", "WRITE"} THEN 1 ELSE 0
                   /\ c \notin OpenCalls \ {"AddEpoll"} => OpenCall' = "none" /\ OpenFd' = 0
                   /\ c \in OpenCalls \ {"AddEpoll"} => OpenFd' = f /\ OpenCall' \in Following(c)
  <2>1. \A d \in OpenCalls \ {"AddEpoll"} : Following(d) \subseteq OpenCalls
    BY DEF Following, OpenCalls
  <2> QED BY <1>9, <2>1 DEF Posts, OpenCall, OpenFd
<1>11. /\ Server' = [Server EXCEPT ![t] = ServedBy(task'[t])]
       /\ Leaver' = [Leaver EXCEPT ![t] = LeftBy(task'[t])]
       /\ Unbinder' = [Unbinder EXCEPT ![t] = UnboundBy(task'[t])]
       /\ Subs' = IF SubtractBy(task'[t]) THEN Subs \union {t} ELSE Subs \ {t}
       /\ Updaters' = IF UpdateBy(task'[t]) THEN Updaters \union {t} ELSE Updaters \ {t}
       /\ t = Main => Lockers' = Lockers
       /\ t # Main => /\ UNCHANGED <<Posts, OpenCall, OpenFd>>
                      /\ Lockers' = Lockers \ {t}
  BY <1>1, <1>8, Digest
<1>12. /\ Server[t] = IF c \in {"AdjustTimer", "READ", "WRITE", "DelTimer"} THEN f
                      ELSE IF c = "DelEpoll" /\ ~Has(task[t], "Tick") THEN f ELSE 0
       /\ Leaver[t] = IF c = "DelEpoll" THEN f ELSE 0
       /\ t \in Updaters <=> c \in {"add", "sub"}
       /\ t # Main => (t \in Lockers <=> c = "lock")
       /\ t = Main => c # "lock"
  BY AtCall, MainShape DEF c, f, Tasks
<1>13. /\ [Server EXCEPT ![t] = Server[t]] = Server
       /\ [Leaver EXCEPT ![t] = Leaver[t]] = Leaver
       /\ [Unbinder EXCEPT ![t] = Unbinder[t]] = Unbinder
  BY DEF Server, Leaver, Unbinder
<1>14. Server' = IF c \in {"READ", "WRITE", "DelEpoll"} THEN [Server EXCEPT ![t] = 0] ELSE Server
  BY <1>3, <1>11, <1>12, <1>13
<1>15. Leaver' = IF c = "DelTimer" THEN [Leaver EXCEPT ![t] = f]
                 ELSE IF c = "DelEpoll" THEN [Leaver EXCEPT ![t] = 0] ELSE Leaver
  BY <1>4, <1>11, <1>12, <1>13
<1>16. Unbinder' = IF c = "DelEpoll" THEN [Unbinder EXCEPT ![t] = f]
                   ELSE IF c = "erase" THEN [Unbinder EXCEPT ![t] = 0] ELSE Unbinder
  BY <1>5, <1>11, <1>13
<1>17. Subs' = IF c = "DelEpoll" THEN Subs \union {t} ELSE IF c = "sub" THEN Subs \ {t} ELSE Subs
  BY <1>6, <1>11
<1>18. Updaters' = IF c \in {"Establish", "load"} THEN Updaters \union {t}
                   ELSE IF c \in {"add", "sub"} THEN Updaters \ {t} ELSE Updaters
  BY <1>7, <1>11, <1>12
<1>19. Lockers' = IF c = "lock" THEN Lockers \ {t} ELSE Lockers
  BY <1>11, <1>12
<1> QED BY <1>1, <1>10, <1>11, <1>14, <1>15, <1>16, <1>17, <1>18, <1>19 DEF c, f

(* What they are for the tasks that are begun.                             *)
Fresh(j, c, server, leaver) ==
  /\ Now(j) = c /\ ServedBy(j) = server /\ LeftBy(j) = leaver /\ UnboundBy(j) = 0
  /\ ~SubtractBy(j) /\ ~UpdateBy(j)

(* The digests of a task that follows a plan from its beginning.           *)
LEMMA PlanFresh ==
  ASSUME NEW f, NEW cs, Plan(cs), Head(cs) \notin {"load", "sub", "erase", "add"}
  PROVE  Fresh(Job(f, cs), Head(cs),
               IF Head(cs) \in {"AdjustTimer", "READ", "WRITE", "DelTimer"} THEN f
               ELSE IF Head(cs) = "DelEpoll" /\ ~In(cs, "Tick") THEN f ELSE 0,
               IF Head(cs) = "DelEpoll" THEN f ELSE 0)
<1>1. /\ Now(Job(f, cs)) = Head(cs) /\ Job(f, cs).fd = f
      /\ \A c : Has(Job(f, cs), c) <=> In(cs, c)
  BY JobShape
<1>2. Head(cs) # "DelEpoll" /\ In(cs, "Tick") => Head(cs) \in {"Tick"}
  BY DEF Plan
<1>3. /\ In(cs, "DelEpoll") <=> Head(cs) \in {"DelTimer", "DelEpoll"}
      /\ In(cs, "erase") => Head(cs) \in {"DelTimer", "DelEpoll"}
      /\ In(cs, "sub") => Head(cs) \in {"DelTimer", "DelEpoll"}
  BY DEF Plan
<1> QED BY <1>1, <1>2, <1>3 DEF Fresh, ServedBy, LeftBy, UnboundBy, SubtractBy, UpdateBy

(* The digests of no task.                                                 *)
LEMMA IdleFresh == Idle \in MainJobs /\ Idle \in WorkJobs /\ Fresh(Idle, "none", 0, 0)
<1>1. Idle \in MainJobs /\ Idle \in WorkJobs
  BY DEF MainJobs, WorkJobs
<1>2. Fresh(Idle, "none", 0, 0)
  BY IdleShape DEF Fresh, ServedBy, LeftBy, UnboundBy, SubtractBy, UpdateBy
<1> QED BY <1>1, <1>2

(* The digests of the tasks main_loop and Tick begin with a connection.    *)
LEMMA MainFresh ==
  ASSUME NEW f \in Fd
  PROVE  /\ Job(f, Accepting) \in MainJobs /\ Fresh(Job(f, Accepting), "Establish", 0, 0)
         /\ \A m \in {"READ", "WRITE"} : /\ Job(f, Handing(m)) \in MainJobs
                                         /\ Fresh(Job(f, Handing(m)), "AdjustTimer", f, 0)
         /\ Job(f, HangUpClosing) \in MainJobs /\ Fresh(Job(f, HangUpClosing), "DelTimer", f, 0)
         /\ Job(f, TickClosing) \in MainJobs /\ Fresh(Job(f, TickClosing), "DelEpoll", 0, f)
         /\ Has(Job(f, TickClosing), "Tick")
<1>1. /\ {Accepting, Handing("READ"), Handing("WRITE"), HangUpClosing, TickClosing} \subseteq MainPlans
      /\ \A cs \in {Accepting, Handing("READ"), Handing("WRITE"), HangUpClosing, TickClosing} : Plan(cs)
  BY AcceptPlan, HandPlan, HangPlan, TickPlan DEF MainPlans, AcceptPlans, HandPlans, HangPlans, TickPlans
<1>2. /\ Head(Accepting) = "Establish" /\ Head(Handing("READ")) = "AdjustTimer"
      /\ Head(Handing("WRITE")) = "AdjustTimer" /\ Head(HangUpClosing) = "DelTimer"
      /\ Head(TickClosing) = "DelEpoll"
  BY DEF Accepting, Handing, HangUpClosing, TickClosing
<1>3. In(TickClosing, "Tick")
  BY TickPlan DEF TickPlans
<1>4. /\ Fresh(Job(f, Accepting), "Establish", 0, 0)
      /\ Fresh(Job(f, Handing("READ")), "AdjustTimer", f, 0)
      /\ Fresh(Job(f, Handing("WRITE")), "AdjustTimer", f, 0)
      /\ Fresh(Job(f, HangUpClosing), "DelTimer", f, 0)
      /\ Fresh(Job(f, TickClosing), "DelEpoll", 0, f)
  BY <1>1, <1>2, <1>3, PlanFresh
<1>5. Has(Job(f, TickClosing), "Tick")
  BY <1>1, <1>3, JobShape
<1>6. \A cs \in MainPlans : Job(f, cs) \in MainJobs
  BY DEF MainJobs
<1> QED BY <1>1, <1>4, <1>5, <1>6

(* The digests of Tick as an alarm begins it.                              *)
LEMMA TickFresh == Job(0, <<"Tick">>) \in MainJobs /\ Fresh(Job(0, <<"Tick">>), "Tick", 0, 0)
<1>1. Plan(<<"Tick">>) /\ Head(<<"Tick">>) = "Tick"
  BY LastRow DEF Last, Row
<1> QED BY <1>1, PlanFresh DEF MainJobs

(* The digests of a worker that was woken.                                 *)
LEMMA LockFresh == Job(0, <<"lock">>) \in WorkJobs /\ Fresh(Job(0, <<"lock">>), "lock", 0, 0)
<1>1. Plan(<<"lock">>) /\ Head(<<"lock">>) = "lock"
  BY LastRow DEF Last, Row
<1> QED BY <1>1, PlanFresh DEF WorkJobs

(* The digests of the tasks a worker begins with a connection.             *)
LEMMA WorkFresh ==
  ASSUME NEW f \in Fd
  PROVE  /\ \A m \in {"READ", "WRITE"} : Job(f, <<m>>) \in WorkJobs /\ Fresh(Job(f, <<m>>), m, f, 0)
         /\ Job(f, WorkerClosing) \in WorkJobs /\ Fresh(Job(f, WorkerClosing), "DelTimer", f, 0)
<1>1. /\ {<<"READ">>, <<"WRITE">>, WorkerClosing} \subseteq WorkPlans
      /\ \A cs \in {<<"READ">>, <<"WRITE">>, WorkerClosing} : Plan(cs)
  BY WorkPlan DEF WorkPlans
<1>2. Head(<<"READ">>) = "READ" /\ Head(<<"WRITE">>) = "WRITE" /\ Head(WorkerClosing) = "DelTimer"
  BY DEF WorkerClosing
<1>3. \A cs \in WorkPlans : Job(f, cs) \in WorkJobs
  BY DEF WorkJobs
<1> QED BY <1>1, <1>2, <1>3, PlanFresh

(* What becomes of them when a thread begins a task.                       *)
LEMMA Begun ==
  ASSUME Tasks, NEW t \in Thread, NEW j, Start(t, j),
         t = Main => j \in MainJobs, t # Main => j \in WorkJobs,
         NEW c, NEW server, NEW leaver, Fresh(j, c, server, leaver)
  PROVE  /\ Server' = [Server EXCEPT ![t] = server]
         /\ Leaver' = [Leaver EXCEPT ![t] = leaver]
         /\ Unbinder' = [Unbinder EXCEPT ![t] = 0]
         /\ Subs' = Subs \ {t} /\ Updaters' = Updaters \ {t}
         /\ t # Main => /\ UNCHANGED <<Posts, OpenCall, OpenFd>>
                        /\ Lockers' = IF c = "lock" THEN Lockers \union {t} ELSE Lockers \ {t}
         /\ t = Main => /\ Lockers' = Lockers /\ Posts' = IF c = "sem_post" THEN 1 ELSE 0
                        /\ c \in OpenCalls => OpenCall' = c /\ OpenFd' = j.fd
                        /\ c \notin OpenCalls => OpenCall' = "none" /\ OpenFd' = 0
         /\ Tasks' /\ task'[t] = j
         /\ \A u \in Thread : u # t => task'[u] = task[u]
<1>1. Tasks' /\ task'[t] = j /\ \A u \in Thread : u # t => task'[u] = task[u]
  BY Begin
<1>2. t = Main => /\ Posts' = IF c = "sem_post" THEN 1 ELSE 0
                  /\ c \in OpenCalls => OpenCall' = c /\ OpenFd' = j.fd
                  /\ c \notin OpenCalls => OpenCall' = "none" /\ OpenFd' = 0
  BY <1>1 DEF Posts, OpenCall, OpenFd, Fresh
<1> QED BY <1>1, <1>2, Digest DEF Fresh

-----------------------------------------------------------------------------
(* The invariant.  A connection belongs to one party at a time: a thread,  *)
(* the queue, or, being watched, epoll.                                    *)
Owned(server, q, ep, out) ==
  /\ \A t \in Thread : server[t] \in Fd => ep[server[t]] = "off" /\ server[t] \notin out
  /\ \A i \in 1 .. Len(q) : ep[q[i]] = "off" /\ q[i] \notin out
  /\ \A t, u \in Thread : server[t] = server[u] /\ server[t] \in Fd => t = u
  /\ \A i, j \in 1 .. Len(q) : q[i] = q[j] => i = j
  /\ \A i \in 1 .. Len(q), t \in Thread : server[t] # q[i]
  /\ \A f \in Fd : ep[f] = "off" /\ f \notin out =>
        (\E t \in Thread : server[t] = f) \/ \E i \in 1 .. Len(q) : q[i] = f
  /\ \A f \in out : ep[f] = "off"

Owning(server, q, ep, out) ==
  /\ server \in [Thread -> Fd \union {0}] /\ q \in Seq(Fd)
  /\ ep \in [Fd -> {"none", "in", "out", "off"}] /\ out \subseteq Fd
  /\ Owned(server, q, ep, out)

(* What a step may do with a connection: each keeps it with one party.     *)
LEMMA OwnedByThread ==
  ASSUME NEW server, NEW q, NEW ep, NEW out, Owning(server, q, ep, out),
         NEW t \in Thread, server[t] = 0, NEW f \in Fd, ep[f] \in {"in", "out"}
  PROVE  Owned([server EXCEPT ![t] = f], q, [ep EXCEPT ![f] = "off"], out)
BY FdAssumption DEF Owned, Owning

(* The server of a connection puts it in the queue.                        *)
LEMMA OwnedByQueue ==
  ASSUME NEW server, NEW q, NEW ep, NEW out, Owning(server, q, ep, out),
         NEW t \in Thread, NEW f \in Fd, server[t] = f
  PROVE  Owned([server EXCEPT ![t] = 0], Append(q, f), ep, out)
BY FdAssumption DEF Owned, Owning

(* Its server drops it, as a full queue makes the main thread do.          *)
LEMMA OwnedByNobody ==
  ASSUME NEW server, NEW q, NEW ep, NEW out, Owning(server, q, ep, out),
         NEW t \in Thread, NEW f \in Fd, server[t] = f
  PROVE  Owned([server EXCEPT ![t] = 0], q, ep, out \union {f})
BY FdAssumption DEF Owned, Owning

(* A thread takes the connection at the head of the queue.                 *)
LEMMA OwnedByWorker ==
  ASSUME NEW server, NEW q, NEW ep, NEW out, Owning(server, q, ep, out),
         NEW t \in Thread, server[t] = 0, q # <<>>
  PROVE  Owned([server EXCEPT ![t] = Head(q)], Tail(q), ep, out)
<1> DEFINE f == Head(q)
           r == Tail(q)
           new == [server EXCEPT ![t] = f]
<1>1. /\ Len(q) \in Nat \ {0} /\ 1 \in 1 .. Len(q) /\ f = q[1] /\ f \in Fd
      /\ Len(r) = Len(q) - 1 /\ \A i \in 1 .. Len(r) : i + 1 \in 1 .. Len(q) /\ r[i] = q[i + 1]
  BY DEF Owning
<1>2. \A i \in 1 .. Len(q) : i = 1 \/ (i - 1 \in 1 .. Len(r) /\ r[i - 1] = q[i])
  BY <1>1
<1>3. /\ \A u \in Thread : new[u] = IF u = t THEN f ELSE server[u]
      /\ \A u \in Thread : server[u] # f
  BY <1>1 DEF Owned, Owning
<1> HIDE DEF f, r, new
<1>4. \A u \in Thread : new[u] \in Fd => ep[new[u]] = "off" /\ new[u] \notin out
  BY <1>1, <1>3 DEF Owned, Owning
<1>5. \A i \in 1 .. Len(r) : ep[r[i]] = "off" /\ r[i] \notin out
  BY <1>1 DEF Owned, Owning
<1>6. \A u, v \in Thread : new[u] = new[v] /\ new[u] \in Fd => u = v
  BY <1>3 DEF Owned, Owning
<1>7. \A i, j \in 1 .. Len(r) : r[i] = r[j] => i = j
  <2> SUFFICES ASSUME NEW i \in 1 .. Len(r), NEW j \in 1 .. Len(r), r[i] = r[j] PROVE i = j
    OBVIOUS
  <2>1. i + 1 = j + 1
    BY <1>1 DEF Owned, Owning
  <2> QED BY <2>1, <1>1
<1>8. \A i \in 1 .. Len(r), u \in Thread : new[u] # r[i]
  <2> SUFFICES ASSUME NEW i \in 1 .. Len(r), NEW u \in Thread, new[u] = r[i] PROVE FALSE
    OBVIOUS
  <2>1. server[u] # q[i + 1] /\ (q[1] = q[i + 1] => 1 = i + 1) /\ i # 0 /\ i \in Nat
    BY <1>1 DEF Owned, Owning
  <2> QED BY <2>1, <1>1, <1>3
<1>9. \A g \in Fd : ep[g] = "off" /\ g \notin out =>
        (\E u \in Thread : new[u] = g) \/ \E i \in 1 .. Len(r) : r[i] = g
  <2> SUFFICES ASSUME NEW g \in Fd, ep[g] = "off", g \notin out
               PROVE  (\E u \in Thread : new[u] = g) \/ \E i \in 1 .. Len(r) : r[i] = g
    OBVIOUS
  <2>1. CASE \E u \in Thread : server[u] = g
    BY <2>1, <1>3, FdAssumption DEF Owning
  <2>2. CASE \E i \in 1 .. Len(q) : q[i] = g
    BY <2>2, <1>1, <1>2, <1>3
  <2> QED BY <2>1, <2>2 DEF Owned, Owning
<1> QED BY <1>4, <1>5, <1>6, <1>7, <1>8, <1>9 DEF Owned, Owning, f, r, new

(* Its server arms epoll for it again.                                     *)
LEMMA OwnedByEpoll ==
  ASSUME NEW server, NEW q, NEW ep, NEW out, Owning(server, q, ep, out),
         NEW t \in Thread, NEW f \in Fd, server[t] = f, NEW e \in {"in", "out"}
  PROVE  Owned([server EXCEPT ![t] = 0], q, [ep EXCEPT ![f] = e], out)
BY FdAssumption DEF Owned, Owning

(* A descriptor is watched for the first time.                             *)
LEMMA OwnedNewly ==
  ASSUME NEW server, NEW q, NEW ep, NEW out, Owning(server, q, ep, out),
         NEW f \in Fd, ep[f] = "none"
  PROVE  Owned(server, q, [ep EXCEPT ![f] = "in"], out)
BY FdAssumption DEF Owned, Owning

(* Its server closes it.                                                   *)
LEMMA ClosedByServer ==
  ASSUME NEW server, NEW q, NEW ep, NEW out, Owning(server, q, ep, out),
         NEW t \in Thread, NEW f \in Fd, server[t] = f
  PROVE  Owned([server EXCEPT ![t] = 0], q, [ep EXCEPT ![f] = "none"], out \ {f})
BY FdAssumption DEF Owned, Owning

(* Tick closes one that is watched, or that nobody owns.                   *)
LEMMA ClosedByTick ==
  ASSUME NEW server, NEW q, NEW ep, NEW out, Owning(server, q, ep, out),
         NEW f \in Fd, ep[f] \in {"in", "out"} \/ f \in out
  PROVE  Owned(server, q, [ep EXCEPT ![f] = "none"], out \ {f})
BY FdAssumption DEF Owned, Owning

(* A watched or served descriptor is open; so is one that is being set up, *)
(* and nobody watches it yet.  Tick closes whom nobody serves.             *)
Opened ==
  /\ \A f \in Fd : epoll[f] # "none" => open[f] # 0
  /\ OpenCall # "none" => open[OpenFd] # 0 /\ epoll[OpenFd] = "none"
  /\ \A t \in Thread : Leaver[t] # 0 /\ Server[t] = 0 =>
        epoll[Leaver[t]] \in {"in", "out"} \/ Leaver[t] \in dropped

(* Who is established and not about to be closed has his own live timer,   *)
(* and nobody else has one.                                                *)
TimersAgree ==
  /\ \A g \in live : timers[home[g]] = g
  /\ \A f \in Fd : timers[f] \in live /\ home[timers[f]] = f <=>
        /\ epoll[f] # "none" \/ (OpenCall = "AddEpoll" /\ OpenFd = f)
        /\ \A t \in Thread : Leaver[t] # f

(* The number accepted last is in use for the timer to be made only.       *)
Homes ==
  /\ \A g \in live : home[g] \in Fd /\ g <= accepted
  /\ OpenCall # "none" => accepted # 0
  /\ OpenCall \in {"Establish", "add", "bind", "AddTimer"} => accepted \notin live

(* A descriptor that is still to be unbound is closed, and one thread will *)
(* unbind it.                                                              *)
Unbound ==
  /\ \A t \in Thread : Unbinder[t] # 0 => open[Unbinder[t]] = 0
  /\ \A t, u \in Thread : Unbinder[t] = Unbinder[u] /\ Unbinder[t] # 0 => t = u
  /\ OpenCall \in {"add", "bind", "AddTimer", "AddEpoll"} => session[OpenFd] \in Session

BoundNow(f) == \/ epoll[f] # "none"
               \/ OpenCall \in {"AddTimer", "AddEpoll"} /\ OpenFd = f
               \/ \E t \in Thread : Unbinder[t] = f
Bindings ==
  \A s \in Session, f \in Fd : f \in members[s] <=> session[f] = s /\ BoundNow(f)

(* One thread at a time is between load and store, and what it loaded is   *)
(* still so.                                                               *)
Alone ==
  /\ \A t \in Updaters : reg[t] = num
  /\ \A t, u \in Updaters : t = u
  /\ OpenCall \in {"Establish", "add"} => num < ConnectionMax

Counts  == {f \in Fd : \/ epoll[f] # "none"
                       \/ OpenCall \in {"bind", "AddTimer", "AddEpoll"} /\ OpenFd = f}
Counted == num = Cardinality(Counts) + Cardinality(Subs)

Tokens == Len(queue) = sem + Cardinality(Lockers) + Posts

OwnerPart   == stolen \/ (Owned(Server, queue, epoll, dropped) /\ Opened /\ TimersAgree)
SessionPart == stolen \/ reused \/ (Unbound /\ Bindings)
CountPart   == stolen \/ overlap \/ (Alone /\ Counted)

IInv ==
  /\ TypeOK /\ Tasks
  /\ Tokens /\ Homes /\ OwnerPart /\ SessionPart /\ CountPart

(* The types of the digests.                                               *)
LEMMA DigestType ==
  ASSUME Tasks
  PROVE  /\ Server \in [Thread -> Fd \union {0}] /\ Leaver \in [Thread -> Fd \union {0}]
         /\ Unbinder \in [Thread -> Fd \union {0}]
         /\ OpenCall \in OpenCalls \union {"none"} /\ (OpenCall # "none" => OpenFd \in Fd)
         /\ Subs \subseteq Thread /\ Updaters \subseteq Thread /\ Lockers \subseteq Worker
         /\ \A t \in Thread : Leaver[t] # 0 =>
               Leaver[t] \in Fd /\ (Server[t] = Leaver[t] \/ (t = Main /\ Server[t] = 0))
<1>1. Server \in [Thread -> Fd \union {0}]
  <2>1. \A t \in Thread : Server[t] \in Fd \union {0}
    BY AtCall DEF Shape
  <2> QED BY <2>1 DEF Server
<1>2. Leaver \in [Thread -> Fd \union {0}]
  <2>1. \A t \in Thread : Leaver[t] \in Fd \union {0}
    BY AtCall DEF Shape
  <2> QED BY <2>1 DEF Leaver
<1>3. Unbinder \in [Thread -> Fd \union {0}]
  <2>1. \A t \in Thread : Unbinder[t] \in Fd \union {0}
    BY AtCall DEF Shape
  <2> QED BY <2>1 DEF Unbinder
<1>4. OpenCall \in OpenCalls \union {"none"} /\ (OpenCall # "none" => OpenFd \in Fd)
  <2>1. /\ Shape(task[Main])
        /\ Now(task[Main]) \in OpenCalls => OpenCall = Now(task[Main]) /\ OpenFd = task[Main].fd
        /\ Now(task[Main]) \notin OpenCalls => OpenCall = "none" /\ OpenFd = 0
    BY AtCall DEF Thread
  <2> QED BY <2>1 DEF Shape, OpenCalls
<1>5. ASSUME NEW t \in Thread, Leaver[t] # 0
      PROVE  Leaver[t] \in Fd /\ (Server[t] = Leaver[t] \/ (t = Main /\ Server[t] = 0))
  BY <1>2, <1>5, AtCall
<1> QED BY <1>1, <1>2, <1>3, <1>4, <1>5 DEF Subs, Updaters, Lockers

(* A part of the invariant that a step does not touch.                     *)
LEMMA TokensKept ==
  ASSUME Tokens, UNCHANGED <<queue, sem, Lockers, Posts>>
  PROVE  Tokens'
BY DEF Tokens

(* The same of the timers' homes,                                          *)
LEMMA HomesKept ==
  ASSUME Homes, UNCHANGED <<live, home, accepted, OpenCall>>
  PROVE  Homes'
BY DEF Homes

(* of who owns what,                                                       *)
LEMMA OwnerKept ==
  ASSUME OwnerPart, stolen => stolen',
         UNCHANGED <<open, epoll, timers, home, live, queue, dropped>>,
         UNCHANGED <<Server, Leaver, OpenCall, OpenFd>>
  PROVE  OwnerPart'
BY DEF OwnerPart, Opened, TimersAgree

(* of the sessions, for which epoll only matters as watching or not,       *)
LEMMA SessionKept ==
  ASSUME SessionPart, stolen => stolen', UNCHANGED <<open, session, members, reused>>,
         \A f \in Fd : epoll'[f] = "none" <=> epoll[f] = "none",
         UNCHANGED <<Unbinder, OpenCall, OpenFd>>
  PROVE  SessionPart'
BY DEF SessionPart, Unbound, Bindings, BoundNow

(* and of the count of connections, for which it matters as little.        *)
LEMMA CountKept ==
  ASSUME CountPart, stolen => stolen', UNCHANGED <<reg, num, overlap>>,
         \A f \in Fd : epoll'[f] = "none" <=> epoll[f] = "none",
         UNCHANGED <<Subs, Updaters, OpenCall, OpenFd>>
  PROVE  CountPart'
<1>1. Counts' = Counts
  BY DEF Counts
<1> QED BY <1>1 DEF CountPart, Alone, Counted

(* The task of a thread names a descriptor or none, and the main thread is *)
(* no worker.                                                              *)
LEMMA TaskType ==
  ASSUME Tasks
  PROVE  /\ \A t \in Thread : task[t] = Idle \/ task[t].fd \in Fd \union {0}
         /\ Main \in Thread /\ \A w \in Worker : w \in Thread /\ w # Main
BY AtCall, ThreadAssumption DEF Shape, Thread

(* The first of it after a step.                                           *)
LEMMA TaskTyped ==
  ASSUME Tasks'
  PROVE  \A t \in Thread : (task[t] = Idle \/ task[t].fd \in Fd \union {0})'
BY WorkShape, MainShape DEF Tasks, Thread, Shape

(* There are finitely many threads.                                        *)
LEMMA ThreadFinite == IsFiniteSet(Thread)
BY ThreadAssumption, FS_AddElement, FS_Singleton, FS_Union DEF Thread

(* The types of all variables but two.                                     *)
Typed ==
  /\ open \in [Fd -> 0 .. MaxAccept] /\ accepted \in 0 .. MaxAccept
  /\ epoll \in [Fd -> {"none", "in", "out", "off"}] /\ mode \in [Fd -> {"READ", "WRITE"}]
  /\ timers \in [Fd -> 0 .. MaxAccept] /\ home \in [Incarnation -> Fd \union {0}]
  /\ expired \subseteq live /\ live \subseteq Incarnation
  /\ members \in [Session -> SUBSET Fd]
  /\ num \in 0 .. UnsignedRange - 1 /\ reg \in [Thread -> 0 .. UnsignedRange - 1]
  /\ queue \in Seq(Fd) /\ Len(queue) <= QueueMax /\ sem \in Nat
  /\ hint \in 0 .. MaxAccept
  /\ {fault, raced, stolen, reused, overlap} \subseteq BOOLEAN /\ dropped \subseteq Fd
SessionTyped == session \in [Fd -> Session \union {""}]

(* The type invariant in parts,                                            *)
LEMMA TypeParts ==
  ASSUME TypeOK
  PROVE  Typed /\ SessionTyped
BY DEF TypeOK, Typed, SessionTyped

(* and put together again after a step: the tasks give the rest.           *)
LEMMA TypeWhole ==
  ASSUME Typed', SessionTyped', Tasks'
  PROVE  TypeOK'
BY TaskTyped DEF TypeOK, Typed, SessionTyped

(* An idle thread does none of it.                                         *)
LEMMA Idling ==
  ASSUME Tasks, NEW t \in Thread, task[t] = Idle
  PROVE  /\ Server[t] = 0 /\ Leaver[t] = 0 /\ Unbinder[t] = 0
         /\ t \notin Subs /\ t \notin Updaters /\ t \notin Lockers
         /\ t = Main => Posts = 0 /\ OpenCall = "none" /\ OpenFd = 0
BY AtCall, IdleShape DEF OpenCalls, Lockers, Thread

(* What a thread changes that leaves its task for another one.             *)
LEMMA Switched ==
  ASSUME Tasks, NEW t \in Thread, Now(task[t]) \in {"none", "READ", "WRITE", "lock", "Tick"}, NEW j,
         Start(t, j), t = Main => j \in MainJobs, t # Main => j \in WorkJobs,
         NEW c, NEW server, NEW leaver, Fresh(j, c, server, leaver), c # "sem_post"
  PROVE  /\ Server' = [Server EXCEPT ![t] = server]
         /\ Leaver' = [Leaver EXCEPT ![t] = leaver]
         /\ server = Server[t] => Server' = Server
         /\ leaver = 0 => Leaver' = Leaver
         /\ Server[t] = (IF Now(task[t]) \in {"READ", "WRITE"} THEN task[t].fd ELSE 0) /\ Leaver[t] = 0
         /\ UNCHANGED <<Unbinder, Subs, Updaters, Posts>> /\ Unbinder[t] = 0
         /\ t # Main => /\ Lockers' = IF c = "lock" THEN Lockers \union {t} ELSE Lockers \ {t}
                        /\ t \in Lockers <=> Now(task[t]) = "lock"
         /\ c # "lock" /\ Now(task[t]) # "lock" => Lockers' = Lockers
         /\ t = Main => /\ Lockers' = Lockers /\ OpenCall = "none" /\ OpenFd = 0
                        /\ c \in OpenCalls => OpenCall' = c /\ OpenFd' = j.fd
                        /\ c \notin OpenCalls => OpenCall' = "none" /\ OpenFd' = 0
         /\ t # Main \/ c \notin OpenCalls => UNCHANGED <<OpenCall, OpenFd>>
         /\ Tasks' /\ task'[t] = j
<1>1. /\ Server[t] = (IF Now(task[t]) \in {"READ", "WRITE"} THEN task[t].fd ELSE 0) /\ Leaver[t] = 0
      /\ Unbinder[t] = 0 /\ t \notin Subs /\ t \notin Updaters
      /\ t # Main => (t \in Lockers <=> Now(task[t]) = "lock")
      /\ t = Main => Posts = 0 /\ OpenCall = "none" /\ OpenFd = 0 /\ t \notin Lockers
  BY AtCall, DigestType, ThreadAssumption DEF Shape, OpenCalls
<1>2. /\ Server' = [Server EXCEPT ![t] = server]
      /\ Leaver' = [Leaver EXCEPT ![t] = leaver]
      /\ Unbinder' = [Unbinder EXCEPT ![t] = 0]
      /\ Subs' = Subs \ {t} /\ Updaters' = Updaters \ {t}
      /\ t # Main => /\ UNCHANGED <<Posts, OpenCall, OpenFd>>
                     /\ Lockers' = IF c = "lock" THEN Lockers \union {t} ELSE Lockers \ {t}
      /\ t = Main => /\ Lockers' = Lockers /\ Posts' = IF c = "sem_post" THEN 1 ELSE 0
                     /\ c \in OpenCalls => OpenCall' = c /\ OpenFd' = j.fd
                     /\ c \notin OpenCalls => OpenCall' = "none" /\ OpenFd' = 0
      /\ Tasks' /\ task'[t] = j
  BY Begun
<1>3. /\ [Server EXCEPT ![t] = Server[t]] = Server
      /\ [Leaver EXCEPT ![t] = Leaver[t]] = Leaver
      /\ [Unbinder EXCEPT ![t] = Unbinder[t]] = Unbinder
  BY DEF Server, Leaver, Unbinder
<1>4. Posts' = Posts
  BY <1>1, <1>2 DEF Posts
<1>5. UNCHANGED <<Unbinder, Subs, Updaters>>
  BY <1>1, <1>2, <1>3
<1>6. c # "lock" /\ Now(task[t]) # "lock" => Lockers' = Lockers
  BY <1>1, <1>2
<1> QED BY <1>1, <1>2, <1>3, <1>4, <1>5, <1>6

(* What a thread changes by making a call.                                 *)
LEMMA Making ==
  ASSUME Tasks, NEW t \in Thread, NEW c \in Call, At(t, c), Done(t)
  PROVE  LET f == task[t].fd IN
         /\ Tasks' /\ (c \notin {"lock", "Tick"} => f \in Fd)
         /\ Server[t] = IF c \in {"AdjustTimer", "READ", "WRITE", "DelTimer"} THEN f
                        ELSE IF c = "DelEpoll" /\ ~Has(task[t], "Tick") THEN f ELSE 0
         /\ Leaver[t] = IF c = "DelEpoll" THEN f ELSE 0
         /\ c = "erase" => Unbinder[t] = f
         /\ c \notin {"load", "sub", "erase"} => Unbinder[t] = 0
         /\ c = "sub" => t \in Subs
         /\ c \in {"DelTimer", "DelEpoll"} => t \notin Subs
         /\ t \in Updaters <=> c \in {"add", "sub"}
         /\ Server' = IF c \in {"READ", "WRITE", "DelEpoll"} THEN [Server EXCEPT ![t] = 0]
                      ELSE Server
         /\ Leaver' = IF c = "DelTimer" THEN [Leaver EXCEPT ![t] = f]
                      ELSE IF c = "DelEpoll" THEN [Leaver EXCEPT ![t] = 0] ELSE Leaver
         /\ Unbinder' = IF c = "DelEpoll" THEN [Unbinder EXCEPT ![t] = f]
                        ELSE IF c = "erase" THEN [Unbinder EXCEPT ![t] = 0] ELSE Unbinder
         /\ Subs' = IF c = "DelEpoll" THEN Subs \union {t}
                    ELSE IF c = "sub" THEN Subs \ {t} ELSE Subs
         /\ Updaters' = IF c \in {"Establish", "load"} THEN Updaters \union {t}
                        ELSE IF c \in {"add", "sub"} THEN Updaters \ {t} ELSE Updaters
         /\ c # "lock" => Lockers' = Lockers
         /\ c \notin {"READ", "WRITE", "sem_post"} => Posts' = Posts
         /\ t = Main => /\ Posts = IF c = "sem_post" THEN 1 ELSE 0
                        /\ Posts' = IF c \in {"READ", "WRITE"} THEN 1 ELSE 0
                        /\ c \in OpenCalls => OpenCall = c /\ OpenFd = f
                        /\ c \notin OpenCalls => OpenCall = "none" /\ OpenFd = 0
                        /\ c = "AddEpoll" => OpenCall' = "none" /\ OpenFd' = 0
                        /\ c \in OpenCalls \ {"AddEpoll"} => OpenFd' = f /\ OpenCall' \in Following(c)
         /\ c \notin OpenCalls => UNCHANGED <<OpenCall, OpenFd>>
<1>1. task[t] # Idle /\ Now(task[t]) = c /\ Shape(task[t])
  BY Reading
<1>2. c \notin {"lock", "Tick"} => task[t].fd \in Fd
  BY <1>1 DEF Shape, Call
<1>3. /\ c = "erase" => Has(task[t], "erase")
      /\ c \notin {"load", "sub", "erase"} => ~Has(task[t], "erase") \/ c \in {"DelTimer", "DelEpoll"}
      /\ c = "sub" => Has(task[t], "sub")
  BY <1>1 DEF Shape
<1>4. t # Main => c \notin OpenCalls
  BY <1>1, WorkShape DEF Tasks, Thread, OpenCalls
<1>5. c \notin OpenCalls => UNCHANGED <<OpenCall, OpenFd>>
  BY <1>1, Called, AtCall
<1>6. c \notin {"READ", "WRITE", "sem_post"} => Posts' = Posts
  <2>1. CASE t = Main
    BY <2>1, <1>1, Called, AtCall DEF Posts
  <2>2. CASE t # Main
    BY <2>2, <1>1, Called
  <2> QED BY <2>1, <2>2
<1>7. /\ c = "erase" => Unbinder[t] = task[t].fd
      /\ c \notin {"load", "sub", "erase"} => Unbinder[t] = 0
      /\ c = "sub" => t \in Subs
      /\ c \in {"DelTimer", "DelEpoll"} => t \notin Subs
      /\ t \in Updaters <=> c \in {"add", "sub"}
  BY <1>1, <1>3, AtCall
<1>8. /\ Server[t] = IF c \in {"AdjustTimer", "READ", "WRITE", "DelTimer"} THEN task[t].fd
                     ELSE IF c = "DelEpoll" /\ ~Has(task[t], "Tick") THEN task[t].fd ELSE 0
      /\ Leaver[t] = IF c = "DelEpoll" THEN task[t].fd ELSE 0
  BY <1>1, AtCall
<1>9. t = Main => /\ Posts = IF c = "sem_post" THEN 1 ELSE 0
                  /\ c \in OpenCalls => OpenCall = c /\ OpenFd = task[t].fd
                  /\ c \notin OpenCalls => OpenCall = "none" /\ OpenFd = 0
  BY <1>1, AtCall
<1>10. t = Main => /\ Posts' = IF c \in {"READ", "WRITE"} THEN 1 ELSE 0
                   /\ c = "AddEpoll" => OpenCall' = "none" /\ OpenFd' = 0
                   /\ c \in OpenCalls \ {"AddEpoll"} => OpenFd' = task[t].fd /\ OpenCall' \in Following(c)
  BY <1>1, Called
<1>11. /\ Tasks'
       /\ Server' = IF c \in {"READ", "WRITE", "DelEpoll"} THEN [Server EXCEPT ![t] = 0]
                    ELSE Server
       /\ Leaver' = IF c = "DelTimer" THEN [Leaver EXCEPT ![t] = task[t].fd]
                    ELSE IF c = "DelEpoll" THEN [Leaver EXCEPT ![t] = 0] ELSE Leaver
       /\ Unbinder' = IF c = "DelEpoll" THEN [Unbinder EXCEPT ![t] = task[t].fd]
                      ELSE IF c = "erase" THEN [Unbinder EXCEPT ![t] = 0] ELSE Unbinder
  BY <1>1, Called
<1>12. /\ Subs' = IF c = "DelEpoll" THEN Subs \union {t}
                  ELSE IF c = "sub" THEN Subs \ {t} ELSE Subs
       /\ Updaters' = IF c \in {"Establish", "load"} THEN Updaters \union {t}
                      ELSE IF c \in {"add", "sub"} THEN Updaters \ {t} ELSE Updaters
       /\ c # "lock" => Lockers' = Lockers
  BY <1>1, Called
<1> QED BY <1>2, <1>5, <1>6, <1>7, <1>8, <1>9, <1>10, <1>11, <1>12

(* No task, no change.                                                     *)
LEMMA Still ==
  ASSUME Tasks, UNCHANGED task
  PROVE  Tasks' /\ UNCHANGED <<Server, Leaver, Unbinder, Subs, Updaters>>
         /\ UNCHANGED <<Lockers, Posts, OpenCall, OpenFd>>
BY DEF Tasks, Server, Leaver, Unbinder, Subs, Updaters, Lockers, Posts, OpenCall, OpenFd

(* What holds while Tick has closed nobody under the pool.                 *)
LEMMA Orderly ==
  ASSUME IInv, ~stolen
  PROVE  /\ Owning(Server, queue, epoll, dropped) /\ Opened /\ TimersAgree
         /\ OpenCall # "none" => OpenFd \in Fd /\ open[OpenFd] # 0 /\ epoll[OpenFd] = "none"
         /\ \A t \in Thread : Server[t] # 0 => Server[t] \in Fd /\ epoll[Server[t]] = "off"
         /\ \A t \in Thread : Leaver[t] # 0 =>
               /\ Leaver[t] \in Fd /\ epoll[Leaver[t]] # "none"
               /\ Server[t] = Leaver[t] \/ (t = Main /\ Server[t] = 0)
         /\ \A t \in Thread : Server[t] # 0 /\ Leaver[t] = 0 =>
               \A u \in Thread : Leaver[u] = Server[t] => u = Main /\ Server[u] = 0
<1>1. /\ Owned(Server, queue, epoll, dropped) /\ Opened /\ TimersAgree
      /\ Tasks /\ Typed
  BY TypeParts DEF IInv, OwnerPart
<1>2. /\ Server \in [Thread -> Fd \union {0}] /\ Leaver \in [Thread -> Fd \union {0}]
      /\ OpenCall # "none" => OpenFd \in Fd
      /\ \A t \in Thread : Leaver[t] # 0 =>
            Leaver[t] \in Fd /\ (Server[t] = Leaver[t] \/ (t = Main /\ Server[t] = 0))
  BY <1>1, DigestType
<1>3. Owning(Server, queue, epoll, dropped)
  BY <1>1, <1>2 DEF Owning, Typed
<1>4. \A t \in Thread : Server[t] # 0 => Server[t] \in Fd /\ epoll[Server[t]] = "off"
  BY <1>1, <1>2 DEF Owned
<1>5. \A t \in Thread : Leaver[t] # 0 => epoll[Leaver[t]] # "none"
  <2> SUFFICES ASSUME NEW t \in Thread, Leaver[t] # 0 PROVE epoll[Leaver[t]] # "none"
    OBVIOUS
  <2>1. CASE Server[t] = Leaver[t]
    BY <2>1, <1>4
  <2>2. CASE Server[t] = 0
    BY <2>2, <1>1 DEF Opened, Owned
  <2> QED BY <2>1, <2>2, <1>2
<1>6. \A t \in Thread : Server[t] # 0 /\ Leaver[t] = 0 =>
        \A u \in Thread : Leaver[u] = Server[t] => u = Main /\ Server[u] = 0
  BY <1>1, <1>2 DEF Owned
<1>7. OpenCall # "none" => OpenFd \in Fd /\ open[OpenFd] # 0 /\ epoll[OpenFd] = "none"
  BY <1>1, <1>2 DEF Opened
<1> QED BY <1>1, <1>2, <1>3, <1>4, <1>5, <1>6, <1>7

-----------------------------------------------------------------------------
(* The initial states, and one lemma for each action.                      *)
LEMMA InitOK == Init => IInv
<1> SUFFICES ASSUME Init PROVE IInv
  OBVIOUS
<1>1. Tasks
  BY IdleFresh DEF Init, Tasks, Thread
<1>2. /\ \A t \in Thread : /\ Server[t] = 0 /\ Leaver[t] = 0 /\ Unbinder[t] = 0
                          /\ t \notin Subs /\ t \notin Updaters /\ t \notin Lockers
      /\ Posts = 0 /\ OpenCall = "none" /\ OpenFd = 0
  BY <1>1, Idling, TaskType DEF Init
<1>3. Subs = {} /\ Updaters = {} /\ Lockers = {}
  BY <1>2 DEF Subs, Updaters, Lockers, Thread
<1>4. TypeOK
  <2>1. num \in 0 .. UnsignedRange - 1 /\ reg \in [Thread -> 0 .. UnsignedRange - 1]
    <3>1. num = 0 /\ reg = [t \in Thread |-> 0]
      BY DEF Init
    <3> QED BY <3>1, SizeAssumption
  <2>2. queue \in Seq(Fd) /\ Len(queue) <= QueueMax /\ sem \in Nat
    <3>1. queue = <<>> /\ sem = 0
      BY DEF Init
    <3> QED BY <3>1, SizeAssumption
  <2>3. home \in [Incarnation -> Fd \union {0}] /\ expired \subseteq live /\ live \subseteq Incarnation
    BY DEF Init
  <2>4. /\ open \in [Fd -> 0 .. MaxAccept] /\ accepted \in 0 .. MaxAccept
        /\ timers \in [Fd -> 0 .. MaxAccept]
    <3>1. open = [f \in Fd |-> 0] /\ accepted = 0 /\ timers = [f \in Fd |-> 0]
      BY DEF Init
    <3> QED BY <3>1, SizeAssumption
  <2>5. /\ epoll \in [Fd -> {"none", "in", "out", "off"}]
        /\ session \in [Fd -> Session \union {""}] /\ mode \in [Fd -> {"READ", "WRITE"}]
        /\ members \in [Session -> SUBSET Fd]
        /\ {fault, raced, stolen, reused, overlap} \subseteq BOOLEAN /\ dropped \subseteq Fd
    BY DEF Init
  <2>6. hint \in 0 .. MaxAccept
    <3>1. hint = 0
      BY DEF Init
    <3> QED BY <3>1, SizeAssumption
  <2> QED BY <1>1, <2>1, <2>2, <2>3, <2>4, <2>5, <2>6, TaskType DEF TypeOK
<1>5. Tokens /\ Homes
  <2>1. Cardinality(Lockers) = 0 /\ Len(queue) = 0 /\ sem = 0
    BY <1>3, FS_EmptySet DEF Init
  <2>2. Posts = 0
    BY <1>2
  <2>3. Tokens
    BY <2>1, <2>2 DEF Tokens
  <2> QED BY <1>2, <2>3 DEF Homes, Init
<1>6. OwnerPart
  <2>1. Len(queue) = 0 /\ live = {} /\ dropped = {} /\ \A f \in Fd : epoll[f] = "none"
    BY DEF Init
  <2>2. \A t \in Thread : Server[t] \notin Fd
    BY <1>2, FdAssumption
  <2>3. Owned(Server, queue, epoll, dropped)
    BY <2>1, <2>2 DEF Owned
  <2> QED BY <1>2, <2>1, <2>3 DEF OwnerPart, Opened, TimersAgree
<1>7. SessionPart
  BY <1>2, FdAssumption DEF SessionPart, Unbound, Bindings, BoundNow, Init
<1>8. CountPart
  <2>1. Counts = {}
    BY <1>2 DEF Counts, Init
  <2>2. Cardinality(Counts) = 0 /\ Cardinality(Subs) = 0 /\ num = 0
    BY <1>3, <2>1, FS_EmptySet DEF Init
  <2>3. Counted
    BY <2>2 DEF Counted
  <2>4. Alone
    BY <1>2, <1>3 DEF Alone
  <2> QED BY <2>3, <2>4 DEF CountPart
<1> QED BY <1>1, <1>4, <1>5, <1>6, <1>7, <1>8 DEF IInv, Init

(* Events: one-shot takes the connection from epoll to the main thread.    *)
LEMMA EventKeeps ==
  ASSUME IInv, NEW f \in Fd, epoll[f] \in {"in", "out"},
         NEW cs \in {Handing("READ"), Handing("WRITE"), HangUpClosing}, Event(f, cs)
  PROVE  IInv'
<1>1. /\ TypeOK /\ Tasks /\ task[Main] = Idle /\ Main \in Thread /\ Start(Main, Job(f, cs))
      /\ epoll' = [epoll EXCEPT ![f] = "off"]
  BY TaskType DEF IInv, Event
<1>2. /\ UNCHANGED <<open, accepted, session, mode, timers, home, live, expired, members>>
      /\ UNCHANGED <<num, reg, overlap, queue, sem, dropped, hint, fault, raced, stolen, reused>>
  BY DEF Event, time, count, pool, ghost
<1>3. PICK c \in {"AdjustTimer", "DelTimer"} : Job(f, cs) \in MainJobs /\ Fresh(Job(f, cs), c, f, 0)
  BY MainFresh
<1>4. /\ Server' = [Server EXCEPT ![Main] = f] /\ Server[Main] = 0
      /\ UNCHANGED <<Leaver, Unbinder, Subs, Updaters, Lockers, Posts, OpenCall, OpenFd>>
      /\ Tasks'
  BY <1>1, <1>3, Switched, IdleShape DEF OpenCalls
<1>5. TypeOK'
  BY <1>1, <1>2, <1>4, TaskTyped DEF TypeOK
<1>6. \A h \in Fd : epoll'[h] = "none" <=> epoll[h] = "none"
  BY <1>1 DEF TypeOK
<1>7. OwnerPart'
  <2>1. CASE stolen
    BY <2>1, <1>2 DEF OwnerPart
  <2>2. CASE ~stolen
    <3>1. Owned(Server, queue, epoll, dropped) /\ Opened /\ TimersAgree
      BY <2>2 DEF IInv, OwnerPart
    <3>2. Owning(Server, queue, epoll, dropped)
      BY <1>1, <3>1, DigestType DEF Owning, TypeOK
    <3>3. Owned(Server, queue, epoll, dropped)'
      BY <1>1, <1>2, <1>4, <3>2, OwnedByThread
    <3>4. Opened'
      <4>1. OpenCall # "none" => OpenFd \in Fd
        BY <1>1, DigestType
      <4>2. \A t \in Thread : Server'[t] = IF t = Main THEN f ELSE Server[t]
        BY <1>1, <1>4, DigestType
      <4>3. \A t \in Thread : ~(Leaver[t] # 0 /\ Server'[t] = 0)
        BY <1>1, <4>2, DigestType, FdAssumption
      <4> QED BY <1>2, <1>4, <1>6, <3>1, <4>1, <4>3 DEF Opened
    <3>5. TimersAgree'
      BY <1>2, <1>4, <1>6, <3>1 DEF TimersAgree
    <3> QED BY <3>3, <3>4, <3>5 DEF OwnerPart
  <2> QED BY <2>1, <2>2
<1>8. Tokens' /\ Homes'
  BY <1>2, <1>4, TokensKept, HomesKept DEF IInv
<1>9. SessionPart' /\ CountPart'
  BY <1>2, <1>4, <1>6, SessionKept, CountKept DEF IInv
<1> QED BY <1>2, <1>4, <1>5, <1>7, <1>8, <1>9 DEF IInv

(* A deadline passes.                                                      *)
LEMMA ExpireKeeps ==
  ASSUME IInv, NEW g \in Incarnation, Expire(g)
  PROVE  IInv'
<1>1. Tasks' /\ UNCHANGED <<Server, Leaver, Unbinder, Subs, Updaters>>
      /\ UNCHANGED <<Lockers, Posts, OpenCall, OpenFd>>
  BY Still DEF IInv, Expire
<1>2. TypeOK'
  BY DEF IInv, Expire, TypeOK, conn, count, pool, ghost
<1>3. Tokens' /\ Homes' /\ OwnerPart'
  BY <1>1, TokensKept, HomesKept, OwnerKept DEF IInv, Expire, conn, pool, ghost
<1>4. SessionPart' /\ CountPart'
  BY <1>1, SessionKept, CountKept DEF IInv, Expire, conn, count, ghost
<1> QED BY <1>1, <1>2, <1>3, <1>4 DEF IInv, Expire, ghost

(* The alarm begins Tick.                                                  *)
LEMMA AlarmKeeps ==
  ASSUME IInv, Alarm
  PROVE  IInv'
<1>1. /\ TypeOK /\ Tasks /\ task[Main] = Idle /\ Main \in Thread
      /\ Start(Main, Job(0, <<"Tick">>))
  BY TaskType DEF IInv, Alarm
<1>2. /\ UNCHANGED <<open, accepted, epoll, session, mode, timers, home, live, expired, members>>
      /\ UNCHANGED <<num, reg, overlap, queue, sem, dropped, hint, fault, raced, stolen, reused>>
  BY DEF Alarm, conn, time, count, pool, ghost
<1>3. /\ UNCHANGED <<Server, Leaver, Unbinder, Subs, Updaters, Lockers, Posts, OpenCall, OpenFd>>
      /\ Tasks'
  BY <1>1, TickFresh, Switched, Idling, IdleShape DEF OpenCalls
<1>4. TypeOK'
  BY <1>1, <1>2, <1>3, TaskTyped DEF TypeOK
<1>5. Tokens' /\ Homes' /\ OwnerPart'
  BY <1>2, <1>3, TokensKept, HomesKept, OwnerKept DEF IInv
<1>6. SessionPart' /\ CountPart'
  BY <1>2, <1>3, SessionKept, CountKept DEF IInv
<1> QED BY <1>2, <1>3, <1>4, <1>5, <1>6 DEF IInv

(* Tick finds no timer that expired and ends.                              *)
LEMMA TickEndKeeps ==
  ASSUME IInv, TickEnd
  PROVE  IInv'
<1>1. TypeOK /\ Tasks /\ Main \in Thread /\ At(Main, "Tick") /\ Done(Main)
  BY TaskType DEF IInv, TickEnd
<1>2. /\ UNCHANGED <<open, accepted, epoll, session, mode, timers, home, live, expired, members>>
      /\ UNCHANGED <<num, reg, overlap, queue, sem, dropped, hint, fault, raced, stolen, reused>>
  BY DEF TickEnd, conn, time, count, pool, ghost
<1>3. /\ UNCHANGED <<Server, Leaver, Unbinder, Subs, Updaters, Lockers, Posts, OpenCall, OpenFd>>
      /\ Tasks'
  BY <1>1, Making DEF OpenCalls, Call
<1>4. TypeOK'
  BY <1>1, <1>2, <1>3, TaskTyped DEF TypeOK
<1>5. Tokens' /\ Homes' /\ OwnerPart'
  BY <1>2, <1>3, TokensKept, HomesKept, OwnerKept DEF IInv
<1>6. SessionPart' /\ CountPart'
  BY <1>2, <1>3, SessionKept, CountKept DEF IInv
<1> QED BY <1>2, <1>3, <1>4, <1>5, <1>6 DEF IInv

(* A timer that is deleted is its connection's own, and a deleted one is   *)
(* not used, as long as Tick has closed nobody under the pool.             *)
LEMMA OwnTimer ==
  ASSUME IInv, ~stolen, NEW t \in Thread, NEW f \in Fd, Server[t] = f, Leaver[t] = 0,
         ~Has(task[Main], "Tick") \/ t = Main
  PROVE  timers[f] \in live /\ home[timers[f]] = f
<1>1. epoll[f] = "off" /\ f # 0 /\ Tasks /\ TimersAgree
  BY Orderly, FdAssumption DEF IInv
<1>2. \A u \in Thread : Leaver[u] # f
  <2> SUFFICES ASSUME NEW u \in Thread, Leaver[u] = f PROVE FALSE
    OBVIOUS
  <2>1. u = Main /\ Server[u] = 0
    BY <1>1, Orderly
  <2>2. u # t
    BY <1>1
  <2>3. Server[Main] = task[Main].fd /\ Leaver[Main] = task[Main].fd
    BY <1>1, <2>1, <2>2, AtCall
  <2> QED BY <1>1, <2>1, <2>3
<1> QED BY <1>1, <1>2 DEF TimersAgree

(* The node next to which a timer goes is chosen.                          *)
LEMMA ChooseNodeKeeps ==
  ASSUME IInv, ChooseNode
  PROVE  IInv'
<1>1. Tasks' /\ UNCHANGED <<Server, Leaver, Unbinder, Subs, Updaters>>
      /\ UNCHANGED <<Lockers, Posts, OpenCall, OpenFd>>
  BY Still DEF IInv, ChooseNode
<1>2. /\ UNCHANGED <<open, accepted, epoll, session, mode, timers, home, live, expired, members>>
      /\ UNCHANGED <<num, reg, overlap, queue, sem, dropped, fault, raced, stolen, reused, task>>
      /\ hint' \in live
  BY DEF ChooseNode, conn, time, count, pool
<1>3. TypeOK'
  <2>1. TypeOK /\ hint' \in 1 .. MaxAccept
    BY <1>2 DEF IInv, TypeOK, Incarnation
  <2>2. hint' \in 0 .. MaxAccept
    BY <2>1, SizeAssumption
  <2> QED BY <1>2, <2>1, <2>2 DEF TypeOK
<1>4. Tokens' /\ Homes' /\ OwnerPart' /\ SessionPart' /\ CountPart'
  BY <1>1, <1>2, TokensKept, HomesKept, OwnerKept, SessionKept, CountKept DEF IInv
<1> QED BY <1>1, <1>3, <1>4 DEF IInv

(* AdjustTimer changes nothing that these parts are about.                 *)
LEMMA AdjustTimerKeeps ==
  ASSUME IInv, AdjustTimer
  PROVE  IInv'
<1>1. TypeOK /\ Tasks /\ Main \in Thread /\ At(Main, "AdjustTimer") /\ Done(Main)
  BY TaskType DEF IInv, AdjustTimer
<1>2. /\ UNCHANGED <<open, accepted, epoll, session, mode, timers, home, live, expired, members>>
      /\ UNCHANGED <<num, reg, overlap, queue, sem, dropped, raced, stolen, reused>>
      /\ hint' = 0 /\ fault' \in BOOLEAN
  BY DEF AdjustTimer, Dangling, Insert, conn, time, count, pool
<1>3. /\ UNCHANGED <<Server, Leaver, Unbinder, Subs, Updaters, Lockers, Posts, OpenCall, OpenFd>>
      /\ Tasks'
  BY <1>1, Making DEF OpenCalls, Call
<1>4. TypeOK'
  <2>1. Typed /\ SessionTyped /\ {fault', raced', stolen', reused', overlap'} \subseteq BOOLEAN
    BY <1>1, <1>2, TypeParts DEF Typed
  <2>2. hint' \in 0 .. MaxAccept
    BY <1>2, SizeAssumption
  <2>3. Typed' /\ SessionTyped'
    BY <1>2, <2>1, <2>2 DEF Typed, SessionTyped
  <2> QED BY <1>3, <2>3, TypeWhole
<1>5. Tokens' /\ Homes' /\ OwnerPart'
  BY <1>2, <1>3, TokensKept, HomesKept, OwnerKept DEF IInv
<1>6. SessionPart' /\ CountPart'
  BY <1>2, <1>3, SessionKept, CountKept DEF IInv
<1> QED BY <1>2, <1>3, <1>4, <1>5, <1>6 DEF IInv

(* DelTimer frees the timer of the connection its thread serves.           *)
LEMMA DelTimerKeeps ==
  ASSUME IInv, NEW t \in Thread, DelTimer(t)
  PROVE  IInv'
<1> DEFINE f == task[t].fd
           g == timers[f]
<1>1. TypeOK /\ Tasks /\ At(t, "DelTimer") /\ Done(t) /\ Main \in Thread
  BY TaskType DEF IInv, DelTimer
<1>2. /\ UNCHANGED <<open, accepted, epoll, session, mode, timers, home, members>>
      /\ UNCHANGED <<num, reg, overlap, queue, sem, dropped, hint, stolen, reused>>
      /\ \/ g \notin live /\ UNCHANGED <<live, expired>>
         \/ g \in live /\ live' = live \ {g} /\ expired' = expired \ {g}
  BY DEF DelTimer, Dangling, conn, time, count, pool
<1>3. /\ UNCHANGED <<Server, Unbinder, Subs, Updaters, Lockers, Posts, OpenCall, OpenFd>>
      /\ Leaver' = [Leaver EXCEPT ![t] = f]
      /\ Tasks' /\ f \in Fd /\ Server[t] = f /\ Leaver[t] = 0
  BY <1>1, Making DEF OpenCalls, Call
<1>4. ~Has(task[Main], "Tick")
  BY <1>1, Reading DEF DelTimer, TickRuns
<1>5. ~stolen => g \in live /\ home[g] = f
  BY <1>3, <1>4, OwnTimer
<1> HIDE DEF f, g
<1>6. TypeOK'
  <2>1. Typed /\ SessionTyped /\ {fault, raced} \subseteq BOOLEAN
    BY <1>1, TypeParts DEF Typed
  <2>2. {fault', raced'} \subseteq BOOLEAN
    BY <2>1 DEF DelTimer, Dangling
  <2>3. Typed' /\ SessionTyped'
    BY <1>2, <2>1, <2>2 DEF Typed, SessionTyped
  <2> QED BY <1>3, <2>3, TypeWhole
<1>7. Tokens'
  BY <1>2, <1>3, TokensKept DEF IInv
<1>8. Homes'
  BY <1>2, <1>3 DEF IInv, Homes
<1>9. OwnerPart'
  <2> SUFFICES ASSUME ~stolen PROVE OwnerPart'
    BY <1>2 DEF OwnerPart
  <2>1. Owned(Server, queue, epoll, dropped) /\ Opened /\ TimersAgree
    BY Orderly DEF Owning
  <2>2. Owned(Server, queue, epoll, dropped)'
    BY <1>2, <1>3, <2>1
  <2>3. /\ \A u \in Thread : Leaver'[u] = IF u = t THEN f ELSE Leaver[u]
        /\ f # 0
    BY <1>1, <1>3, DigestType, FdAssumption
  <2>4. Opened'
    BY <1>2, <1>3, <2>1, <2>3 DEF Opened
  <2>5. live' = live \ {g} /\ g \in live /\ home[g] = f
    BY <1>2, <1>5
  <2>6. TimersAgree'
    <3>1. \A h \in Fd : (timers[h] \in live' /\ home[timers[h]] = h)
                           <=> timers[h] \in live /\ home[timers[h]] = h /\ h # f
      BY <2>5 DEF g
    <3>2. \A h \in Fd : (\A u \in Thread : Leaver'[u] # h) <=> (\A u \in Thread : Leaver[u] # h) /\ h # f
      BY <1>3, <2>3, FdAssumption
    <3> QED BY <1>2, <1>3, <2>1, <2>5, <3>1, <3>2 DEF TimersAgree
  <2> QED BY <2>2, <2>4, <2>6 DEF OwnerPart
<1>10. SessionPart' /\ CountPart'
  BY <1>2, <1>3, SessionKept, CountKept DEF IInv
<1> QED BY <1>3, <1>6, <1>7, <1>8, <1>9, <1>10 DEF IInv

(* A registered connection that somebody is about to close is closed.      *)
LEMMA DelEpollKeeps ==
  ASSUME IInv, NEW t \in Thread, DelEpoll(t)
  PROVE  IInv'
<1> DEFINE f == task[t].fd
<1>1. TypeOK /\ Typed /\ SessionTyped /\ Tasks /\ At(t, "DelEpoll") /\ Done(t)
  BY TypeParts DEF IInv, DelEpoll
<1>2. /\ UNCHANGED <<accepted, session, mode, timers, home, live, expired, members>>
      /\ UNCHANGED <<num, reg, overlap, queue, sem, hint, fault, raced, stolen, reused>>
      /\ epoll' = [epoll EXCEPT ![f] = "none"] /\ open' = [open EXCEPT ![f] = 0]
      /\ dropped' = dropped \ {f}
  BY DEF DelEpoll, time, count, ghost
<1>3. /\ UNCHANGED <<Updaters, Lockers, Posts, OpenCall, OpenFd>>
      /\ Server' = [Server EXCEPT ![t] = 0] /\ Leaver' = [Leaver EXCEPT ![t] = 0]
      /\ Unbinder' = [Unbinder EXCEPT ![t] = f] /\ Subs' = Subs \union {t}
      /\ Tasks' /\ f \in Fd /\ Server[t] \in {f, 0} /\ Leaver[t] = f /\ Unbinder[t] = 0
      /\ t \notin Subs
  BY <1>1, Making DEF OpenCalls, Call
<1> HIDE DEF f
<1>4. f # 0
  BY <1>3, FdAssumption
<1>5. TypeOK'
  <2>1. Typed'
    <3>1. /\ open' \in [Fd -> 0 .. MaxAccept]
          /\ epoll' \in [Fd -> {"none", "in", "out", "off"}] /\ dropped' \subseteq Fd
      <4>1. 0 \in 0 .. MaxAccept
        BY SizeAssumption
      <4> QED BY <1>1, <1>2, <4>1 DEF Typed
    <3> QED BY <1>1, <1>2, <3>1 DEF Typed
  <2>2. SessionTyped'
    BY <1>1, <1>2 DEF SessionTyped
  <2> QED BY <1>3, <2>1, <2>2, TypeWhole
<1>6. Tokens' /\ Homes'
  BY <1>2, <1>3, TokensKept, HomesKept DEF IInv
<1>7. /\ \A u \in Thread : Server'[u] = IF u = t THEN 0 ELSE Server[u]
      /\ \A u \in Thread : Leaver'[u] = IF u = t THEN 0 ELSE Leaver[u]
      /\ \A u \in Thread : Unbinder'[u] = IF u = t THEN f ELSE Unbinder[u]
      /\ \A h \in Fd : epoll'[h] = IF h = f THEN "none" ELSE epoll[h]
      /\ \A h \in Fd : open'[h] = IF h = f THEN 0 ELSE open[h]
      /\ OpenCall # "none" => OpenFd \in Fd
  BY <1>1, <1>2, <1>3, DigestType DEF Typed
<1>8. ~stolen => /\ epoll[f] # "none" /\ open[f] # 0
                 /\ OpenCall # "none" => OpenFd # f
  BY <1>3, <1>4, Orderly DEF Opened
<1>9. OwnerPart'
  <2> SUFFICES ASSUME ~stolen PROVE OwnerPart'
    BY <1>2 DEF OwnerPart
  <2>1. Owning(Server, queue, epoll, dropped) /\ Opened /\ TimersAgree
    BY Orderly
  <2>2. Owned(Server, queue, epoll, dropped)'
    <3>1. CASE Server[t] = f
      BY <1>2, <1>3, <2>1, <3>1, ClosedByServer
    <3>2. CASE Server[t] = 0
      <4>1. epoll[f] \in {"in", "out"} \/ f \in dropped
        BY <1>3, <1>4, <2>1, <3>2 DEF Opened
      <4>2. Server' = Server
        BY <1>3, <3>2 DEF Server
      <4> QED BY <1>2, <1>3, <2>1, <4>1, <4>2, ClosedByTick
    <3> QED BY <1>3, <3>1, <3>2
  <2>3. Opened'
    <3>1. \A h \in Fd : epoll'[h] # "none" => open'[h] # 0
      BY <1>7, <2>1 DEF Opened
    <3>2. OpenCall # "none" => open'[OpenFd] # 0 /\ epoll'[OpenFd] = "none"
      BY <1>7, <1>8, <2>1 DEF Opened
    <3>3. ASSUME NEW u \in Thread, Leaver'[u] # 0, Server'[u] = 0
          PROVE  epoll'[Leaver'[u]] \in {"in", "out"} \/ Leaver'[u] \in dropped'
      <4>1. u # t /\ Leaver'[u] = Leaver[u] /\ Server[u] = 0 /\ Leaver[u] # 0
        BY <1>7, <3>3
      <4>2. Leaver[u] \in Fd /\ u = Main
        BY <4>1, <1>4, Orderly
      <4>3. epoll[Leaver[u]] \in {"in", "out"} \/ Leaver[u] \in dropped
        BY <2>1, <4>1 DEF Opened
      <4>4. Leaver[u] # f
        <5>1. Server[t] = f
          BY <1>3, <1>4, <4>1, <4>2, Orderly
        <5>2. epoll[f] = "off" /\ f \notin dropped
          BY <5>1, <1>3, <2>1 DEF Owning, Owned
        <5> QED BY <4>3, <5>2
      <4> QED BY <1>2, <1>7, <4>1, <4>2, <4>3, <4>4
    <3> QED BY <1>3, <3>1, <3>2, <3>3 DEF Opened
  <2>4. TimersAgree'
    <3>1. ASSUME NEW h \in Fd
          PROVE  (/\ epoll'[h] # "none" \/ (OpenCall = "AddEpoll" /\ OpenFd = h)
                  /\ \A u \in Thread : Leaver'[u] # h)
                 <=> (/\ epoll[h] # "none" \/ (OpenCall = "AddEpoll" /\ OpenFd = h)
                      /\ \A u \in Thread : Leaver[u] # h)
      <4>1. CASE h = f
        BY <4>1, <1>3, <1>7, <1>8
      <4>2. CASE h # f
        <5>1. (\A u \in Thread : Leaver'[u] # h) <=> (\A u \in Thread : Leaver[u] # h)
          BY <1>3, <1>7, <4>2, FdAssumption
        <5> QED BY <5>1, <4>2, <1>7
      <4> QED BY <4>1, <4>2
    <3> QED BY <1>2, <1>3, <2>1, <3>1 DEF TimersAgree
  <2> QED BY <2>2, <2>3, <2>4 DEF OwnerPart
<1>10. SessionPart'
  <2> SUFFICES ASSUME ~stolen, ~reused PROVE SessionPart'
    BY <1>2 DEF SessionPart
  <2>1. Unbound /\ Bindings
    BY DEF IInv, SessionPart
  <2>2. \A u \in Thread : Unbinder[u] # f
    BY <2>1, <1>4, <1>8 DEF Unbound
  <2>3. Unbound'
    <3>1. \A u \in Thread : Unbinder'[u] # 0 => open'[Unbinder'[u]] = 0
      <4> SUFFICES ASSUME NEW u \in Thread, Unbinder'[u] # 0 PROVE open'[Unbinder'[u]] = 0
        OBVIOUS
      <4>1. Unbinder'[u] \in Fd
        BY <1>1, <1>3, <1>7, DigestType
      <4> QED BY <4>1, <1>7, <2>1 DEF Unbound
    <3>2. \A u, v \in Thread : Unbinder'[u] = Unbinder'[v] /\ Unbinder'[u] # 0 => u = v
      BY <1>7, <2>1, <2>2 DEF Unbound
    <3> QED BY <1>2, <1>3, <2>1, <3>1, <3>2 DEF Unbound
  <2>4. \A h \in Fd : BoundNow(h)' <=> BoundNow(h)
    <3> SUFFICES ASSUME NEW h \in Fd PROVE BoundNow(h)' <=> BoundNow(h)
      OBVIOUS
    <3>1. CASE h = f
      BY <3>1, <1>7, <1>8 DEF BoundNow
    <3>2. CASE h # f
      BY <3>2, <1>3, <1>4, <1>7, FdAssumption DEF BoundNow
    <3> QED BY <3>1, <3>2
  <2>5. Bindings'
    BY <1>2, <2>1, <2>4 DEF Bindings
  <2> QED BY <2>3, <2>5 DEF SessionPart
<1>11. CountPart'
  <2> SUFFICES ASSUME ~stolen, ~overlap PROVE CountPart'
    BY <1>2 DEF CountPart
  <2>1. Alone /\ Counted
    BY DEF IInv, CountPart
  <2>2. Alone'
    BY <1>2, <1>3, <2>1 DEF Alone
  <2>3. Counts' = Counts \ {f} /\ f \in Counts
    BY <1>3, <1>7, <1>8 DEF Counts
  <2>4. IsFiniteSet(Counts) /\ IsFiniteSet(Subs)
    BY FdAssumption, ThreadAssumption, ThreadFinite, FS_Subset DEF Counts, Subs
  <2>5. /\ Cardinality(Counts) \in Nat /\ Cardinality(Counts') = Cardinality(Counts) - 1
        /\ Cardinality(Subs) \in Nat /\ Cardinality(Subs') = Cardinality(Subs) + 1
    BY <1>3, <2>3, <2>4, FS_RemoveElement, FS_AddElement, FS_CardinalityType
  <2>6. Counted'
    BY <1>2, <2>1, <2>5 DEF Counted
  <2> QED BY <2>2, <2>6 DEF CountPart
<1> QED BY <1>2, <1>3, <1>5, <1>6, <1>9, <1>10, <1>11 DEF IInv

(* Tick is about to close the connection of an expired timer: it closes    *)
(* nobody's, if the connection is not in the pool.                         *)
LEMMA TickNextKeeps ==
  ASSUME IInv, NEW g \in Incarnation, TickNext(g)
  PROVE  IInv'
<1> DEFINE f == home[g]
<1>1. TypeOK /\ Typed /\ SessionTyped /\ Tasks /\ At(Main, "Tick") /\ Main \in Thread
      /\ Start(Main, Job(f, TickClosing)) /\ g \in live
  BY TypeParts, TaskType DEF IInv, TickNext, Typed
<1>2. /\ UNCHANGED <<open, accepted, epoll, session, mode, timers, home, members>>
      /\ UNCHANGED <<num, reg, overlap, queue, sem, dropped, hint, fault, raced, reused>>
      /\ live' = live \ {g} /\ expired' = expired \ {g}
      /\ stolen' = (stolen \/ InPool(f))
  BY DEF TickNext, conn, count, pool
<1>3. f \in Fd /\ f # 0 /\ Now(task[Main]) = "Tick"
  BY <1>1, FdAssumption, Reading DEF IInv, Homes
<1> HIDE DEF f
<1>4. Job(f, TickClosing) \in MainJobs /\ Fresh(Job(f, TickClosing), "DelEpoll", 0, f)
  BY <1>3, MainFresh
<1>5. /\ UNCHANGED <<Server, Unbinder, Subs, Updaters, Lockers, Posts, OpenCall, OpenFd>>
      /\ Leaver' = [Leaver EXCEPT ![Main] = f] /\ Server[Main] = 0 /\ Leaver[Main] = 0
      /\ OpenCall = "none" /\ Tasks'
  BY <1>1, <1>3, <1>4, Switched DEF OpenCalls
<1>6. stolen' \in BOOLEAN /\ (stolen => stolen')
  BY <1>1, <1>2 DEF Typed
<1>7. TypeOK'
  <2>1. Typed'
    BY <1>1, <1>2, <1>6 DEF Typed
  <2>2. SessionTyped'
    BY <1>1, <1>2 DEF SessionTyped
  <2> QED BY <1>5, <2>1, <2>2, TypeWhole
<1>8. Tokens' /\ Homes'
  BY <1>2, <1>5, TokensKept DEF IInv, Homes
<1>9. OwnerPart'
  <2> SUFFICES ASSUME ~stolen, ~InPool(f) PROVE OwnerPart'
    BY <1>2 DEF OwnerPart
  <2>1. Owned(Server, queue, epoll, dropped) /\ Opened /\ TimersAgree
    BY Orderly DEF Owning
  <2>2. Owned(Server, queue, epoll, dropped)'
    BY <1>2, <1>5, <2>1
  <2>3. timers[f] = g
    BY <1>1, <2>1 DEF TimersAgree, f
  <2>4. epoll[f] # "none" /\ \A u \in Thread : Leaver[u] # f
    BY <1>1, <1>3, <1>5, <2>1, <2>3 DEF TimersAgree, f
  <2>5. epoll[f] \in {"in", "out"} \/ f \in dropped
    <3> SUFFICES ASSUME epoll[f] = "off", f \notin dropped PROVE FALSE
      BY <1>1, <1>3, <2>4 DEF Typed
    <3>1. CASE \E i \in 1 .. Len(queue) : queue[i] = f
      BY <3>1 DEF InPool
    <3>2. CASE \E u \in Thread : Server[u] = f
      <4>1. PICK u \in Thread : Server[u] = f
        BY <3>2
      <4>2. u \in Worker /\ u # Main
        BY <4>1, <1>3, <1>5 DEF Thread
      <4>3. Leaver[u] = 0
        BY <2>4, <4>1, <4>2, Orderly, <1>3
      <4>4. task[u].fd = f /\ Now(task[u]) \in {"AdjustTimer", "READ", "WRITE", "DelTimer"}
        BY <1>1, <1>3, <2>4, <4>1, <4>3, AtCall
      <4>5. Now(task[u]) # "AdjustTimer"
        BY <1>1, <4>2, WorkShape DEF Tasks
      <4>6. task[u] # Idle
        BY <4>4, IdleShape
      <4>7. AtAny(u, {"READ", "WRITE", "DelTimer"})
        BY <1>1, <4>4, <4>5, <4>6, Reading
      <4> QED BY <4>2, <4>4, <4>7 DEF InPool
    <3> QED BY <1>3, <2>1, <3>1, <3>2 DEF Owned
  <2>6. \A u \in Thread : Leaver'[u] = IF u = Main THEN f ELSE Leaver[u]
    BY <1>1, <1>5, DigestType
  <2>7. Opened'
    <3>1. ASSUME NEW u \in Thread, Leaver'[u] # 0, Server[u] = 0
          PROVE  epoll[Leaver'[u]] \in {"in", "out"} \/ Leaver'[u] \in dropped
      BY <2>1, <2>5, <2>6, <3>1 DEF Opened
    <3> QED BY <1>2, <1>5, <2>1, <3>1 DEF Opened
  <2>8. TimersAgree'
    <3>1. \A h \in Fd : (timers[h] \in live' /\ home[timers[h]] = h)
                           <=> timers[h] \in live /\ home[timers[h]] = h /\ h # f
      BY <1>1, <1>2, <2>3 DEF f
    <3>2. \A h \in Fd : (\A u \in Thread : Leaver'[u] # h) <=> (\A u \in Thread : Leaver[u] # h) /\ h # f
      BY <1>1, <1>5, <2>6, FdAssumption
    <3> QED BY <1>2, <1>5, <2>1, <3>1, <3>2 DEF TimersAgree
  <2> QED BY <2>2, <2>7, <2>8 DEF OwnerPart
<1>10. SessionPart' /\ CountPart'
  BY <1>2, <1>5, <1>6, SessionKept, CountKept DEF IInv
<1> QED BY <1>2, <1>5, <1>6, <1>7, <1>8, <1>9, <1>10 DEF IInv

(* The connection's slot gets its session, and the counter is loaded.      *)
LEMMA EstablishKeeps ==
  ASSUME IInv, Establish
  PROVE  IInv'
<1> DEFINE f == task[Main].fd
<1>1. TypeOK /\ Typed /\ SessionTyped /\ Tasks /\ At(Main, "Establish") /\ Done(Main) /\ Main \in Thread
  BY TypeParts, TaskType DEF IInv, Establish
<1>2. PICK s \in Session : session' = [session EXCEPT ![f] = s]
  BY DEF Establish
<1>3. /\ UNCHANGED <<open, accepted, epoll, mode, timers, home, live, expired, members>>
      /\ UNCHANGED <<num, queue, sem, dropped, hint, fault, raced, stolen, reused>>
      /\ reg' = [reg EXCEPT ![Main] = num]
      /\ overlap' = (overlap \/ \E u \in Thread \ {Main} : AtAny(u, {"add", "sub"}))
  BY DEF Establish, Load, time, pool, ghost
<1>4. /\ UNCHANGED <<Server, Leaver, Unbinder, Subs, Lockers, Posts, OpenFd>>
      /\ Updaters' = Updaters \union {Main} /\ Main \notin Updaters
      /\ OpenCall = "Establish" /\ OpenCall' \in Following("Establish") /\ OpenFd = f
      /\ Tasks' /\ f \in Fd
  BY <1>1, Making DEF OpenCalls, Call
<1> HIDE DEF f
<1>5. OpenCall' = "add"
  BY <1>4 DEF Following
<1>6. overlap' \in BOOLEAN /\ (overlap => overlap')
      /\ (~overlap' => \A u \in Thread \ {Main} : u \notin Updaters)
  <2>1. \A u \in Thread : u \in Updaters => AtAny(u, {"add", "sub"})
    BY <1>1, AtCall, Reading, IdleShape
  <2> QED BY <1>1, <1>3, <2>1 DEF Typed
<1>7. TypeOK'
  <2>1. Typed'
    BY <1>1, <1>3, <1>6 DEF Typed
  <2>2. SessionTyped'
    BY <1>1, <1>2 DEF SessionTyped
  <2> QED BY <1>4, <2>1, <2>2, TypeWhole
<1>8. Tokens' /\ Homes'
  BY <1>3, <1>4, <1>5, TokensKept DEF IInv, Homes
<1>9. OwnerPart'
  BY <1>3, <1>4, <1>5 DEF IInv, OwnerPart, Opened, TimersAgree
<1>10. SessionPart'
  <2> SUFFICES ASSUME ~stolen, ~reused PROVE SessionPart'
    BY <1>3 DEF SessionPart
  <2>1. Unbound /\ Bindings
    BY DEF IInv, SessionPart
  <2>2. open[f] # 0 /\ epoll[f] = "none"
    BY <1>4, Orderly
  <2>3. \A u \in Thread : Unbinder[u] # f
    BY <1>4, <2>1, <2>2, FdAssumption DEF Unbound
  <2>4. session'[f] = s /\ \A h \in Fd : h # f => session'[h] = session[h]
    BY <1>1, <1>2, <1>4 DEF SessionTyped
  <2>5. Unbound'
    BY <1>3, <1>4, <2>1, <2>4 DEF Unbound
  <2>6. \A h \in Fd : IF h = f THEN ~BoundNow(h) /\ ~BoundNow(h)' ELSE BoundNow(h)' <=> BoundNow(h)
    BY <1>3, <1>4, <1>5, <2>2, <2>3 DEF BoundNow
  <2>7. Bindings'
    BY <1>3, <1>4, <2>1, <2>4, <2>6 DEF Bindings
  <2> QED BY <2>5, <2>7 DEF SessionPart
<1>11. CountPart'
  <2> SUFFICES ASSUME ~stolen, ~overlap' PROVE CountPart'
    BY <1>3 DEF CountPart
  <2>1. Alone /\ Counted
    BY <1>6 DEF IInv, CountPart
  <2>2. Updaters' = {Main} /\ reg'[Main] = num
    BY <1>1, <1>3, <1>4, <1>6, DigestType DEF Typed
  <2>3. Alone'
    BY <1>3, <1>4, <2>1, <2>2 DEF Alone
  <2>4. Counts' = Counts
    BY <1>3, <1>4, <1>5 DEF Counts
  <2>5. Counted'
    BY <1>3, <1>4, <2>1, <2>4 DEF Counted
  <2> QED BY <2>3, <2>5 DEF CountPart
<1> QED BY <1>3, <1>4, <1>7, <1>8, <1>9, <1>10, <1>11 DEF IInv

(* ++ and -- modulo the counter's range.                                   *)
LEMMA Counting ==
  /\ \A n \in 0 .. UnsignedRange - 1 : /\ (n + 1) % UnsignedRange \in 0 .. UnsignedRange - 1
                                      /\ (n + UnsignedRange - 1) % UnsignedRange \in 0 .. UnsignedRange - 1
  /\ \A n \in Nat : n + 1 < UnsignedRange => (n + 1) % UnsignedRange = n + 1
  /\ \A n \in 1 .. UnsignedRange - 1 : (n + UnsignedRange - 1) % UnsignedRange = n - 1
<1>1. UnsignedRange \in Nat \ {0}
  BY SizeAssumption
<1>2. \A n \in Nat : n % UnsignedRange \in 0 .. UnsignedRange - 1
  BY <1>1, SMTT(30)
<1>3. \A n \in Nat : n < UnsignedRange => n % UnsignedRange = n
  BY <1>1, SMTT(30)
<1>4. \A n \in 0 .. UnsignedRange - 1 : (n + UnsignedRange) % UnsignedRange = n
  BY <1>1, SMTT(30)
<1>5. ASSUME NEW n \in 1 .. UnsignedRange - 1
      PROVE  (n + UnsignedRange - 1) % UnsignedRange = n - 1
  <2>1. n - 1 \in 0 .. UnsignedRange - 1 /\ n + UnsignedRange - 1 = (n - 1) + UnsignedRange
    BY <1>1
  <2> QED BY <1>4, <2>1
<1>6. ASSUME NEW n \in 0 .. UnsignedRange - 1
      PROVE  /\ (n + 1) % UnsignedRange \in 0 .. UnsignedRange - 1
             /\ (n + UnsignedRange - 1) % UnsignedRange \in 0 .. UnsignedRange - 1
  <2>1. n + 1 \in Nat /\ n + UnsignedRange - 1 \in Nat
    BY <1>1
  <2> QED BY <1>2, <2>1
<1>7. ASSUME NEW n \in Nat, n + 1 < UnsignedRange PROVE (n + 1) % UnsignedRange = n + 1
  <2>1. n + 1 \in Nat
    OBVIOUS
  <2> QED BY <1>3, <1>7, <2>1
<1> QED BY <1>5, <1>6, <1>7

(* The counter is stored: one more connection.                             *)
LEMMA IncrementKeeps ==
  ASSUME IInv, Increment
  PROVE  IInv'
<1> DEFINE f == task[Main].fd
<1>1. TypeOK /\ Typed /\ SessionTyped /\ Tasks /\ At(Main, "add") /\ Done(Main) /\ Main \in Thread
  BY TypeParts, TaskType DEF IInv, Increment
<1>2. /\ UNCHANGED <<open, accepted, epoll, session, mode, timers, home, live, expired, members>>
      /\ UNCHANGED <<overlap, queue, sem, dropped, hint, fault, raced, stolen, reused>>
      /\ num' = (reg[Main] + 1) % UnsignedRange /\ reg' = [reg EXCEPT ![Main] = 0]
  BY DEF Increment, Store, conn, time, pool, ghost
<1>3. /\ UNCHANGED <<Server, Leaver, Unbinder, Subs, Lockers, Posts, OpenFd>>
      /\ Updaters' = Updaters \ {Main} /\ Main \in Updaters
      /\ OpenCall = "add" /\ OpenCall' \in Following("add") /\ OpenFd = f
      /\ Tasks' /\ f \in Fd
  BY <1>1, Making DEF OpenCalls, Call
<1> HIDE DEF f
<1>4. OpenCall' = "bind"
  BY <1>3 DEF Following
<1>5. TypeOK'
  <2>1. num' \in 0 .. UnsignedRange - 1 /\ reg' \in [Thread -> 0 .. UnsignedRange - 1]
    <3>1. 0 \in 0 .. UnsignedRange - 1 /\ reg[Main] \in 0 .. UnsignedRange - 1
      BY <1>1, SizeAssumption DEF Typed
    <3> QED BY <1>1, <1>2, <3>1, Counting DEF Typed
  <2>2. Typed'
    BY <1>1, <1>2, <2>1 DEF Typed
  <2>3. SessionTyped'
    BY <1>1, <1>2 DEF SessionTyped
  <2> QED BY <1>3, <2>2, <2>3, TypeWhole
<1>6. Tokens' /\ Homes'
  BY <1>2, <1>3, <1>4, TokensKept DEF IInv, Homes
<1>7. OwnerPart'
  BY <1>2, <1>3, <1>4 DEF IInv, OwnerPart, Opened, TimersAgree
<1>8. SessionPart'
  BY <1>2, <1>3, <1>4 DEF IInv, SessionPart, Unbound, Bindings, BoundNow
<1>9. CountPart'
  <2> SUFFICES ASSUME ~stolen, ~overlap PROVE CountPart'
    BY <1>2 DEF CountPart
  <2>1. Alone /\ Counted
    BY DEF IInv, CountPart
  <2>2. reg[Main] = num /\ num < ConnectionMax /\ num \in Nat
    BY <1>1, <1>3, <2>1, SizeAssumption DEF Alone, Typed
  <2>3. num' = num + 1
    BY <1>2, <2>2, Counting, SizeAssumption
  <2>4. Updaters' = {}
    BY <1>3, <2>1 DEF Alone
  <2>5. Alone'
    BY <1>4, <2>4 DEF Alone
  <2>6. Counts' = Counts \union {f} /\ f \notin Counts
    <3>1. epoll[f] = "none"
      BY <1>3, Orderly
    <3> QED BY <1>2, <1>3, <1>4, <3>1 DEF Counts
  <2>7. /\ Cardinality(Counts) \in Nat /\ Cardinality(Counts') = Cardinality(Counts) + 1
        /\ Cardinality(Subs) \in Nat
    BY <2>6, FdAssumption, ThreadFinite, FS_Subset, FS_AddElement, FS_CardinalityType DEF Counts, Subs
  <2>8. Counted'
    BY <1>3, <2>1, <2>3, <2>7 DEF Counted
  <2> QED BY <2>5, <2>8 DEF CountPart
<1> QED BY <1>2, <1>3, <1>5, <1>6, <1>7, <1>8, <1>9 DEF IInv

(* The counter is loaded, to be decremented.                               *)
LEMMA BeginDecrementKeeps ==
  ASSUME IInv, NEW t \in Thread, BeginDecrement(t)
  PROVE  IInv'
<1>1. TypeOK /\ Typed /\ SessionTyped /\ Tasks /\ At(t, "load") /\ Done(t)
  BY TypeParts DEF IInv, BeginDecrement
<1>2. /\ UNCHANGED <<open, accepted, epoll, session, mode, timers, home, live, expired, members>>
      /\ UNCHANGED <<num, queue, sem, dropped, hint, fault, raced, stolen, reused>>
      /\ reg' = [reg EXCEPT ![t] = num]
      /\ overlap' = (overlap \/ \E u \in Thread \ {t} : AtAny(u, {"add", "sub"}))
  BY DEF BeginDecrement, Load, conn, time, pool, ghost
<1>3. /\ UNCHANGED <<Server, Leaver, Unbinder, Subs, Lockers, Posts, OpenCall, OpenFd>>
      /\ Updaters' = Updaters \union {t} /\ t \notin Updaters /\ Tasks'
  BY <1>1, Making DEF OpenCalls, Call
<1>4. overlap' \in BOOLEAN /\ (overlap => overlap')
      /\ (~overlap' => \A u \in Thread \ {t} : u \notin Updaters)
  <2>1. \A u \in Thread : u \in Updaters => AtAny(u, {"add", "sub"})
    BY <1>1, AtCall, Reading, IdleShape
  <2> QED BY <1>1, <1>2, <2>1 DEF Typed
<1>5. TypeOK'
  <2>1. Typed'
    BY <1>1, <1>2, <1>4 DEF Typed
  <2>2. SessionTyped'
    BY <1>1, <1>2 DEF SessionTyped
  <2> QED BY <1>3, <2>1, <2>2, TypeWhole
<1>6. Tokens' /\ Homes' /\ OwnerPart' /\ SessionPart'
  BY <1>2, <1>3, TokensKept, HomesKept, OwnerKept, SessionKept DEF IInv
<1>7. CountPart'
  <2> SUFFICES ASSUME ~stolen, ~overlap' PROVE CountPart'
    BY <1>2 DEF CountPart
  <2>1. Alone /\ Counted
    BY <1>4 DEF IInv, CountPart
  <2>2. Updaters' = {t} /\ reg'[t] = num
    BY <1>1, <1>2, <1>3, <1>4, DigestType DEF Typed
  <2>3. Alone'
    BY <1>2, <1>3, <2>1, <2>2 DEF Alone
  <2>4. Counts' = Counts
    BY <1>2, <1>3 DEF Counts
  <2>5. Counted'
    BY <1>2, <1>3, <2>1, <2>4 DEF Counted
  <2> QED BY <2>3, <2>5 DEF CountPart
<1> QED BY <1>2, <1>3, <1>5, <1>6, <1>7 DEF IInv

(* The counter is stored: one connection less.                             *)
LEMMA DecrementKeeps ==
  ASSUME IInv, NEW t \in Thread, Decrement(t)
  PROVE  IInv'
<1>1. TypeOK /\ Typed /\ SessionTyped /\ Tasks /\ At(t, "sub") /\ Done(t)
  BY TypeParts DEF IInv, Decrement
<1>2. /\ UNCHANGED <<open, accepted, epoll, session, mode, timers, home, live, expired, members>>
      /\ UNCHANGED <<overlap, queue, sem, dropped, hint, fault, raced, stolen, reused>>
      /\ num' = (reg[t] + UnsignedRange - 1) % UnsignedRange /\ reg' = [reg EXCEPT ![t] = 0]
  BY DEF Decrement, Store, conn, time, pool, ghost
<1>3. /\ UNCHANGED <<Server, Leaver, Unbinder, Lockers, Posts, OpenCall, OpenFd>>
      /\ Updaters' = Updaters \ {t} /\ t \in Updaters /\ Subs' = Subs \ {t} /\ t \in Subs /\ Tasks'
  BY <1>1, Making DEF OpenCalls, Call
<1>4. TypeOK'
  <2>1. num' \in 0 .. UnsignedRange - 1 /\ reg' \in [Thread -> 0 .. UnsignedRange - 1]
    <3>1. 0 \in 0 .. UnsignedRange - 1 /\ reg[t] \in 0 .. UnsignedRange - 1
      BY <1>1, SizeAssumption DEF Typed
    <3> QED BY <1>1, <1>2, <3>1, Counting DEF Typed
  <2>2. Typed'
    BY <1>1, <1>2, <2>1 DEF Typed
  <2>3. SessionTyped'
    BY <1>1, <1>2 DEF SessionTyped
  <2> QED BY <1>3, <2>2, <2>3, TypeWhole
<1>5. Tokens' /\ Homes' /\ OwnerPart' /\ SessionPart'
  BY <1>2, <1>3, TokensKept, HomesKept, OwnerKept, SessionKept DEF IInv
<1>6. CountPart'
  <2> SUFFICES ASSUME ~stolen, ~overlap PROVE CountPart'
    BY <1>2 DEF CountPart
  <2>1. Alone /\ Counted
    BY DEF IInv, CountPart
  <2>2. Counts' = Counts
    BY <1>2, <1>3 DEF Counts
  <2>3. /\ Cardinality(Counts) \in Nat /\ Cardinality(Subs) \in Nat
        /\ Cardinality(Subs') = Cardinality(Subs) - 1 /\ Cardinality(Subs') \in Nat
    <3>1. IsFiniteSet(Counts) /\ IsFiniteSet(Subs)
      BY FdAssumption, ThreadFinite, FS_Subset DEF Counts, Subs
    <3>2. IsFiniteSet(Subs')
      BY <1>3, <3>1, FS_RemoveElement
    <3> QED BY <1>3, <3>1, <3>2, FS_RemoveElement, FS_CardinalityType
  <2>4. reg[t] = num /\ num \in 0 .. UnsignedRange - 1
    BY <1>1, <1>3, <2>1 DEF Alone, Typed
  <2>5. num \in 1 .. UnsignedRange - 1
    BY <2>1, <2>3, <2>4, SizeAssumption DEF Counted
  <2>6. num' = num - 1
    BY <1>2, <2>4, <2>5, Counting
  <2>7. Updaters' = {} /\ num' \in Int
    BY <1>3, <2>1, <2>4, <2>6, SizeAssumption DEF Alone
  <2>8. Alone'
    BY <1>3, <2>1, <2>4, <2>6, <2>7, SizeAssumption DEF Alone
  <2>9. Counted'
    BY <2>1, <2>2, <2>3, <2>4, <2>6, SizeAssumption DEF Counted
  <2> QED BY <2>8, <2>9 DEF CountPart
<1> QED BY <1>2, <1>3, <1>4, <1>5, <1>6 DEF IInv

(* The connection becomes a member of its session.                         *)
LEMMA BindKeeps ==
  ASSUME IInv, Bind
  PROVE  IInv'
<1> DEFINE f == task[Main].fd
<1>1. TypeOK /\ Typed /\ SessionTyped /\ Tasks /\ At(Main, "bind") /\ Done(Main) /\ Main \in Thread
  BY TypeParts, TaskType DEF IInv, Bind
<1>2. /\ UNCHANGED <<open, accepted, epoll, session, mode, timers, home, live, expired>>
      /\ UNCHANGED <<num, reg, overlap, queue, sem, dropped, hint, fault, raced, stolen, reused>>
      /\ members' = [members EXCEPT ![session[f]] = @ \union {f}]
  BY DEF Bind, conn, time, count, pool, ghost
<1>3. /\ UNCHANGED <<Server, Leaver, Unbinder, Subs, Updaters, Lockers, Posts, OpenFd>>
      /\ OpenCall = "bind" /\ OpenCall' \in Following("bind") /\ OpenFd = f
      /\ Tasks' /\ f \in Fd
  BY <1>1, Making DEF OpenCalls, Call
<1> HIDE DEF f
<1>4. OpenCall' = "AddTimer"
  BY <1>3 DEF Following
<1>5. \A s \in Session : members'[s] = IF s = session[f] THEN members[s] \union {f} ELSE members[s]
  BY <1>1, <1>2 DEF Typed
<1>6. TypeOK'
  <2>1. members' \in [Session -> SUBSET Fd]
    BY <1>1, <1>2, <1>3, <1>5 DEF Typed
  <2>2. Typed'
    BY <1>1, <1>2, <2>1 DEF Typed
  <2>3. SessionTyped'
    BY <1>1, <1>2 DEF SessionTyped
  <2> QED BY <1>3, <2>2, <2>3, TypeWhole
<1>7. Tokens' /\ Homes'
  BY <1>2, <1>3, <1>4, TokensKept DEF IInv, Homes
<1>8. OwnerPart'
  BY <1>2, <1>3, <1>4 DEF IInv, OwnerPart, Opened, TimersAgree
<1>9. SessionPart'
  <2> SUFFICES ASSUME ~stolen, ~reused PROVE SessionPart'
    BY <1>2 DEF SessionPart
  <2>1. Unbound /\ Bindings
    BY DEF IInv, SessionPart
  <2>2. Unbound'
    BY <1>2, <1>3, <1>4, <2>1 DEF Unbound
  <2>3. \A h \in Fd : IF h = f THEN BoundNow(h)' ELSE BoundNow(h)' <=> BoundNow(h)
    BY <1>2, <1>3, <1>4 DEF BoundNow
  <2>4. Bindings'
    BY <1>2, <1>3, <1>5, <2>1, <2>3 DEF Bindings
  <2> QED BY <2>2, <2>4 DEF SessionPart
<1>10. CountPart'
  <2>1. Counts' = Counts
    BY <1>2, <1>3, <1>4 DEF Counts
  <2> QED BY <1>2, <1>3, <1>4, <2>1 DEF IInv, CountPart, Alone, Counted
<1> QED BY <1>2, <1>3, <1>6, <1>7, <1>8, <1>9, <1>10 DEF IInv

(* A closed connection leaves the session it was bound to.                 *)
LEMMA EraseKeeps ==
  ASSUME IInv, NEW t \in Thread, Erase(t)
  PROVE  IInv'
<1> DEFINE f == task[t].fd
<1>1. TypeOK /\ Typed /\ SessionTyped /\ Tasks /\ At(t, "erase") /\ Done(t)
  BY TypeParts, TaskType DEF IInv, Erase
<1>2. /\ UNCHANGED <<open, accepted, epoll, session, mode, timers, home, live, expired>>
      /\ UNCHANGED <<num, reg, overlap, queue, sem, dropped, hint, fault, raced, stolen, reused>>
      /\ members' = [members EXCEPT ![session[f]] = @ \ {f}]
  BY DEF Erase, conn, time, count, pool, ghost
<1>3. /\ UNCHANGED <<Server, Leaver, Subs, Updaters, Lockers, Posts, OpenCall, OpenFd>>
      /\ Unbinder' = [Unbinder EXCEPT ![t] = 0] /\ Unbinder[t] = f
      /\ Tasks' /\ f \in Fd
  BY <1>1, Making DEF OpenCalls, Call
<1> HIDE DEF f
<1>4. \A s \in Session : members'[s] = IF s = session[f] THEN members[s] \ {f} ELSE members[s]
  BY <1>1, <1>2 DEF Typed
<1>5. TypeOK'
  <2>1. members' \in [Session -> SUBSET Fd]
    BY <1>1, <1>2, <1>3, <1>4 DEF Typed
  <2>2. Typed'
    BY <1>1, <1>2, <2>1 DEF Typed
  <2>3. SessionTyped'
    BY <1>1, <1>2 DEF SessionTyped
  <2> QED BY <1>3, <2>2, <2>3, TypeWhole
<1>6. Tokens' /\ Homes' /\ OwnerPart' /\ CountPart'
  BY <1>2, <1>3, TokensKept, HomesKept, OwnerKept, CountKept DEF IInv
<1>7. SessionPart'
  <2> SUFFICES ASSUME ~stolen, ~reused PROVE SessionPart'
    BY <1>2 DEF SessionPart
  <2>1. Unbound /\ Bindings
    BY DEF IInv, SessionPart
  <2>2. \A u \in Thread : Unbinder'[u] = IF u = t THEN 0 ELSE Unbinder[u]
    BY <1>1, <1>3, DigestType
  <2>3. Unbound'
    BY <1>2, <1>3, <2>1, <2>2 DEF Unbound
  <2>4. /\ f # 0 /\ open[f] = 0 /\ \A u \in Thread : Unbinder[u] = f => u = t
    BY <1>3, <2>1, FdAssumption DEF Unbound
  <2>5. epoll[f] = "none" /\ (OpenCall # "none" => OpenFd # f)
    BY <1>3, <2>4, Orderly DEF Opened
  <2>6. \A h \in Fd : IF h = f THEN ~BoundNow(h)' ELSE BoundNow(h)' <=> BoundNow(h)
    BY <1>2, <1>3, <2>2, <2>4, <2>5, FdAssumption DEF BoundNow
  <2>7. Bindings'
    BY <1>2, <1>3, <1>4, <2>1, <2>6 DEF Bindings
  <2> QED BY <2>3, <2>7 DEF SessionPart
<1> QED BY <1>2, <1>3, <1>5, <1>6, <1>7 DEF IInv

(* The connection gets its timer.                                          *)
LEMMA AddTimerKeeps ==
  ASSUME IInv, AddTimer
  PROVE  IInv'
<1> DEFINE f == task[Main].fd
<1>1. TypeOK /\ Typed /\ SessionTyped /\ Tasks /\ At(Main, "AddTimer") /\ Done(Main) /\ Main \in Thread
  BY TypeParts, TaskType DEF IInv, AddTimer
<1>2. /\ UNCHANGED <<open, accepted, epoll, session, mode, expired, members>>
      /\ UNCHANGED <<num, reg, overlap, queue, sem, dropped, raced, stolen, reused>>
      /\ timers' = [timers EXCEPT ![f] = accepted] /\ home' = [home EXCEPT ![accepted] = f]
      /\ live' = live \union {accepted} /\ hint' = 0 /\ fault' \in BOOLEAN
  BY DEF AddTimer, Insert, conn, count, pool
<1>3. /\ UNCHANGED <<Server, Leaver, Unbinder, Subs, Updaters, Lockers, Posts, OpenFd>>
      /\ OpenCall = "AddTimer" /\ OpenCall' \in Following("AddTimer") /\ OpenFd = f
      /\ Tasks' /\ f \in Fd
  BY <1>1, Making DEF OpenCalls, Call
<1> HIDE DEF f
<1>4. OpenCall' = "AddEpoll"
  BY <1>3 DEF Following
<1>5. Homes /\ accepted \notin live /\ accepted \in Incarnation
  BY <1>1, <1>3, SizeAssumption DEF IInv, Homes, Typed, Incarnation
<1>6. /\ \A h \in Fd : timers'[h] = IF h = f THEN accepted ELSE timers[h]
      /\ \A g \in Incarnation : home'[g] = IF g = accepted THEN f ELSE home[g]
      /\ live \subseteq Incarnation
  BY <1>1, <1>2 DEF Typed
<1>7. TypeOK'
  <2>1. /\ timers' \in [Fd -> 0 .. MaxAccept] /\ home' \in [Incarnation -> Fd \union {0}]
        /\ expired \subseteq live' /\ live' \subseteq Incarnation
    BY <1>1, <1>2, <1>3, <1>5 DEF Typed
  <2>2. Typed'
    BY <1>1, <1>2, <2>1, SizeAssumption DEF Typed
  <2>3. SessionTyped'
    BY <1>1, <1>2 DEF SessionTyped
  <2> QED BY <1>3, <2>2, <2>3, TypeWhole
<1>8. Tokens'
  BY <1>2, <1>3, TokensKept DEF IInv
<1>9. Homes'
  BY <1>1, <1>2, <1>3, <1>4, <1>5, <1>6 DEF Homes, Typed
<1>10. OwnerPart'
  <2> SUFFICES ASSUME ~stolen PROVE OwnerPart'
    BY <1>2 DEF OwnerPart
  <2>1. Owned(Server, queue, epoll, dropped) /\ Opened /\ TimersAgree
    BY Orderly DEF Owning
  <2>2. Owned(Server, queue, epoll, dropped)'
    BY <1>2, <1>3, <2>1
  <2>3. Opened'
    BY <1>2, <1>3, <1>4, <2>1 DEF Opened
  <2>4. epoll[f] = "none" /\ \A u \in Thread : Leaver[u] # f
    BY <1>3, Orderly, FdAssumption
  <2>5. \A g \in live : home[g] # f
    BY <1>3, <2>1, <2>4 DEF TimersAgree
  <2>6. \A g \in live' : timers'[home'[g]] = g
    <3> SUFFICES ASSUME NEW g \in live' PROVE timers'[home'[g]] = g
      OBVIOUS
    <3>1. CASE g = accepted
      BY <3>1, <1>3, <1>5, <1>6
    <3>2. CASE g # accepted
      <4>1. g \in live /\ home[g] \in Fd /\ home[g] # f /\ timers[home[g]] = g /\ home'[g] = home[g]
        BY <3>2, <1>2, <1>5, <1>6, <2>1, <2>5 DEF Homes, TimersAgree
      <4> QED BY <4>1, <1>6
    <3> QED BY <3>1, <3>2
  <2>7. ASSUME NEW h \in Fd
        PROVE  timers'[h] \in live' /\ home'[timers'[h]] = h
               <=> (/\ epoll'[h] # "none" \/ (OpenCall' = "AddEpoll" /\ OpenFd' = h)
                    /\ \A u \in Thread : Leaver'[u] # h)
    <3>1. CASE h = f
      BY <3>1, <1>2, <1>3, <1>4, <1>5, <1>6, <2>4
    <3>2. CASE h # f
      <4>1. timers'[h] = timers[h]
        BY <3>2, <1>6
      <4>2. timers'[h] \in live' /\ home'[timers'[h]] = h <=> timers[h] \in live /\ home[timers[h]] = h
        BY <4>1, <3>2, <1>2, <1>5, <1>6
      <4>3. timers[h] \in live /\ home[timers[h]] = h
            <=> epoll[h] # "none" /\ \A u \in Thread : Leaver[u] # h
        BY <1>3, <2>1 DEF TimersAgree
      <4> QED BY <4>2, <4>3, <3>2, <1>2, <1>3
    <3> QED BY <3>1, <3>2
  <2>8. TimersAgree'
    BY <2>6, <2>7 DEF TimersAgree
  <2> QED BY <2>2, <2>3, <2>8 DEF OwnerPart
<1>11. SessionPart'
  BY <1>2, <1>3, <1>4 DEF IInv, SessionPart, Unbound, Bindings, BoundNow
<1>12. CountPart'
  <2>1. Counts' = Counts
    BY <1>2, <1>3, <1>4 DEF Counts
  <2> QED BY <1>2, <1>3, <1>4, <2>1 DEF IInv, CountPart, Alone, Counted
<1> QED BY <1>2, <1>3, <1>7, <1>8, <1>9, <1>10, <1>11, <1>12 DEF IInv

(* The connection is watched, and its handler returns.                     *)
LEMMA AddEpollKeeps ==
  ASSUME IInv, AddEpoll
  PROVE  IInv'
<1> DEFINE f == task[Main].fd
<1>1. TypeOK /\ Typed /\ SessionTyped /\ Tasks /\ At(Main, "AddEpoll") /\ Done(Main) /\ Main \in Thread
  BY TypeParts, TaskType DEF IInv, AddEpoll
<1>2. /\ UNCHANGED <<open, accepted, session, mode, timers, home, live, expired, members>>
      /\ UNCHANGED <<num, reg, overlap, queue, sem, dropped, hint, fault, raced, stolen, reused>>
      /\ epoll' = [epoll EXCEPT ![f] = IF open[f] = 0 THEN epoll[f] ELSE "in"]
  BY DEF AddEpoll, time, count, pool, ghost
<1>3. /\ UNCHANGED <<Server, Leaver, Unbinder, Subs, Updaters, Lockers, Posts>>
      /\ OpenCall = "AddEpoll" /\ OpenFd = f /\ OpenCall' = "none" /\ OpenFd' = 0
      /\ Tasks' /\ f \in Fd
  BY <1>1, Making DEF OpenCalls, Call
<1> HIDE DEF f
<1>4. TypeOK'
  <2>1. epoll' \in [Fd -> {"none", "in", "out", "off"}]
    BY <1>1, <1>2, <1>3 DEF Typed
  <2>2. Typed'
    BY <1>1, <1>2, <2>1 DEF Typed
  <2>3. SessionTyped'
    BY <1>1, <1>2 DEF SessionTyped
  <2> QED BY <1>3, <2>2, <2>3, TypeWhole
<1>5. Tokens' /\ Homes'
  BY <1>2, <1>3, TokensKept DEF IInv, Homes
<1>6. ~stolen => /\ open[f] # 0 /\ epoll[f] = "none" /\ epoll' = [epoll EXCEPT ![f] = "in"]
                 /\ \A h \in Fd : epoll'[h] = IF h = f THEN "in" ELSE epoll[h]
  <2> SUFFICES ASSUME ~stolen
               PROVE  /\ open[f] # 0 /\ epoll[f] = "none" /\ epoll' = [epoll EXCEPT ![f] = "in"]
                      /\ \A h \in Fd : epoll'[h] = IF h = f THEN "in" ELSE epoll[h]
    OBVIOUS
  <2>1. open[f] # 0 /\ epoll[f] = "none"
    BY <1>3, Orderly
  <2>2. epoll' = [epoll EXCEPT ![f] = "in"]
    BY <1>2, <2>1
  <2> QED BY <1>1, <2>1, <2>2 DEF Typed
<1>7. f # 0
  BY <1>3, FdAssumption
<1>8. OwnerPart'
  <2> SUFFICES ASSUME ~stolen PROVE OwnerPart'
    BY <1>2 DEF OwnerPart
  <2>1. Owning(Server, queue, epoll, dropped) /\ Opened /\ TimersAgree
    BY Orderly
  <2>2. Owned(Server, queue, epoll, dropped)'
    BY <1>2, <1>3, <1>6, <2>1, OwnedNewly
  <2>3. Opened'
    <3>1. \A h \in Fd : epoll'[h] # "none" => open[h] # 0
      BY <1>6, <2>1 DEF Opened
    <3>2. ASSUME NEW u \in Thread, Leaver[u] # 0, Server[u] = 0
          PROVE  epoll'[Leaver[u]] \in {"in", "out"} \/ Leaver[u] \in dropped
      <4>1. Leaver[u] \in Fd
        BY <3>2, Orderly
      <4> QED BY <4>1, <3>2, <1>6, <2>1 DEF Opened
    <3> QED BY <1>2, <1>3, <3>1, <3>2 DEF Opened
  <2>4. TimersAgree'
    <3>1. \A h \in Fd : (epoll'[h] # "none" \/ (OpenCall' = "AddEpoll" /\ OpenFd' = h))
                        <=> (epoll[h] # "none" \/ (OpenCall = "AddEpoll" /\ OpenFd = h))
      BY <1>3, <1>6
    <3> QED BY <1>2, <1>3, <2>1, <3>1 DEF TimersAgree
  <2> QED BY <2>2, <2>3, <2>4 DEF OwnerPart
<1>9. SessionPart'
  <2> SUFFICES ASSUME ~stolen, ~reused PROVE SessionPart'
    BY <1>2 DEF SessionPart
  <2>1. Unbound /\ Bindings
    BY DEF IInv, SessionPart
  <2>2. Unbound'
    BY <1>2, <1>3, <2>1 DEF Unbound
  <2>3. \A h \in Fd : BoundNow(h)' <=> BoundNow(h)
    BY <1>3, <1>6 DEF BoundNow
  <2>4. Bindings'
    BY <1>2, <2>1, <2>3 DEF Bindings
  <2> QED BY <2>2, <2>4 DEF SessionPart
<1>10. CountPart'
  <2> SUFFICES ASSUME ~stolen, ~overlap PROVE CountPart'
    BY <1>2 DEF CountPart
  <2>1. Counts' = Counts
    BY <1>3, <1>6 DEF Counts
  <2> QED BY <1>2, <1>3, <2>1 DEF IInv, CountPart, Alone, Counted
<1> QED BY <1>2, <1>3, <1>4, <1>5, <1>8, <1>9, <1>10 DEF IInv

(* append: the main thread hands the connection to the queue, or to nobody *)
(* when the queue is full.                                                 *)
LEMMA EnqueueKeeps ==
  ASSUME IInv, NEW m \in {"READ", "WRITE"}, Enqueue(m)
  PROVE  IInv'
<1> DEFINE f == task[Main].fd
<1>1. TypeOK /\ Typed /\ SessionTyped /\ Tasks /\ At(Main, m) /\ Main \in Thread
  BY TypeParts, TaskType DEF IInv, Enqueue
<1>2. /\ UNCHANGED <<open, accepted, epoll, session, timers, home, live, expired, members>>
      /\ UNCHANGED <<num, reg, overlap, sem, hint, fault, raced, stolen, reused>>
      /\ \/ Len(queue) >= QueueMax /\ Start(Main, Idle) /\ dropped' = dropped \union {f}
            /\ UNCHANGED <<queue, mode>>
         \/ ~(Len(queue) >= QueueMax) /\ Done(Main) /\ mode' = [mode EXCEPT ![f] = m]
            /\ queue' = Append(queue, f) /\ dropped' = dropped
  BY DEF Enqueue, time, count, ghost
<1>3. f \in Fd /\ Server[Main] = f /\ Leaver[Main] = 0 /\ Posts = 0 /\ Now(task[Main]) = m
  BY <1>1, AtCall, Reading DEF Shape
<1>4. /\ UNCHANGED <<Leaver, Unbinder, Subs, Updaters, Lockers, OpenCall, OpenFd>>
      /\ Server' = [Server EXCEPT ![Main] = 0] /\ Tasks'
      /\ Posts' = IF Len(queue) >= QueueMax THEN 0 ELSE 1
  <2>1. CASE Start(Main, Idle) /\ Len(queue) >= QueueMax
    BY <1>1, <1>3, <2>1, IdleFresh, Switched DEF OpenCalls
  <2>2. CASE Done(Main) /\ ~(Len(queue) >= QueueMax)
    BY <1>1, <2>2, Making DEF OpenCalls, Call
  <2> QED BY <1>2, <2>1, <2>2
<1> HIDE DEF f
<1>5. f # 0 /\ Len(queue) \in Nat /\ Len(queue) <= QueueMax /\ queue \in Seq(Fd)
  BY <1>1, <1>3, FdAssumption DEF Typed
<1>6. TypeOK'
  <2>1. queue' \in Seq(Fd) /\ Len(queue') <= QueueMax /\ dropped' \subseteq Fd
    <3>1. CASE queue' = Append(queue, f) /\ ~(Len(queue) >= QueueMax)
      <4>1. queue' \in Seq(Fd) /\ Len(queue') = Len(queue) + 1
        BY <1>3, <1>5, <3>1
      <4> QED BY <1>1, <1>2, <1>5, <3>1, <4>1, SizeAssumption DEF Typed
    <3>2. CASE queue' = queue /\ dropped' = dropped \union {f}
      BY <1>1, <1>3, <1>5, <3>2 DEF Typed
    <3> QED BY <1>2, <3>1, <3>2
  <2>2. mode' \in [Fd -> {"READ", "WRITE"}]
    BY <1>1, <1>2, <1>3 DEF Typed
  <2>3. Typed'
    BY <1>1, <1>2, <2>1, <2>2 DEF Typed
  <2>4. SessionTyped'
    BY <1>1, <1>2 DEF SessionTyped
  <2> QED BY <1>4, <2>3, <2>4, TypeWhole
<1>7. Tokens'
  <2>1. Len(queue') = Len(queue) + Posts'
    BY <1>2, <1>3, <1>4, <1>5
  <2>2. Cardinality(Lockers) \in Nat /\ sem \in Nat
    BY <1>1, ThreadAssumption, FS_Subset, FS_CardinalityType DEF Lockers, Typed
  <2> QED BY <1>2, <1>3, <1>4, <1>5, <2>1, <2>2 DEF IInv, Tokens
<1>8. Homes' /\ SessionPart' /\ CountPart'
  BY <1>2, <1>4, HomesKept, SessionKept, CountKept DEF IInv
<1>9. OwnerPart'
  <2> SUFFICES ASSUME ~stolen PROVE OwnerPart'
    BY <1>2 DEF OwnerPart
  <2>1. Owning(Server, queue, epoll, dropped) /\ Opened /\ TimersAgree
    BY Orderly
  <2>2. Owned(Server, queue, epoll, dropped)'
    <3>1. CASE queue' = Append(queue, f) /\ dropped' = dropped
      <4>1. Owned([Server EXCEPT ![Main] = 0], Append(queue, f), epoll, dropped)
        BY <1>1, <1>3, <2>1, OwnedByQueue
      <4> QED BY <1>2, <1>4, <3>1, <4>1
    <3>2. CASE queue' = queue /\ dropped' = dropped \union {f}
      <4>1. Owned([Server EXCEPT ![Main] = 0], queue, epoll, dropped \union {f})
        BY <1>1, <1>3, <2>1, OwnedByNobody
      <4> QED BY <1>2, <1>4, <3>2, <4>1
    <3> QED BY <1>2, <3>1, <3>2
  <2>3. \A u \in Thread : Leaver[u] # 0 /\ Server'[u] = 0 => Server[u] = 0
    BY <1>1, <1>3, <1>4, DigestType
  <2>4. Opened'
    BY <1>2, <1>4, <2>1, <2>3 DEF Opened
  <2>5. TimersAgree'
    BY <1>2, <1>4, <2>1 DEF TimersAgree
  <2> QED BY <2>2, <2>4, <2>5 DEF OwnerPart
<1> QED BY <1>2, <1>4, <1>6, <1>7, <1>8, <1>9 DEF IInv

(* The post for what append queued.                                        *)
LEMMA SemPostKeeps ==
  ASSUME IInv, SemPost
  PROVE  IInv'
<1>1. TypeOK /\ Typed /\ SessionTyped /\ Tasks /\ At(Main, "sem_post") /\ Done(Main) /\ Main \in Thread
  BY TypeParts, TaskType DEF IInv, SemPost
<1>2. /\ UNCHANGED <<open, accepted, epoll, session, mode, timers, home, live, expired, members>>
      /\ UNCHANGED <<num, reg, overlap, queue, dropped, hint, fault, raced, stolen, reused>>
      /\ sem' = sem + 1
  BY DEF SemPost, conn, time, count, ghost
<1>3. /\ UNCHANGED <<Server, Leaver, Unbinder, Subs, Updaters, Lockers, OpenCall, OpenFd>>
      /\ Posts = 1 /\ Posts' = 0 /\ Tasks'
  BY <1>1, Making DEF OpenCalls, Call
<1>4. TypeOK'
  <2>1. Typed'
    BY <1>1, <1>2 DEF Typed
  <2>2. SessionTyped'
    BY <1>1, <1>2 DEF SessionTyped
  <2> QED BY <1>3, <2>1, <2>2, TypeWhole
<1>5. Tokens'
  <2>1. Cardinality(Lockers) \in Nat /\ sem \in Nat
    BY <1>1, ThreadAssumption, FS_Subset, FS_CardinalityType DEF Lockers, Typed
  <2> QED BY <1>2, <1>3, <2>1 DEF IInv, Tokens
<1>6. Homes' /\ OwnerPart' /\ SessionPart' /\ CountPart'
  BY <1>2, <1>3, HomesKept, OwnerKept, SessionKept, CountKept DEF IInv
<1> QED BY <1>2, <1>3, <1>4, <1>5, <1>6 DEF IInv

(* A worker takes a token.                                                 *)
LEMMA SemWaitKeeps ==
  ASSUME IInv, NEW w \in Worker, SemWait(w)
  PROVE  IInv'
<1>1. /\ TypeOK /\ Typed /\ SessionTyped /\ Tasks /\ w \in Thread /\ w # Main
      /\ task[w] = Idle /\ Start(w, Job(0, <<"lock">>)) /\ Now(task[w]) = "none"
  BY TypeParts, TaskType, IdleShape DEF IInv, SemWait
<1>2. /\ UNCHANGED <<open, accepted, epoll, session, mode, timers, home, live, expired, members>>
      /\ UNCHANGED <<num, reg, overlap, queue, dropped, hint, fault, raced, stolen, reused>>
      /\ sem' = sem - 1 /\ sem > 0
  BY DEF SemWait, conn, time, count, ghost
<1>3. /\ UNCHANGED <<Server, Leaver, Unbinder, Subs, Updaters, Posts, OpenCall, OpenFd>>
      /\ Lockers' = Lockers \union {w} /\ w \notin Lockers /\ Tasks'
  BY <1>1, LockFresh, Switched
<1>4. TypeOK'
  <2>1. Typed'
    BY <1>1, <1>2 DEF Typed
  <2>2. SessionTyped'
    BY <1>1, <1>2 DEF SessionTyped
  <2> QED BY <1>3, <2>1, <2>2, TypeWhole
<1>5. Tokens'
  <2>1. /\ Cardinality(Lockers) \in Nat /\ Cardinality(Lockers') = Cardinality(Lockers) + 1
        /\ sem \in Nat /\ Posts \in Nat
    BY <1>1, <1>3, ThreadAssumption, FS_Subset, FS_AddElement, FS_CardinalityType DEF Lockers, Typed, Posts
  <2> QED BY <1>2, <1>3, <2>1 DEF IInv, Tokens
<1>6. Homes' /\ OwnerPart' /\ SessionPart' /\ CountPart'
  BY <1>2, <1>3, HomesKept, OwnerKept, SessionKept, CountKept DEF IInv
<1> QED BY <1>2, <1>3, <1>4, <1>5, <1>6 DEF IInv

(* The worker that holds a token finds the queue filled, and serves its    *)
(* first.                                                                  *)
LEMMA TakeKeeps ==
  ASSUME IInv, NEW w \in Worker, Take(w)
  PROVE  IInv'
<1> DEFINE f == Head(queue)
           m == mode[f]
<1>1. /\ TypeOK /\ Typed /\ SessionTyped /\ Tasks /\ w \in Thread /\ w # Main
      /\ Now(task[w]) = "lock" /\ w \in Lockers
  BY TypeParts, TaskType, Reading DEF IInv, Take, Lockers
<1>2. /\ IsFiniteSet(Lockers) /\ Cardinality(Lockers) \in Nat \ {0}
      /\ Cardinality(Lockers \ {w}) = Cardinality(Lockers) - 1
      /\ sem \in Nat /\ Posts \in Nat
  <2>1. IsFiniteSet(Lockers)
    BY ThreadAssumption, FS_Subset DEF Lockers
  <2>2. Cardinality(Lockers) # 0 /\ sem \in Nat /\ Posts \in Nat
    BY <1>1, <2>1, FS_EmptySet DEF Typed, Posts
  <2> QED BY <1>1, <2>1, <2>2, FS_RemoveElement, FS_CardinalityType
<1>3. Len(queue) # 0
  BY <1>2 DEF IInv, Tokens
<1>4. /\ queue \in Seq(Fd) /\ queue # <<>> /\ Len(queue) \in Nat /\ f \in Fd
      /\ Tail(queue) \in Seq(Fd) /\ Len(Tail(queue)) = Len(queue) - 1 /\ m \in {"READ", "WRITE"}
  BY <1>1, <1>3 DEF Typed
<1>5. /\ UNCHANGED <<open, accepted, epoll, session, mode, timers, home, live, expired, members>>
      /\ UNCHANGED <<num, reg, overlap, sem, dropped, hint, fault, raced, stolen, reused>>
      /\ Start(w, Job(f, <<m>>)) /\ queue' = Tail(queue)
  BY <1>4 DEF Take, conn, time, count, ghost
<1> HIDE DEF f, m
<1>6. Job(f, <<m>>) \in WorkJobs /\ Fresh(Job(f, <<m>>), m, f, 0)
  BY <1>4, WorkFresh
<1>7. /\ UNCHANGED <<Leaver, Unbinder, Subs, Updaters, Posts, OpenCall, OpenFd>>
      /\ Server' = [Server EXCEPT ![w] = f] /\ Server[w] = 0 /\ Leaver[w] = 0
      /\ Lockers' = Lockers \ {w} /\ Tasks'
  BY <1>1, <1>4, <1>5, <1>6, Switched
<1>8. TypeOK'
  <2>1. queue' \in Seq(Fd) /\ Len(queue') <= QueueMax
    BY <1>1, <1>4, <1>5, SizeAssumption DEF Typed
  <2>2. Typed'
    BY <1>1, <1>5, <2>1 DEF Typed
  <2>3. SessionTyped'
    BY <1>1, <1>5 DEF SessionTyped
  <2> QED BY <1>7, <2>2, <2>3, TypeWhole
<1>9. Tokens'
  BY <1>2, <1>4, <1>5, <1>7 DEF IInv, Tokens
<1>10. Homes' /\ SessionPart' /\ CountPart'
  BY <1>5, <1>7, HomesKept, SessionKept, CountKept DEF IInv
<1>11. OwnerPart'
  <2> SUFFICES ASSUME ~stolen PROVE OwnerPart'
    BY <1>5 DEF OwnerPart
  <2>1. Owning(Server, queue, epoll, dropped) /\ Opened /\ TimersAgree
    BY Orderly
  <2>2. Owned(Server, queue, epoll, dropped)'
    BY <1>1, <1>4, <1>5, <1>7, <2>1, OwnedByWorker DEF f
  <2>3. \A u \in Thread : Leaver[u] # 0 /\ Server'[u] = 0 => Server[u] = 0
    BY <1>1, <1>7, DigestType
  <2>4. Opened'
    BY <1>5, <1>7, <2>1, <2>3 DEF Opened
  <2>5. TimersAgree'
    BY <1>5, <1>7, <2>1 DEF TimersAgree
  <2> QED BY <2>2, <2>4, <2>5 DEF OwnerPart
<1> QED BY <1>5, <1>7, <1>8, <1>9, <1>10, <1>11 DEF IInv

(* A worker is done with the connection, and has it watched again.         *)
LEMMA RewatchKeeps ==
  ASSUME IInv, NEW w \in Worker, At(w, "READ") \/ At(w, "WRITE"),
         NEW e \in {"in", "out"}, Rewatch(w, e)
  PROVE  IInv'
<1> DEFINE f == task[w].fd
<1>1. /\ TypeOK /\ Typed /\ SessionTyped /\ Tasks /\ w \in Thread /\ w # Main
      /\ Now(task[w]) \in {"READ", "WRITE"} /\ f \in Fd
  BY TypeParts, TaskType, Reading DEF IInv, Shape
<1>2. /\ UNCHANGED <<open, accepted, session, mode, timers, home, live, expired, members>>
      /\ UNCHANGED <<num, reg, overlap, queue, sem, dropped, hint, fault, raced, stolen, reused>>
      /\ epoll' = [epoll EXCEPT ![f] = IF epoll[f] = "none" THEN epoll[f] ELSE e]
      /\ Start(w, Idle)
  BY DEF Rewatch, time, count, pool, ghost
<1>3. /\ UNCHANGED <<Leaver, Unbinder, Subs, Updaters, Lockers, Posts, OpenCall, OpenFd>>
      /\ Server' = [Server EXCEPT ![w] = 0] /\ Server[w] = f /\ Leaver[w] = 0 /\ Tasks'
  BY <1>1, <1>2, IdleFresh, Switched
<1> HIDE DEF f
<1>4. f # 0
  BY <1>1, FdAssumption
<1>5. \A h \in Fd : epoll'[h] = "none" <=> epoll[h] = "none"
  BY <1>1, <1>2 DEF Typed
<1>6. TypeOK'
  <2>1. epoll' \in [Fd -> {"none", "in", "out", "off"}]
    BY <1>1, <1>2 DEF Typed
  <2>2. Typed'
    BY <1>1, <1>2, <2>1 DEF Typed
  <2>3. SessionTyped'
    BY <1>1, <1>2 DEF SessionTyped
  <2> QED BY <1>3, <2>2, <2>3, TypeWhole
<1>7. Tokens' /\ Homes'
  BY <1>2, <1>3, TokensKept, HomesKept DEF IInv
<1>8. SessionPart' /\ CountPart'
  BY <1>2, <1>3, <1>5, SessionKept, CountKept DEF IInv
<1>9. OwnerPart'
  <2> SUFFICES ASSUME ~stolen PROVE OwnerPart'
    BY <1>2 DEF OwnerPart
  <2>1. Owning(Server, queue, epoll, dropped) /\ Opened /\ TimersAgree
    BY Orderly
  <2>2. epoll[f] = "off"
    BY <1>1, <1>3, <1>4, Orderly
  <2>3. epoll' = [epoll EXCEPT ![f] = e] /\ \A h \in Fd : epoll'[h] = IF h = f THEN e ELSE epoll[h]
    BY <1>1, <1>2, <2>2 DEF Typed
  <2>4. Owned(Server, queue, epoll, dropped)'
    <3>1. Owned([Server EXCEPT ![w] = 0], queue, [epoll EXCEPT ![f] = e], dropped)
      BY <1>1, <1>3, <2>1, OwnedByEpoll
    <3> QED BY <1>2, <1>3, <2>3, <3>1
  <2>5. Opened'
    <3>1. ASSUME NEW u \in Thread, Leaver[u] # 0, Server'[u] = 0
          PROVE  epoll'[Leaver[u]] \in {"in", "out"} \/ Leaver[u] \in dropped
      <4>1. u # w /\ Server[u] = 0 /\ Leaver[u] \in Fd
        BY <1>1, <1>3, <3>1, DigestType
      <4>2. epoll[Leaver[u]] \in {"in", "out"} \/ Leaver[u] \in dropped
        BY <2>1, <3>1, <4>1 DEF Opened
      <4> QED BY <2>3, <4>1, <4>2
    <3>2. OpenCall # "none" => OpenFd \in Fd
      BY <1>1, DigestType
    <3> QED BY <1>2, <1>3, <1>5, <2>1, <3>1, <3>2 DEF Opened
  <2>6. TimersAgree'
    BY <1>2, <1>3, <1>5, <2>1 DEF TimersAgree
  <2> QED BY <2>4, <2>5, <2>6 DEF OwnerPart
<1> QED BY <1>2, <1>3, <1>6, <1>7, <1>8, <1>9 DEF IInv

(* A worker goes on to close the connection it serves.                     *)
LEMMA CloseKeeps ==
  ASSUME IInv, NEW w \in Worker, At(w, "READ") \/ At(w, "WRITE"), Close(w)
  PROVE  IInv'
<1> DEFINE f == task[w].fd
<1>1. /\ TypeOK /\ Typed /\ SessionTyped /\ Tasks /\ w \in Thread /\ w # Main
      /\ Now(task[w]) \in {"READ", "WRITE"} /\ f \in Fd
  BY TypeParts, TaskType, Reading DEF IInv, Shape
<1>2. /\ UNCHANGED <<open, accepted, epoll, session, mode, timers, home, live, expired, members>>
      /\ UNCHANGED <<num, reg, overlap, queue, sem, dropped, hint, fault, raced, stolen, reused>>
      /\ Start(w, Job(f, WorkerClosing))
  BY DEF Close, conn, time, count, pool, ghost
<1>3. Server[w] = f
  BY <1>1, AtCall
<1>4. /\ UNCHANGED <<Server, Leaver, Unbinder, Subs, Updaters, Lockers, Posts, OpenCall, OpenFd>>
      /\ Tasks'
  BY <1>1, <1>2, <1>3, WorkFresh, Switched
<1>5. TypeOK'
  <2>1. Typed'
    BY <1>1, <1>2 DEF Typed
  <2>2. SessionTyped'
    BY <1>1, <1>2 DEF SessionTyped
  <2> QED BY <1>4, <2>1, <2>2, TypeWhole
<1>6. Tokens' /\ Homes' /\ OwnerPart' /\ SessionPart' /\ CountPart'
  BY <1>2, <1>4, TokensKept, HomesKept, OwnerKept, SessionKept, CountKept DEF IInv
<1> QED BY <1>2, <1>4, <1>5, <1>6 DEF IInv

(* accept finds the lowest descriptor that is free.                        *)
LEMMA Lowest ==
  ASSUME Free # {}
  PROVE  (CHOOSE f \in Free : \A h \in Free : f <= h) \in Free
<1>1. Free \subseteq Nat
  BY FdAssumption DEF Free
<1>2. \E f \in Free : \A h \in Free : ~(<<h, f>> \in OpToRel(<, Nat))
  BY <1>1, WFMin, NatLessThanWellFounded
<1>3. PICK f \in Free : \A h \in Free : ~(<<h, f>> \in OpToRel(<, Nat))
  BY <1>2
<1>4. \A h \in Free : ~(h < f)
  BY <1>1, <1>3 DEF OpToRel
<1>5. \A h \in Free : f <= h
  BY <1>1, <1>4
<1> QED BY <1>5

(* A new connection: its number was in use by no timer, its descriptor by  *)
(* nobody but, at worst, a worker that has yet to unbind it.               *)
LEMMA AcceptKeeps ==
  ASSUME IInv, Accept
  PROVE  IInv'
<1> DEFINE f == CHOOSE f \in Free : \A h \in Free : f <= h
<1>1. /\ TypeOK /\ Typed /\ SessionTyped /\ Tasks /\ Main \in Thread
      /\ task[Main] = Idle /\ Now(task[Main]) = "none"
      /\ f \in Fd /\ open[f] = 0
  <2>1. f \in Free
    BY Lowest DEF Accept
  <2> QED BY <2>1, TypeParts, TaskType, IdleShape DEF IInv, Accept, Free
<1>2. /\ UNCHANGED <<epoll, session, mode, timers, home, live, expired, members>>
      /\ UNCHANGED <<num, reg, overlap, queue, sem, dropped, hint, fault, raced, stolen>>
      /\ accepted' = accepted + 1 /\ accepted < MaxAccept
      /\ open' = [open EXCEPT ![f] = accepted + 1]
      /\ reused' = (reused \/ Unbinding(f))
      /\ Start(Main, IF num >= ConnectionMax THEN Idle ELSE Job(f, Accepting))
  BY DEF Accept, time, count, pool
<1> HIDE DEF f
<1>3. /\ UNCHANGED <<Server, Leaver, Unbinder, Subs, Updaters, Lockers, Posts>>
      /\ OpenCall = "none" /\ OpenFd = 0 /\ Unbinder[Main] = 0 /\ Tasks'
      /\ \/ num >= ConnectionMax /\ OpenCall' = "none" /\ OpenFd' = 0
         \/ ~(num >= ConnectionMax) /\ OpenCall' = "Establish" /\ OpenFd' = f
  <2>1. Server[Main] = 0
    BY <1>1, Idling
  <2>2. CASE num >= ConnectionMax
    <3>1. Start(Main, Idle) /\ "none" \notin OpenCalls
      BY <1>2, <2>2 DEF OpenCalls
    <3> QED BY <1>1, <2>1, <2>2, <3>1, IdleFresh, Switched
  <2>3. CASE ~(num >= ConnectionMax)
    <3>1. Start(Main, Job(f, Accepting)) /\ Job(f, Accepting).fd = f /\ "Establish" \in OpenCalls
      BY <1>2, <2>3 DEF Job, OpenCalls
    <3>2. Job(f, Accepting) \in MainJobs /\ Fresh(Job(f, Accepting), "Establish", 0, 0)
      BY <1>1, MainFresh
    <3> QED BY <1>1, <2>1, <2>3, <3>1, <3>2, Switched
  <2> QED BY <2>2, <2>3
<1>4. /\ accepted \in Nat /\ accepted' \in 0 .. MaxAccept /\ accepted' # 0
      /\ \A h \in Fd : open'[h] = IF h = f THEN accepted' ELSE open[h]
  BY <1>1, <1>2, SizeAssumption DEF Typed
<1>5. reused' \in BOOLEAN /\ (reused => reused')
      /\ (~reused' => \A u \in Thread : Unbinder[u] # f)
  <2>1. f # 0
    BY <1>1, FdAssumption
  <2>2. ASSUME NEW u \in Thread, Unbinder[u] = f PROVE Unbinding(f)
    <3>1. u \in Worker
      BY <1>3, <2>1, <2>2 DEF Thread
    <3>2. task[u].fd = f /\ Now(task[u]) \in {"load", "sub", "erase"}
      BY <1>1, <2>1, <2>2, AtCall DEF Shape
    <3>3. AtAny(u, {"load", "sub", "erase"})
      BY <1>1, <3>2, Reading, IdleShape
    <3> QED BY <3>1, <3>2, <3>3 DEF Unbinding
  <2>3. Unbinding(f) \in BOOLEAN
    BY DEF Unbinding
  <2> QED BY <1>1, <1>2, <2>2, <2>3 DEF Typed
<1>6. TypeOK'
  <2>1. open' \in [Fd -> 0 .. MaxAccept]
    BY <1>1, <1>2, <1>4 DEF Typed
  <2>2. Typed'
    BY <1>1, <1>2, <1>4, <1>5, <2>1 DEF Typed
  <2>3. SessionTyped'
    BY <1>1, <1>2 DEF SessionTyped
  <2> QED BY <1>3, <2>2, <2>3, TypeWhole
<1>7. Tokens'
  BY <1>2, <1>3, TokensKept DEF IInv
<1>8. Homes'
  <2>1. \A g \in live : g \in Nat /\ home[g] \in Fd /\ g <= accepted
    <3>1. \A g \in live : g \in Incarnation
      BY <1>1 DEF Typed
    <3>2. \A g \in live : home[g] \in Fd /\ g <= accepted
      BY DEF IInv, Homes
    <3> QED BY <3>1, <3>2 DEF Incarnation
  <2>2. \A g \in live : g <= accepted' /\ g # accepted'
    BY <1>2, <1>4, <2>1
  <2> QED BY <1>2, <1>3, <1>4, <2>1, <2>2 DEF Homes
<1>9. OwnerPart'
  <2> SUFFICES ASSUME ~stolen PROVE OwnerPart'
    BY <1>2 DEF OwnerPart
  <2>1. Owned(Server, queue, epoll, dropped) /\ Opened /\ TimersAgree
    BY Orderly DEF Owning
  <2>2. Owned(Server, queue, epoll, dropped)'
    BY <1>2, <1>3, <2>1
  <2>3. epoll[f] = "none"
    BY <1>1, <2>1 DEF Opened
  <2>4. Opened'
    BY <1>1, <1>2, <1>3, <1>4, <2>1, <2>3 DEF Opened
  <2>5. TimersAgree'
    BY <1>2, <1>3, <2>1 DEF TimersAgree
  <2> QED BY <2>2, <2>4, <2>5 DEF OwnerPart
<1>10. SessionPart'
  <2> SUFFICES ASSUME ~stolen, ~reused' PROVE SessionPart'
    BY <1>2 DEF SessionPart
  <2>1. Unbound /\ Bindings
    BY <1>5 DEF IInv, SessionPart
  <2>2. \A u \in Thread : Unbinder[u] # 0 => Unbinder[u] \in Fd /\ Unbinder[u] # f
    BY <1>1, <1>5, DigestType
  <2>3. Unbound'
    BY <1>2, <1>3, <1>4, <2>1, <2>2 DEF Unbound
  <2>4. \A h \in Fd : BoundNow(h)' <=> BoundNow(h)
    BY <1>2, <1>3 DEF BoundNow
  <2>5. Bindings'
    BY <1>2, <2>1, <2>4 DEF Bindings
  <2> QED BY <2>3, <2>5 DEF SessionPart
<1>11. CountPart'
  <2> SUFFICES ASSUME ~stolen, ~overlap PROVE CountPart'
    BY <1>2 DEF CountPart
  <2>1. Alone /\ Counted
    BY DEF IInv, CountPart
  <2>2. Counts' = Counts
    BY <1>2, <1>3 DEF Counts
  <2>3. num < ConnectionMax \/ num >= ConnectionMax
    BY <1>1, SizeAssumption DEF Typed
  <2>4. Alone' /\ Counted'
    BY <1>2, <1>3, <2>1, <2>2, <2>3 DEF Alone, Counted
  <2> QED BY <2>4 DEF CountPart
<1> QED BY <1>2, <1>3, <1>6, <1>7, <1>8, <1>9, <1>10, <1>11 DEF IInv

-----------------------------------------------------------------------------
(* Nothing at all happens.                                                 *)
LEMMA StutterKeeps ==
  ASSUME IInv, UNCHANGED vars
  PROVE  IInv'
<1>1. /\ UNCHANGED <<open, accepted, epoll, session, mode, timers, home, live, expired, members>>
      /\ UNCHANGED <<num, reg, overlap, queue, sem, dropped, hint, fault, raced, stolen, reused, task>>
  BY DEF vars, conn, time, count, pool, ghost
<1>2. Tasks' /\ UNCHANGED <<Server, Leaver, Unbinder, Subs, Updaters>>
      /\ UNCHANGED <<Lockers, Posts, OpenCall, OpenFd>>
  BY <1>1, Still DEF IInv
<1>3. TypeOK'
  BY <1>1 DEF IInv, TypeOK
<1>4. Tokens' /\ Homes' /\ OwnerPart' /\ SessionPart' /\ CountPart'
  BY <1>1, <1>2, TokensKept, HomesKept, OwnerKept, SessionKept, CountKept DEF IInv
<1> QED BY <1>1, <1>2, <1>3, <1>4 DEF IInv

(* What the calls of a closing have in common: main thread or worker.      *)
LEMMA ClosingKeeps ==
  ASSUME IInv, NEW t \in Thread, Closing(t)
  PROVE  IInv'
BY DelTimerKeeps, DelEpollKeeps, BeginDecrementKeeps, DecrementKeeps, EraseKeeps DEF Closing

(* The inductive invariant.                                                *)
THEOREM Invariance == Spec => []IInv
<1>1. IInv /\ [Next]_vars => IInv'
  <2> SUFFICES ASSUME IInv, [Next]_vars PROVE IInv'
    OBVIOUS
  <2>1. Main \in Thread /\ \A w \in Worker : w \in Thread
    BY DEF Thread
  <2>2. ASSUME MainCall PROVE IInv'
    BY <2>1, <2>2, EstablishKeeps, IncrementKeeps, BindKeeps, ChooseNodeKeeps, AddTimerKeeps, AddEpollKeeps,
       AdjustTimerKeeps, EnqueueKeeps, SemPostKeeps, ClosingKeeps, TickEndKeeps, TickNextKeeps
       DEF MainCall
  <2>3. ASSUME MainWait PROVE IInv'
    <3>1. ASSUME NEW f \in Fd, DealRead(f) \/ DealWrite(f) \/ HangUp(f) PROVE IInv'
      BY <3>1, EventKeeps DEF DealRead, DealWrite, HangUp
    <3> QED BY <2>3, <3>1, AcceptKeeps, AlarmKeeps DEF MainWait
  <2>4. ASSUME NEW w \in Worker, WorkerCall(w) \/ Write(w) PROVE IInv'
    <3>1. ASSUME Read(w) \/ Write(w) PROVE IInv'
      BY <3>1, RewatchKeeps, CloseKeeps DEF Read, Write
    <3> QED BY <2>1, <2>4, <3>1, SemWaitKeeps, TakeKeeps, ClosingKeeps DEF WorkerCall
  <2>5. ASSUME NEW g \in Incarnation, Expire(g) PROVE IInv'
    BY <2>5, ExpireKeeps
  <2> QED BY <2>2, <2>3, <2>4, <2>5, StutterKeeps DEF Next
<1> QED BY <1>1, InitOK, PTL DEF Spec

-----------------------------------------------------------------------------
(* The properties the runs check, from the invariant.                      *)

(* A set whose members are all the same.                                   *)
LEMMA AtMostOne ==
  ASSUME NEW S, \A x, y \in S : x = y
  PROVE  Cardinality(S) = IF S = {} THEN 0 ELSE 1
<1>1. CASE S = {}
  BY <1>1, FS_EmptySet
<1>2. CASE S # {}
  <2>1. PICK x \in S : S = {x}
    BY <1>2
  <2> QED BY <1>2, <2>1, FS_Singleton
<1> QED BY <1>1, <1>2

(* A thread is one of a connection's parties when it serves it.            *)
LEMMA ServingIsServer ==
  ASSUME Tasks, NEW t \in Thread, NEW f \in Fd
  PROVE  task[t].fd = f /\ Serving(t) <=> Server[t] = f
<1>1. f # 0
  BY FdAssumption
<1>2. t # Main => ~Has(task[t], "Tick")
  BY AtCall
<1>3. TickRuns <=> Has(task[Main], "Tick")
  BY Reading DEF TickRuns, Thread
<1>4. AtAny(t, {"AdjustTimer", "READ", "WRITE", "DelTimer", "DelEpoll"})
      <=> Now(task[t]) \in {"AdjustTimer", "READ", "WRITE", "DelTimer", "DelEpoll"}
  BY Reading, IdleShape
<1>5. Server[t] = ServedBy(task[t])
  BY DEF Server
<1>6. Now(task[t]) \in {"AdjustTimer", "READ", "WRITE", "DelTimer"} => Server[t] = task[t].fd
  BY AtCall
<1>7. Now(task[t]) \in {"AdjustTimer", "READ", "WRITE", "DelTimer"} /\ task[t].fd = f => ~Has(task[t], "Tick")
  BY <1>1, <1>5, <1>6 DEF ServedBy
<1> QED BY <1>1, <1>2, <1>3, <1>4, <1>5, <1>7 DEF Serving, ServedBy

(* OneOwner: with one-shot registration a connection is with epoll, the    *)
(* queue, the main thread or one worker, and never with two, unless Tick   *)
(* closed one that the pool was serving.                                   *)
THEOREM OwnedByOne == Spec => []OneOwner
<1>1. IInv => OneOwner
  <2> SUFFICES ASSUME IInv, ~stolen, NEW f \in Fd
               PROVE  Parties(f) = IF epoll[f] = "none" \/ f \in dropped THEN 0 ELSE 1
    BY DEF OneOwner, IInv
  <2>1. Owned(Server, queue, epoll, dropped) /\ Tasks /\ Typed /\ f # 0
    BY Orderly, TypeParts, FdAssumption DEF Owning, IInv
  <2> DEFINE S == {t \in Thread : task[t].fd = f /\ Serving(t)}
             Q == {i \in 1 .. Len(queue) : queue[i] = f}
  <2>2. S = {t \in Thread : Server[t] = f}
    BY <2>1, ServingIsServer
  <2>3. Cardinality(S) = IF S = {} THEN 0 ELSE 1
    <3>1. \A t, u \in S : t = u
      BY <2>1, <2>2 DEF Owned
    <3> QED BY <3>1, AtMostOne
  <2>4. Cardinality(Q) = IF Q = {} THEN 0 ELSE 1
    <3>1. \A i, j \in Q : i = j
      BY <2>1 DEF Owned
    <3> QED BY <3>1, AtMostOne
  <2>5. /\ S # {} => epoll[f] = "off" /\ f \notin dropped /\ Q = {}
        /\ Q # {} => epoll[f] = "off" /\ f \notin dropped
        /\ epoll[f] = "off" /\ f \notin dropped => S # {} \/ Q # {}
        /\ f \in dropped => epoll[f] = "off"
    BY <2>1, <2>2 DEF Owned
  <2>6. Parties(f) = Cardinality(S) + Cardinality(Q) + (IF epoll[f] \in {"in", "out"} THEN 1 ELSE 0)
    BY DEF Parties
  <2>7. epoll[f] \in {"none", "in", "out", "off"}
    BY <2>1 DEF Typed
  <2> HIDE DEF S, Q
  <2> QED BY <2>3, <2>4, <2>5, <2>6, <2>7
<1> QED BY <1>1, Invariance, PTL

(* TokensMatch: the semaphore counts the queue, but for the tokens of      *)
(* workers about to lock it and the post that append still owes.           *)
THEOREM TokensAlwaysMatch == Spec => []TokensMatch
<1>1. IInv => TokensMatch
  <2> SUFFICES ASSUME IInv PROVE TokensMatch
    OBVIOUS
  <2>1. Tasks /\ Tokens /\ Main \in Thread
    BY TaskType DEF IInv
  <2>2. Lockers = {w \in Worker : At(w, "lock")}
    BY <2>1, TaskType, Reading, IdleShape DEF Lockers
  <2>3. Posts = IF At(Main, "sem_post") THEN 1 ELSE 0
    BY <2>1, Reading, IdleShape DEF Posts
  <2> QED BY <2>1, <2>2, <2>3 DEF Tokens, TokensMatch
<1> QED BY <1>1, Invariance, PTL

(* The node that an insertion has chosen is one the main thread is still   *)
(* going to use, and it is in the list unless a worker deleted it.         *)
Chosen ==
  hint # 0 => AtAny(Main, {"AddTimer", "AdjustTimer"}) /\ (hint \in live \/ raced)

(* A worker leaves the main thread's task alone.                           *)
LEMMA OthersTask ==
  ASSUME Tasks, NEW w \in Worker, NEW j, Start(w, j)
  PROVE  task'[Main] = task[Main]
BY ThreadAssumption DEF Tasks, Thread, Start

(* The main thread at some other call has chosen no node.                  *)
LEMMA NoNode ==
  ASSUME Chosen, hint' = hint, ~AtAny(Main, {"AddTimer", "AdjustTimer"})
  PROVE  Chosen'
BY DEF Chosen

(* What a worker does that deletes no timer.                               *)
LEMMA NodeKept ==
  ASSUME Chosen, UNCHANGED <<hint, live, raced>>, task'[Main] = task[Main]
  PROVE  Chosen'
BY DEF Chosen, AtAny

(* DelTimer deletes the node under an insertion, or leaves it there; what  *)
(* it deletes itself is there unless Tick took it.                         *)
LEMMA DelTimerChosen ==
  ASSUME IInv, Chosen, ~fault, NEW t \in Thread, DelTimer(t)
  PROVE  Chosen' /\ FaultExplained'
<1> DEFINE g == timers[task[t].fd]
<1>1. TypeOK /\ Tasks /\ At(t, "DelTimer") /\ Done(t) /\ Main \in Thread
  BY TaskType DEF IInv, DelTimer
<1>2. hint' = hint /\ stolen' = stolen
  BY DEF DelTimer
<1>3. \/ g \notin live /\ UNCHANGED <<live, raced>>
      \/ g \in live /\ live' = live \ {g} /\ raced' = (raced \/ g = hint) /\ fault' = fault
  BY DEF DelTimer, Dangling, time
<1>4. ~stolen => g \in live
  <2>1. Server[t] = task[t].fd /\ Leaver[t] = 0 /\ task[t].fd \in Fd
    BY <1>1, Making DEF Call
  <2>2. ~Has(task[Main], "Tick")
    BY <1>1, Reading DEF DelTimer, TickRuns
  <2> QED BY <2>1, <2>2, OwnTimer
<1> HIDE DEF g
<1>5. FaultExplained'
  BY <1>2, <1>3, <1>4 DEF FaultExplained
<1>6. hint \in live \/ raced => hint' \in live' \/ raced'
  BY <1>2, <1>3
<1>7. CASE t = Main
  <2>1. ~AtAny(Main, {"AddTimer", "AdjustTimer"})
    BY <1>1, <1>7 DEF At, AtAny
  <2> QED BY <1>2, <1>5, <2>1, NoNode
<1>8. CASE t # Main
  <2>1. task'[Main] = task[Main]
    BY <1>1, <1>8, OthersTask DEF Done, Thread
  <2> QED BY <1>2, <1>5, <1>6, <2>1 DEF Chosen, AtAny
<1> QED BY <1>7, <1>8

(* The two insertions use the node and forget it.                          *)
LEMMA InsertChosen ==
  ASSUME IInv, Chosen, ~fault, AddTimer \/ AdjustTimer
  PROVE  Chosen' /\ FaultExplained'
<1>1. hint' = 0 /\ stolen' = stolen /\ raced' = raced
  BY DEF AddTimer, AdjustTimer, Insert
<1>2. ASSUME Insert PROVE fault' => raced'
  BY <1>1, <1>2 DEF Insert, Chosen
<1>3. ASSUME At(Main, "AdjustTimer"), Done(Main), Dangling(Main) PROVE stolen
  <2>1. TypeOK /\ Tasks /\ Main \in Thread
    BY TaskType DEF IInv
  <2>2. Server[Main] = task[Main].fd /\ Leaver[Main] = 0 /\ task[Main].fd \in Fd
    BY <1>3, <2>1, Making DEF Call
  <2>3. timers[task[Main].fd] \notin live
    BY <1>3 DEF Dangling
  <2>4. ~stolen => timers[task[Main].fd] \in live
    BY <2>1, <2>2, OwnTimer
  <2> QED BY <2>3, <2>4
<1>4. FaultExplained'
  BY <1>1, <1>2, <1>3 DEF AddTimer, AdjustTimer, FaultExplained
<1> QED BY <1>1, <1>4 DEF Chosen

(* What else the main thread does.                                         *)
LEMMA MainChosen ==
  ASSUME IInv, Chosen, ~fault, MainCall \/ MainWait
  PROVE  Chosen' /\ FaultExplained'
<1>1. CASE AddTimer \/ AdjustTimer
  BY <1>1, InsertChosen
<1>2. CASE DelTimer(Main)
  BY <1>2, DelTimerChosen DEF Thread
<1>3. CASE ChooseNode
  BY <1>3 DEF ChooseNode, Chosen, FaultExplained, AtAny, time
<1>4. ASSUME UNCHANGED <<hint, fault>>, ~AtAny(Main, {"AddTimer", "AdjustTimer"})
      PROVE  Chosen' /\ FaultExplained'
  BY <1>4, NoNode DEF FaultExplained
<1>5. ASSUME task[Main] = Idle, UNCHANGED <<hint, fault>> PROVE Chosen' /\ FaultExplained'
  BY <1>4, <1>5 DEF AtAny
<1>6. ASSUME MainWait PROVE Chosen' /\ FaultExplained'
  <2>1. ASSUME NEW f \in Fd, NEW cs, Event(f, cs) PROVE Chosen' /\ FaultExplained'
    BY <1>5, <2>1 DEF Event, ghost
  <2>2. CASE Accept
    BY <1>5, <2>2 DEF Accept
  <2>3. CASE Alarm
    BY <1>5, <2>3 DEF Alarm, ghost
  <2> QED BY <1>6, <2>1, <2>2, <2>3 DEF MainWait, DealRead, DealWrite, HangUp
<1>7. ASSUME NEW c \in {"Establish", "add", "bind", "AddEpoll", "READ", "WRITE", "sem_post",
                        "DelEpoll", "load", "sub", "erase", "Tick"},
             At(Main, c), UNCHANGED <<hint, fault>>
      PROVE  Chosen' /\ FaultExplained'
  BY <1>4, <1>7 DEF At, AtAny
<1>8. CASE Establish \/ Increment \/ Bind \/ AddEpoll \/ SemPost
  BY <1>7, <1>8 DEF Establish, Increment, Bind, AddEpoll, SemPost, ghost
<1>9. CASE Enqueue("READ") \/ Enqueue("WRITE")
  BY <1>7, <1>9 DEF Enqueue, ghost
<1>10. CASE DelEpoll(Main) \/ BeginDecrement(Main) \/ Decrement(Main) \/ Erase(Main)
  BY <1>7, <1>10 DEF DelEpoll, BeginDecrement, Decrement, Erase, ghost
<1>11. CASE TickEnd \/ \E g \in Incarnation : TickNext(g)
  BY <1>7, <1>11 DEF TickEnd, TickNext, ghost
<1> QED BY <1>1, <1>2, <1>3, <1>6, <1>8, <1>9, <1>10, <1>11 DEF MainCall, Closing

(* What a worker does.                                                     *)
LEMMA WorkChosen ==
  ASSUME IInv, Chosen, ~fault, NEW w \in Worker, WorkerCall(w) \/ Write(w)
  PROVE  Chosen' /\ FaultExplained'
<1>1. Tasks /\ w \in Thread
  BY DEF IInv, Thread
<1>2. CASE DelTimer(w)
  BY <1>1, <1>2, DelTimerChosen
<1>3. ASSUME NEW j, Start(w, j), UNCHANGED <<hint, fault, live, raced>>
      PROVE  Chosen' /\ FaultExplained'
  BY <1>1, <1>3, OthersTask, NodeKept DEF FaultExplained
<1>4. CASE SemWait(w)
  BY <1>3, <1>4 DEF SemWait, time, ghost
<1>5. CASE Take(w)
  BY <1>3, <1>5 DEF Take, time, ghost
<1>6. CASE Read(w) \/ Write(w)
  BY <1>3, <1>6 DEF Read, Write, Rewatch, Close, time, ghost
<1>7. CASE DelEpoll(w) \/ BeginDecrement(w) \/ Decrement(w) \/ Erase(w)
  BY <1>3, <1>7 DEF DelEpoll, BeginDecrement, Decrement, Erase, Done, time, ghost
<1> QED BY <1>2, <1>4, <1>5, <1>6, <1>7 DEF WorkerCall, Closing

(* FaultExplained: no handler uses a deleted timer, unless Tick closed a   *)
(* connection that the pool was serving or a worker deleted the timer next *)
(* to which an insertion was about to go on.                               *)
THEOREM NoFaultButRaces == Spec => []FaultExplained
<1>1. Init => Chosen /\ FaultExplained
  BY DEF Init, Chosen, FaultExplained
<1>2. IInv /\ Chosen /\ FaultExplained /\ [Next]_vars => (Chosen /\ FaultExplained)'
  <2> SUFFICES ASSUME IInv, Chosen, FaultExplained, [Next]_vars PROVE (Chosen /\ FaultExplained)'
    OBVIOUS
  <2>1. ASSUME NEW g \in Incarnation, Expire(g) PROVE (Chosen /\ FaultExplained)'
    BY <2>1 DEF Expire, Chosen, FaultExplained, AtAny, ghost
  <2>2. CASE UNCHANGED vars
    BY <2>2 DEF vars, time, ghost, Chosen, FaultExplained, AtAny
  <2> QED BY <2>1, <2>2, MainChosen, WorkChosen DEF Next
<1> QED BY <1>1, <1>2, Invariance, PTL DEF Spec

(* How far the handler of a new connection has got.                        *)
LEMMA OpenReading ==
  ASSUME Tasks, NEW cs, cs \subseteq OpenCalls
  PROVE  \A f : task[Main].fd = f /\ AtAny(Main, cs) <=> OpenCall \in cs /\ OpenFd = f
<1>1. Main \in Thread /\ "none" \notin OpenCalls
  BY DEF Thread, OpenCalls
<1>2. AtAny(Main, cs) <=> Now(task[Main]) \in cs
  BY <1>1, Reading, IdleShape
<1> QED BY <1>1, <1>2 DEF OpenCall, OpenFd

(* SessionsExact: a session's members are the connections bound to it,     *)
(* from `bind` to `erase`, unless Tick closed one under the pool or a      *)
(* descriptor was reused in the middle of its closing.                     *)
THEOREM SessionsAlwaysExact == Spec => []SessionsExact
<1>1. IInv => SessionsExact
  <2> SUFFICES ASSUME IInv, ~stolen, ~reused, NEW s \in Session
               PROVE  members[s] = {f \in Fd : session[f] = s /\ Bound(f)}
    BY DEF SessionsExact
  <2>1. Tasks /\ Typed /\ Bindings /\ Main \in Thread
    BY TypeParts, TaskType DEF IInv, SessionPart
  <2>2. ASSUME NEW f \in Fd, NEW t \in Thread
        PROVE  /\ Unbinder[t] = f => task[t].fd = f /\ "erase" \in Calls(t)
               /\ task[t].fd = f /\ "erase" \in Calls(t) => Unbinder[t] = f \/ epoll[f] # "none"
    <3>1. f # 0 /\ ("erase" \in Calls(t) <=> Has(task[t], "erase"))
      BY <2>1, Reading, FdAssumption
    <3>2. /\ Unbinder[t] = IF Has(task[t], "erase") /\ Now(task[t]) \notin {"DelTimer", "DelEpoll"}
                           THEN task[t].fd ELSE 0
          /\ Now(task[t]) = "DelTimer" => Server[t] = task[t].fd
          /\ Now(task[t]) = "DelEpoll" => Leaver[t] = task[t].fd
      BY <2>1, AtCall
    <3>3. /\ Server[t] = f => epoll[f] # "none"
          /\ Leaver[t] = f => epoll[f] # "none"
      BY <3>1, Orderly
    <3> QED BY <3>1, <3>2, <3>3
  <2>3. \A f \in Fd : task[Main].fd = f /\ AtAny(Main, {"AddTimer", "AddEpoll"})
                      <=> OpenCall \in {"AddTimer", "AddEpoll"} /\ OpenFd = f
    <3>1. {"AddTimer", "AddEpoll"} \subseteq OpenCalls
      BY DEF OpenCalls
    <3> QED BY <2>1, <3>1, OpenReading
  <2>4. \A f \in Fd : Bound(f) <=> BoundNow(f)
    BY <2>2, <2>3 DEF Bound, BoundNow
  <2> QED BY <2>1, <2>4 DEF Bindings, Typed
<1> QED BY <1>1, Invariance, PTL

(* CountExact: connection_num_ counts the established connections and      *)
(* those closed but not yet subtracted, unless two threads updated it at   *)
(* once or Tick closed a connection under the pool.                        *)
THEOREM CountAlwaysExact == Spec => []CountExact
<1>1. IInv => CountExact
  <2> SUFFICES ASSUME IInv, ~stolen, ~overlap
               PROVE  num = Cardinality({f \in Fd : Established(f)})
                            + Cardinality({t \in Thread : Subtracting(t)})
    BY DEF CountExact
  <2>1. Tasks /\ Counted /\ {"bind", "AddTimer", "AddEpoll"} \subseteq OpenCalls
    BY DEF IInv, CountPart, OpenCalls
  <2>2. {f \in Fd : Established(f)} = Counts
    BY <2>1, OpenReading DEF Counts, Established
  <2>3. {t \in Thread : Subtracting(t)} = Subs
    BY <2>1, Reading DEF Subs, Subtracting, SubtractBy
  <2> QED BY <2>1, <2>2, <2>3 DEF Counted
<1> QED BY <1>1, Invariance, PTL
=============================================================================
