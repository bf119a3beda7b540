--------------------------- MODULE AccountsProofs ---------------------------
(***************************************************************************)
(* Proofs about module Accounts, for any users, passwords and threads and  *)
(* at least as many database connections as threads.                       *)
(***************************************************************************)
EXTENDS Accounts, FiniteSetTheorems, TLAPS

(* A thread has a connection from GetConnection to ReleaseConnection.      *)
Holding == {"lock", "select", "insert", "release"}
Held == \A w \in Worker : conn[w] # None <=> pc[w] \in Holding

(* The queries of a registration are made under the mutex, by one who has  *)
(* no answer yet.                                                          *)
Queried ==
  \A w \in Worker :
    /\ pc[w] \in {"select", "insert"} => mutex = w
    /\ pc[w] \in {"get", "lock", "select", "insert"} => ~ret[w]
    /\ pc[w] = "insert" => req[w].kind = "register" /\ ~Known(req[w].user)
    /\ pc[w] = "mkdir" => req[w].kind = "register" /\ ret[w]

(* What stands in the root is a row's or was put there by others; a row is *)
(* without a directory of its own in the hands of the one thread that made *)
(* it.                                                                     *)
Made ==
  /\ \A u \in Entries : Known(u) \/ u \in foreign
  /\ \A w \in Worker, u \in User :
       Making(w, u) => Known(u) /\ (u \in Entries => u \in foreign)
  /\ \A v, w \in Worker, u \in User : Making(v, u) /\ Making(w, u) => v = w

(* Once the process has ended nobody makes anything.                       *)
Recorded ==
  down # "no" => \A u \in User : Known(u) /\ u \notin homes => u \in cut \union removed

PoolInv == TypeOK /\ PoolExact /\ Held
RowInv  == TypeOK /\ Queried /\ Made /\ HomeOrCut /\ Recorded /\ MkdirSucceeds

-----------------------------------------------------------------------------
(* A thread that comes for a connection finds one: the others have fewer   *)
(* between them than there are.                                            *)
LEMMA NeverExhausted ==
  ASSUME PoolInv, NEW w \in Worker, conn[w] = None
  PROVE  idle # {}
<1>1. SUFFICES ASSUME idle = {} PROVE FALSE
  OBVIOUS
<1> DEFINE Rest == Worker \ {w}
           f == [c \in Connection |-> CHOOSE v \in Rest : conn[v] = c]
<1>2. \A c \in Connection : \E v \in Rest : conn[v] = c
  BY <1>1, ConnectionAssumption DEF PoolInv, PoolExact
<1>3. \A c \in Connection : f[c] \in Rest /\ conn[f[c]] = c
  BY <1>2
<1>4. /\ IsFiniteSet(Rest) /\ Cardinality(Rest) = Cardinality(Worker) - 1
      /\ Cardinality(Worker) \in Nat /\ Cardinality(Connection) \in Nat
  BY WorkerAssumption, ConnectionAssumption, FS_RemoveElement, FS_CardinalityType
<1>5. Cardinality(Rest) < Cardinality(Connection)
  BY <1>4, EnoughAssumption
<1>6. f \in [Connection -> Rest]
  BY <1>3
<1> HIDE DEF f, Rest
<1>7. \E x, y \in Connection : x # y /\ f[x] = f[y]
  BY <1>4, <1>5, <1>6, ConnectionAssumption, FS_PigeonHole
<1> QED BY <1>3, <1>7

(* Every step of the pool and of the workers keeps the types.              *)
LEMMA TypeCorrect == TypeOK /\ [Next]_vars => TypeOK'
<1> SUFFICES ASSUME TypeOK, [Next]_vars PROVE TypeOK'
  OBVIOUS
<1> USE DEF TypeOK, pool, disk, root
<1>a. ASSUME NEW w \in Worker, NEW s \in Stage, Go(w, s)
      PROVE  pc' \in [Worker -> Stage] /\ cut' = cut /\ down = "no"
  BY <1>a DEF Go
<1>b. {"idle", "get", "lock", "select", "insert", "release", "mkdir", "page"} \subseteq Stage
  BY DEF Stage
<1>c. ASSUME NEW why \in {"crash", "mkdir", "opendir"}, End(why) PROVE TypeOK'
  <2>1. cut' \subseteq User
    BY <1>c DEF End
  <2> QED BY <1>c, <2>1 DEF End
<1>1. CASE UNCHANGED vars
  BY <1>1 DEF vars
<1>2. CASE Crash
  BY <1>2, <1>c DEF Crash
<1>3. CASE Restart
  <2>1. pc' \in [Worker -> Stage] /\ conn' \in [Worker -> Connection \union {None}]
    BY <1>3, <1>b DEF Restart
  <2> QED BY <1>3, <2>1 DEF Restart
<1>4. ASSUME NEW w \in Worker, NEW r \in Request, Receive(w, r) PROVE TypeOK'
  <2>1. Go(w, "get") /\ req' = [req EXCEPT ![w] = r] /\ ret' = [ret EXCEPT ![w] = FALSE]
        /\ UNCHANGED <<pool, conn, disk, down>>
    BY <1>4 DEF Receive
  <2>2. pc' \in [Worker -> Stage] /\ cut' = cut
    BY <2>1, <1>a, <1>b
  <2>3. ret' \in [Worker -> BOOLEAN]
    BY <2>1
  <2> QED BY <2>1, <2>2, <2>3
<1>5. ASSUME NEW w \in Worker, GetConnection(w) PROVE TypeOK'
  <2>1. pc' \in [Worker -> Stage] /\ cut' = cut
    BY <1>5, <1>a, <1>b DEF GetConnection
  <2>2. CASE UNCHANGED <<idle, used, conn>>
    BY <1>5, <2>1, <2>2 DEF GetConnection
  <2>3. ASSUME NEW c \in idle, idle' = idle \ {c}, conn' = [conn EXCEPT ![w] = c],
               used' = used + 1
        PROVE  TypeOK'
    BY <1>5, <2>1, <2>3 DEF GetConnection
  <2> QED BY <1>5, <2>2, <2>3 DEF GetConnection
<1>6. ASSUME NEW w \in Worker, Lock(w) \/ SelectTaken(w) \/ SelectFree(w) PROVE TypeOK'
  <2>1. pc' \in [Worker -> Stage] /\ cut' = cut
    BY <1>6, <1>a, <1>b DEF Lock, SelectTaken, SelectFree
  <2> QED BY <1>6, <2>1 DEF Lock, SelectTaken, SelectFree
<1>7. ASSUME NEW w \in Worker, SelectLogin(w) PROVE TypeOK'
  <2>1. pc' \in [Worker -> Stage] /\ cut' = cut
    BY <1>7, <1>a, <1>b DEF SelectLogin
  <2> DEFINE found == <<req[w].user, req[w].password>> \in table
  <2>2. found \in BOOLEAN
    <3>1. ASSUME NEW a, NEW b PROVE (a \in b) \in BOOLEAN
      OBVIOUS
    <3> QED BY <3>1
  <2>3. ret' = [ret EXCEPT ![w] = found]
    BY <1>7 DEF SelectLogin
  <2> HIDE DEF found
  <2>4. ret' \in [Worker -> BOOLEAN]
    BY <2>2, <2>3
  <2> QED BY <1>7, <2>1, <2>4 DEF SelectLogin
<1>8. ASSUME NEW w \in Worker, Insert(w) PROVE TypeOK'
  <2>1. pc' \in [Worker -> Stage] /\ cut' = cut
    BY <1>8, <1>a, <1>b DEF Insert
  <2>2. <<req[w].user, req[w].password>> \in User \X Password
    BY DEF Request
  <2>3. table' \subseteq User \X Password
    BY <1>8, <2>2 DEF Insert
  <2>4. ret' \in [Worker -> BOOLEAN]
    BY <1>8 DEF Insert
  <2> QED BY <1>8, <2>1, <2>3, <2>4 DEF Insert
<1>9. ASSUME NEW w \in Worker, ReleaseConnection(w) PROVE TypeOK'
  <2>1. Then(w) \in Stage
    BY <1>b DEF Then
  <2>2. pc' \in [Worker -> Stage] /\ cut' = cut
    BY <1>9, <2>1, <1>a DEF ReleaseConnection
  <2>3. conn' \in [Worker -> Connection \union {None}]
    BY <1>9 DEF ReleaseConnection
  <2>4. CASE UNCHANGED <<idle, used>>
    BY <1>9, <2>2, <2>3, <2>4 DEF ReleaseConnection
  <2>5. CASE conn[w] # None /\ idle' = idle \union {conn[w]} /\ used' = used - 1
    <3>1. conn[w] \in Connection
      BY <2>5
    <3> QED BY <1>9, <2>2, <2>3, <2>5, <3>1 DEF ReleaseConnection
  <2> QED BY <1>9, <2>4, <2>5 DEF ReleaseConnection
<1>10. ASSUME NEW w \in Worker, Mkdir(w) PROVE TypeOK'
  <2> DEFINE u == req[w].user
  <2>1. CASE End("mkdir")
    BY <2>1, <1>c
  <2>2. CASE /\ homes' = homes \union {u} /\ removed' = removed \ {u} /\ Go(w, "idle")
             /\ UNCHANGED <<pool, req, conn, ret, table, blocked, foreign, down>>
    <3>1. pc' \in [Worker -> Stage] /\ cut' = cut
      BY <2>2, <1>a, <1>b
    <3>2. u \in User
      BY DEF Request
    <3> HIDE DEF u
    <3> QED BY <2>2, <3>1, <3>2
  <2> QED BY <1>10, <2>1, <2>2 DEF Mkdir
<1>11. ASSUME NEW w \in Worker, ShowDisk(w) PROVE TypeOK'
  <2>1. CASE End("opendir")
    BY <2>1, <1>c
  <2>2. CASE Go(w, "idle") /\ UNCHANGED <<pool, req, conn, ret, disk, down>>
    <3>1. pc' \in [Worker -> Stage] /\ cut' = cut
      BY <2>2, <1>a, <1>b
    <3> QED BY <2>2, <3>1
  <2> QED BY <1>11, <2>1, <2>2 DEF ShowDisk
<1>12. CASE Others
  <2>1. PICK u \in User : Make(u) \/ Remove(u)
    BY <1>12 DEF Others
  <2>2. /\ homes' \subseteq User /\ blocked' \subseteq User
        /\ foreign' \subseteq User /\ removed' \subseteq User
    BY <2>1 DEF Make, Remove
  <2> QED BY <1>12, <2>2 DEF Others
<1> QED
  BY <1>1, <1>2, <1>3, <1>4, <1>5, <1>6, <1>7, <1>8, <1>9, <1>10, <1>11, <1>12 DEF Next

-----------------------------------------------------------------------------
(* A step that leaves the pool and the connections alone.                  *)
LEMMA PoolKept ==
  ASSUME PoolInv, TypeOK', UNCHANGED <<idle, used, conn>>,
         \A w \in Worker : pc'[w] \in Holding <=> pc[w] \in Holding
  PROVE  PoolInv'
BY DEF PoolInv, PoolExact, Held, Holding

(* Taking a connection from the pool, or finding none, keeps the account   *)
(* of who has which.                                                       *)
LEMMA GetKeepsPool ==
  ASSUME PoolInv, TypeOK', NEW w \in Worker, GetConnection(w)
  PROVE  PoolInv'
<1>1. pc[w] = "get" /\ conn[w] = None
  BY DEF GetConnection, PoolInv, Held, Holding
<1>2. idle # {}
  BY <1>1, NeverExhausted
<1>3. PICK c \in idle : idle' = idle \ {c} /\ conn' = [conn EXCEPT ![w] = c]
  BY <1>2 DEF GetConnection
<1>4. used' = used + 1 /\ pc' = [pc EXCEPT ![w] = "lock"]
  BY <1>2 DEF GetConnection, Go
<1>5. /\ c \in Connection /\ c # None /\ \A v \in Worker : conn[v] # c
      /\ conn'[w] = c /\ \A v \in Worker \ {w} : conn'[v] = conn[v]
  BY <1>3, ConnectionAssumption DEF PoolInv, PoolExact, TypeOK
<1>6. used' = Cardinality(Connection \ idle')
  <2>1. Connection \ idle' = (Connection \ idle) \union {c} /\ c \notin Connection \ idle
    BY <1>3, <1>5
  <2>2. IsFiniteSet(Connection \ idle)
    BY ConnectionAssumption, FS_Difference
  <2>3. used = Cardinality(Connection \ idle)
    BY DEF PoolInv, PoolExact
  <2> QED BY <2>1, <2>2, <2>3, <1>4, FS_AddElement
<1>7. Held'
  <2>1. \A v \in Worker : pc'[v] = IF v = w THEN "lock" ELSE pc[v]
    BY <1>4 DEF PoolInv, TypeOK
  <2> QED BY <2>1, <1>5 DEF PoolInv, Held, Holding
<1>8. \A d \in Connection : d \in idle' <=> \A v \in Worker : conn'[v] # d
  <2>1. \A d \in Connection : d \in idle <=> \A v \in Worker : conn[v] # d
    BY DEF PoolInv, PoolExact
  <2> TAKE d \in Connection
  <2>2. CASE d = c
    BY <2>2, <1>3, <1>5
  <2>3. CASE d # c
    <3>1. d \in idle' <=> d \in idle
      BY <2>3, <1>3
    <3>2. \A v \in Worker : conn'[v] # d <=> conn[v] # d
      BY <2>3, <1>1, <1>5, ConnectionAssumption
    <3> QED BY <2>1, <3>1, <3>2
  <2> QED BY <2>2, <2>3
<1>9. \A u, v \in Worker : conn'[u] = conn'[v] /\ conn'[u] # None => u = v
  BY <1>5 DEF PoolInv, PoolExact
<1> QED BY <1>6, <1>7, <1>8, <1>9 DEF PoolInv, PoolExact, Held, Holding

(* Giving a connection back keeps the account.                             *)
LEMMA ReleaseKeepsPool ==
  ASSUME PoolInv, TypeOK', NEW w \in Worker, ReleaseConnection(w)
  PROVE  PoolInv'
<1>1. pc[w] = "release"
  BY DEF ReleaseConnection
<1>2. conn[w] # None /\ conn[w] \in Connection
  BY <1>1 DEF PoolInv, PoolExact, TypeOK
<1> DEFINE c == conn[w]
<1>3. /\ idle' = idle \union {c} /\ used' = used - 1
      /\ conn' = [conn EXCEPT ![w] = None] /\ pc' = [pc EXCEPT ![w] = Then(w)]
  BY <1>2 DEF ReleaseConnection, Go
<1>4. /\ c \notin idle /\ \A v \in Worker \ {w} : conn[v] # c
      /\ conn'[w] = None /\ \A v \in Worker \ {w} : conn'[v] = conn[v]
  BY <1>2, <1>3 DEF PoolInv, PoolExact, TypeOK
<1>5. used' = Cardinality(Connection \ idle')
  <2>1. Connection \ idle' = (Connection \ idle) \ {c} /\ c \in Connection \ idle
    BY <1>2, <1>3, <1>4
  <2>2. IsFiniteSet(Connection \ idle)
    BY ConnectionAssumption, FS_Difference
  <2>3. used = Cardinality(Connection \ idle)
    BY DEF PoolInv, PoolExact
  <2> QED BY <2>1, <2>2, <2>3, <1>3, FS_RemoveElement
<1>6. Held'
  <2>1. \A v \in Worker : pc'[v] = IF v = w THEN Then(w) ELSE pc[v]
    BY <1>3 DEF PoolInv, TypeOK
  <2>2. Then(w) \notin Holding
    BY DEF Then, Holding
  <2> QED BY <2>1, <2>2, <1>4 DEF PoolInv, Held
<1>7. \A d \in Connection : d \in idle' <=> \A v \in Worker : conn'[v] # d
  <2>1. \A d \in Connection : d \in idle <=> \A v \in Worker : conn[v] # d
    BY DEF PoolInv, PoolExact
  <2> TAKE d \in Connection
  <2>2. CASE d = c
    BY <2>2, <1>2, <1>3, <1>4
  <2>3. CASE d # c
    <3>1. d \in idle' <=> d \in idle
      BY <2>3, <1>3
    <3>2. \A v \in Worker : conn'[v] # d <=> conn[v] # d
      BY <2>3, <1>4, ConnectionAssumption
    <3> QED BY <2>1, <3>1, <3>2
  <2> QED BY <2>2, <2>3
<1>8. \A u, v \in Worker : conn'[u] = conn'[v] /\ conn'[u] # None => u = v
  BY <1>4 DEF PoolInv, PoolExact
<1> QED BY <1>5, <1>6, <1>7, <1>8 DEF PoolInv, PoolExact, Held, Holding

(* The connections are divided among the pool and the threads, and no      *)
(* request is refused for want of one.                                     *)
THEOREM PoolAlwaysExact == Spec => []PoolExact
<1>0. (Fresh /\ TypeOK => PoolInv) /\ (Init => TypeOK)
  <2>1. Connection \ Connection = {}
    OBVIOUS
  <2>2. Cardinality(Connection \ Connection) = 0
    BY <2>1, FS_EmptySet
  <2>3. Fresh /\ TypeOK => PoolInv
    BY <2>2, ConnectionAssumption DEF Fresh, PoolInv, PoolExact, Held, Holding
  <2>4. Init => TypeOK
    BY DEF Init, Fresh, TypeOK, Stage, Entries
  <2> QED BY <2>3, <2>4
<1>1. Init => PoolInv
  BY <1>0 DEF Init
<1>2. PoolInv /\ [Next]_vars => PoolInv'
  <2> SUFFICES ASSUME PoolInv, [Next]_vars PROVE PoolInv'
    OBVIOUS
  <2>0. TypeOK /\ TypeOK' /\ pc \in [Worker -> Stage]
    BY TypeCorrect DEF PoolInv, TypeOK
  <2>1. CASE UNCHANGED vars
    BY <2>0, <2>1, PoolKept DEF vars, pool
  <2>2. ASSUME NEW why, End(why) PROVE PoolInv'
    BY <2>0, <2>2, PoolKept DEF End, pool
  <2>3. CASE Restart
    BY <2>0, <2>3, <1>0, ConnectionAssumption, FS_EmptySet
       DEF Restart, PoolInv, PoolExact, Held, Holding
  <2>4. ASSUME NEW w \in Worker, NEW s \in Stage, Go(w, s), UNCHANGED <<idle, used, conn>>,
               s \in Holding <=> pc[w] \in Holding
        PROVE  PoolInv'
    <3>1. \A v \in Worker : pc'[v] = IF v = w THEN s ELSE pc[v]
      BY <2>0, <2>4 DEF Go
    <3> QED BY <2>0, <2>4, <3>1, PoolKept
  <2>5. ASSUME NEW w \in Worker, NEW r \in Request, Receive(w, r) PROVE PoolInv'
    BY <2>4, <2>5 DEF Receive, pool, Stage, Holding
  <2>6. ASSUME NEW w \in Worker,
               Lock(w) \/ SelectLogin(w) \/ SelectTaken(w) \/ SelectFree(w) \/ Insert(w)
        PROVE  PoolInv'
    BY <2>4, <2>6 DEF Lock, SelectLogin, SelectTaken, SelectFree, Insert, pool, Stage, Holding
  <2>7. ASSUME NEW w \in Worker, Mkdir(w) \/ ShowDisk(w) PROVE PoolInv'
    BY <2>2, <2>4, <2>7 DEF Mkdir, ShowDisk, pool, Stage, Holding
  <2>8. CASE Others
    BY <2>0, <2>8, PoolKept DEF Others, pool
  <2> QED
    BY <2>0, <2>1, <2>2, <2>3, <2>5, <2>6, <2>7, <2>8, GetKeepsPool, ReleaseKeepsPool
       DEF Next, Crash
<1>3. PoolInv => PoolExact
  BY DEF PoolInv
<1> QED BY <1>1, <1>2, <1>3, PTL DEF Spec

-----------------------------------------------------------------------------
(* A step of one thread that makes no row and no directory, and leaves the *)
(* thread as far with its registration as it was.                          *)
LEMMA RowKept ==
  ASSUME RowInv, TypeOK', NEW w \in Worker, NEW s \in Stage, Go(w, s),
         UNCHANGED <<table, root, down>>,
         \A v \in Worker \ {w} : ret'[v] = ret[v] /\ req'[v] = req[v],
         \A u \in User : Making(w, u)' <=> Making(w, u),
         \A v \in Worker \ {w} : pc[v] \in {"select", "insert"} => mutex' = v,
         s \in {"select", "insert"} => mutex' = w,
         s \in {"get", "lock", "select", "insert"} => ~ret'[w],
         s = "insert" => req'[w].kind = "register" /\ ~Known(req'[w].user),
         s = "mkdir" => req'[w].kind = "register" /\ ret'[w]
  PROVE  RowInv'
<1>1. \A v \in Worker : pc'[v] = IF v = w THEN s ELSE pc[v]
  BY DEF Go, RowInv, TypeOK
<1>2. \A x : Known(x)' <=> Known(x)
  BY DEF Known
<1>3. \A v \in Worker, u \in User : Making(v, u)' <=> Making(v, u)
  <2> TAKE v \in Worker, u \in User
  <2>1. CASE v = w
    BY <2>1
  <2>2. CASE v # w
    BY <2>2, <1>1 DEF Making
  <2> QED BY <2>1, <2>2
<1>4. Queried'
  <2> SUFFICES ASSUME NEW v \in Worker
               PROVE  /\ pc'[v] \in {"select", "insert"} => mutex' = v
                      /\ pc'[v] \in {"get", "lock", "select", "insert"} => ~ret'[v]
                      /\ pc'[v] = "insert" => req'[v].kind = "register" /\ ~Known(req[v].user)'
                      /\ pc'[v] = "mkdir" => req'[v].kind = "register" /\ ret'[v]
    BY DEF Queried
  <2>1. CASE v = w
    BY <2>1, <1>1 DEF Known
  <2>2. CASE v # w
    <3>1. pc'[v] = pc[v] /\ req'[v] = req[v] /\ ret'[v] = ret[v]
      BY <2>2, <1>1
    <3> QED BY <2>2, <3>1 DEF RowInv, Queried, Known
  <2> QED BY <2>1, <2>2
<1>5. Made'
  BY <1>2, <1>3 DEF RowInv, Made, Entries, root
<1>6. HomeOrCut' /\ Recorded' /\ MkdirSucceeds'
  <2>1. cut' = cut /\ down = "no" /\ down' = "no" /\ homes' = homes /\ removed' = removed
    BY DEF Go, root
  <2> QED BY <2>1, <1>2, <1>3 DEF RowInv, HomeOrCut, Recorded, MkdirSucceeds
<1> QED BY <1>4, <1>5, <1>6 DEF RowInv

(* A thread in the queries is alone there.                                 *)
LEMMA Alone ==
  ASSUME RowInv, NEW w \in Worker, mutex = w \/ mutex = Nobody
  PROVE  \A v \in Worker \ {w} : pc[v] \notin {"select", "insert"}
BY WorkerAssumption DEF RowInv, Queried

(* The queries of Login and Register keep what is known of users and       *)
(* directories.                                                            *)
LEMMA QueriesKeepRows ==
  ASSUME RowInv, TypeOK', NEW w \in Worker,
         Lock(w) \/ SelectLogin(w) \/ SelectTaken(w) \/ SelectFree(w)
  PROVE  RowInv'
<1>1. pc[w] \in {"lock", "select"} /\ (mutex = w \/ mutex = Nobody)
  BY DEF Lock, SelectLogin, SelectTaken, SelectFree, RowInv, Queried
<1>2. \A v \in Worker \ {w} : pc[v] \notin {"select", "insert"}
  BY <1>1, Alone
<1>3. ~ret[w] /\ pc[w] \notin {"release", "mkdir"}
  BY <1>1 DEF RowInv, Queried
<1>4. \A u \in User : ~Making(w, u)
  BY <1>3 DEF Making
<1>5. ret \in [Worker -> BOOLEAN] /\ pc \in [Worker -> Stage]
  BY DEF RowInv, TypeOK
<1>6. CASE Lock(w)
  <2>1. /\ Go(w, "select") /\ mutex' = w /\ "select" \in Stage
        /\ UNCHANGED <<table, root, down, ret, req>>
    BY <1>6 DEF Lock, disk, Stage
  <2>2. \A u \in User : ~Making(w, u)'
    BY <1>3, <2>1 DEF Making
  <2> QED BY <1>2, <1>3, <1>4, <2>1, <2>2, RowKept
<1>7. CASE SelectLogin(w)
  <2>1. /\ Go(w, "release") /\ "release" \in Stage /\ UNCHANGED <<table, root, down, req>>
        /\ \A v \in Worker \ {w} : ret'[v] = ret[v]
    BY <1>5, <1>7 DEF SelectLogin, disk, Stage
  <2>2. \A u \in User : ~Making(w, u)'
    BY <1>7, <2>1 DEF Making, SelectLogin
  <2> QED BY <1>2, <1>4, <2>1, <2>2, RowKept
<1>8. CASE SelectTaken(w)
  <2>1. Go(w, "release") /\ "release" \in Stage /\ UNCHANGED <<table, root, down, ret, req>>
    BY <1>8 DEF SelectTaken, disk, Stage
  <2>2. \A u \in User : ~Making(w, u)'
    BY <1>3, <2>1 DEF Making
  <2> QED BY <1>2, <1>4, <2>1, <2>2, RowKept
<1>9. CASE SelectFree(w)
  <2>1. /\ Go(w, "insert") /\ "insert" \in Stage /\ UNCHANGED <<table, root, down, ret, req, mutex>>
        /\ req[w].kind = "register" /\ ~Known(req[w].user) /\ pc[w] = "select"
    BY <1>9 DEF SelectFree, disk, pool, Stage
  <2>2. \A u \in User : ~Making(w, u)'
    BY <1>3, <2>1 DEF Making
  <2>3. mutex = w
    BY <2>1 DEF RowInv, Queried
  <2> QED BY <1>2, <1>3, <1>4, <2>1, <2>2, <2>3, RowKept
<1> QED BY <1>6, <1>7, <1>8, <1>9

(* The new row is in the hands of the thread that inserted it, and has no  *)
(* directory: directories belong to rows, and this name had none.          *)
LEMMA InsertKeepsRows ==
  ASSUME RowInv, TypeOK', NEW w \in Worker, Insert(w)
  PROVE  RowInv'
<1> DEFINE u0 == req[w].user
<1>1. /\ pc[w] = "insert" /\ mutex = w /\ ~ret[w] /\ req[w].kind = "register" /\ ~Known(u0)
      /\ u0 \in User /\ req[w].password \in Password
  BY DEF Insert, RowInv, Queried, TypeOK, Request
<1>2. \A v \in Worker \ {w} : pc[v] \notin {"select", "insert"}
  BY <1>1, Alone
<1>3. Go(w, "release") /\ UNCHANGED <<req, root, down>> /\ "release" \in Stage
  BY DEF Insert, Stage
<1>4. \A u \in User : ~Making(w, u)
  BY <1>1 DEF Making
<1>5. CASE UNCHANGED <<table, ret>>
  <2>1. \A u \in User : ~Making(w, u)'
    BY <1>1, <1>3, <1>5 DEF Making
  <2> QED BY <1>2, <1>3, <1>4, <1>5, <2>1, RowKept
<1>6. CASE table' = table \union {<<u0, req[w].password>>} /\ ret' = [ret EXCEPT ![w] = TRUE]
  <2>1. \A v \in Worker : /\ pc'[v] = IF v = w THEN "release" ELSE pc[v]
                          /\ ret'[v] = IF v = w THEN TRUE ELSE ret[v]
    BY <1>3, <1>6 DEF Go, RowInv, TypeOK
  <2>2. \A x : Known(x)' <=> Known(x) \/ x = u0
    BY <1>1, <1>6 DEF Known
  <2>3. \A v \in Worker, u \in User : Making(v, u)' <=> Making(v, u) \/ (v = w /\ u = u0)
    BY <1>1, <1>3, <2>1 DEF Making
  <2>4. Queried'
    BY <1>2, <1>3, <2>1 DEF RowInv, Queried
  <2>5. (u0 \in Entries => u0 \in foreign) /\ Entries' = Entries /\ foreign' = foreign
    BY <1>1, <1>3 DEF RowInv, Made, Entries, root
  <2>6. Made'
    <3>1. \A u \in Entries' : Known(u)' \/ u \in foreign'
      BY <2>2, <2>5 DEF RowInv, Made
    <3>2. \A v \in Worker, u \in User :
            Making(v, u)' => Known(u)' /\ (u \in Entries' => u \in foreign')
      BY <2>2, <2>3, <2>5 DEF RowInv, Made
    <3>3. \A v \in Worker : ~Making(v, u0)
      BY <1>1 DEF RowInv, Made
    <3>4. \A v, x \in Worker, u \in User : Making(v, u)' /\ Making(x, u)' => v = x
      BY <1>4, <2>3, <3>3 DEF RowInv, Made
    <3> QED BY <3>1, <3>2, <3>4 DEF Made
  <2>7. HomeOrCut' /\ Recorded' /\ MkdirSucceeds'
    <3>1. cut' = cut /\ down = "no" /\ down' = "no" /\ homes' = homes /\ removed' = removed
      BY <1>3 DEF Go, root
    <3>2. HomeOrCut'
      <4> SUFFICES ASSUME NEW u \in User, Known(u)', u \notin homes'
                   PROVE  u \in cut' \union removed' \/ \E v \in Worker : Making(v, u)'
        BY DEF HomeOrCut
      <4>1. CASE u = u0
        BY <4>1, <2>3
      <4>2. CASE Known(u)
        BY <4>2, <3>1, <2>3 DEF RowInv, HomeOrCut
      <4> QED BY <4>1, <4>2, <2>2
    <3> QED BY <3>1, <3>2 DEF Recorded, MkdirSucceeds
  <2> QED BY <2>4, <2>6, <2>7 DEF RowInv
<1> QED BY <1>5, <1>6 DEF Insert

(* So does giving the connection back and, for a new user, making the      *)
(* directory.                                                              *)
LEMMA ReleaseKeepsRows ==
  ASSUME RowInv, TypeOK', NEW w \in Worker, ReleaseConnection(w)
  PROVE  RowInv'
<1>1. /\ pc[w] = "release" /\ Go(w, Then(w)) /\ UNCHANGED <<table, root, down, ret, req, mutex>>
  BY DEF ReleaseConnection, disk
<1>2. /\ Then(w) \in Stage /\ Then(w) \in {"idle", "mkdir", "page"}
      /\ Then(w) = "mkdir" <=> ret[w] /\ req[w].kind = "register"
  BY DEF Then, Stage
<1>3. \A u \in User : Making(w, u)' <=> Making(w, u)
  <2>1. pc'[w] = Then(w)
    BY <1>1 DEF Go, RowInv, TypeOK
  <2> QED BY <2>1, <1>1, <1>2 DEF Making
<1>4. \A v \in Worker \ {w} : pc[v] \in {"select", "insert"} => mutex' = v
  BY <1>1 DEF RowInv, Queried
<1> QED BY <1>1, <1>2, <1>3, <1>4, RowKept

(* The end of the process records the rows that have no directory yet.     *)
LEMMA EndKeepsRows ==
  ASSUME RowInv, TypeOK', NEW why, End(why),
         why = "mkdir" => \E w \in Worker :
                            pc[w] = "mkdir" /\ req[w].user \in foreign \union Unfit
  PROVE  RowInv'
<1>1. /\ UNCHANGED <<mutex, pc, req, ret, table, homes, blocked, foreign, removed>>
      /\ down' = why /\ cut' = cut \union {u \in User : \E w \in Worker : Making(w, u)}
  BY DEF End, pool, disk, root
<1>2. (\A x : Known(x)' <=> Known(x)) /\ (\A w \in Worker, u \in User : Making(w, u)' <=> Making(w, u))
  BY <1>1 DEF Known, Making
<1>3. Queried' /\ Made'
  BY <1>1, <1>2 DEF RowInv, Queried, Made, Known, Entries
<1>4. \A u \in User : Known(u)' /\ u \notin homes' => u \in cut' \union removed'
  BY <1>1, <1>2 DEF RowInv, HomeOrCut
<1>5. MkdirSucceeds'
  BY <1>1 DEF MkdirSucceeds
<1> QED BY <1>3, <1>4, <1>5 DEF RowInv, HomeOrCut, Recorded

(* The directory can be made, unless something else has the name: nobody   *)
(* but the thread that inserted the row comes to make it.                  *)
LEMMA MkdirKeepsRows ==
  ASSUME RowInv, TypeOK', NEW w \in Worker, Mkdir(w)
  PROVE  RowInv'
<1> DEFINE u0 == req[w].user
<1>1. Making(w, u0) /\ u0 \in User /\ pc[w] = "mkdir"
  BY DEF Mkdir, Making, RowInv, Queried, TypeOK, Request
<1>2. (u0 \in Entries => u0 \in foreign) /\ Known(u0) /\ \A v \in Worker : Making(v, u0) => v = w
  BY <1>1 DEF RowInv, Made
<1>a. CASE u0 \in Entries \union Unfit /\ End("mkdir")
  BY <1>1, <1>2, <1>a, EndKeepsRows
<1>b. SUFFICES ASSUME /\ Go(w, "idle") /\ homes' = homes \union {u0} /\ removed' = removed \ {u0}
                      /\ UNCHANGED <<mutex, req, ret, table, blocked, foreign, down>>
               PROVE  RowInv'
  BY <1>a DEF Mkdir, pool
<1>3. homes' = homes \union {u0} /\ removed' = removed \ {u0} /\ Entries' = Entries \union {u0}
      /\ Go(w, "idle") /\ UNCHANGED <<mutex, req, ret, table, foreign, down>>
  BY <1>b DEF Entries
<1>4. \A v \in Worker : pc'[v] = IF v = w THEN "idle" ELSE pc[v]
  BY <1>3 DEF Go, RowInv, TypeOK
<1>5. \A x : Known(x)' <=> Known(x)
  BY <1>3 DEF Known
<1>6. \A v \in Worker, u \in User : Making(v, u)' <=> Making(v, u) /\ v # w
  BY <1>3, <1>4 DEF Making
<1>7. Queried'
  BY <1>3, <1>4 DEF RowInv, Queried, Known
<1>8. \A u \in User : Making(w, u) => u = u0
  BY DEF Making
<1>9. Made'
  <2>1. \A u \in Entries' : Known(u)' \/ u \in foreign'
    BY <1>2, <1>3, <1>5 DEF RowInv, Made
  <2>2. \A v \in Worker, u \in User :
          Making(v, u)' => Known(u)' /\ (u \in Entries' => u \in foreign')
    BY <1>2, <1>3, <1>5, <1>6 DEF RowInv, Made
  <2>3. \A v, x \in Worker, u \in User : Making(v, u)' /\ Making(x, u)' => v = x
    BY <1>6 DEF RowInv, Made
  <2> QED BY <2>1, <2>2, <2>3 DEF Made
<1>10. HomeOrCut' /\ Recorded' /\ MkdirSucceeds'
  <2>1. cut' = cut /\ down = "no" /\ down' = "no"
    BY <1>3 DEF Go
  <2>2. HomeOrCut'
    <3> SUFFICES ASSUME NEW u \in User, Known(u)', u \notin homes'
                 PROVE  u \in cut' \union removed' \/ \E v \in Worker : Making(v, u)'
      BY DEF HomeOrCut
    <3>1. Known(u) /\ u \notin homes /\ u # u0
      BY <1>3, <1>5
    <3> QED BY <3>1, <2>1, <1>3, <1>6, <1>8 DEF RowInv, HomeOrCut
  <2> QED BY <2>1, <2>2 DEF Recorded, MkdirSucceeds
<1> QED BY <1>7, <1>9, <1>10 DEF RowInv

(* So does a restart, which records whoever was cut off between the two.   *)
LEMMA RestartKeepsRows ==
  ASSUME RowInv, TypeOK', Restart
  PROVE  RowInv'
<1>1. /\ \A w \in Worker : pc'[w] = "idle"
      /\ UNCHANGED <<table, homes, blocked, foreign, removed, cut>> /\ down # "no" /\ down' = "no"
  BY DEF Restart, disk, root
<1>2. (\A x : Known(x)' <=> Known(x)) /\ (\A w \in Worker, u \in User : ~Making(w, u)')
  BY <1>1 DEF Known, Making
<1>3. Queried'
  BY <1>1 DEF Queried
<1>4. Made'
  BY <1>1, <1>2 DEF RowInv, Made, Entries
<1>5. HomeOrCut' /\ Recorded' /\ MkdirSucceeds'
  BY <1>1, <1>2 DEF RowInv, HomeOrCut, Recorded, MkdirSucceeds
<1> QED BY <1>3, <1>4, <1>5 DEF RowInv

(* What others make and remove in the root is recorded as theirs, and a    *)
(* directory they remove as removed.                                       *)
LEMMA OthersKeepRows ==
  ASSUME RowInv, TypeOK', Others
  PROVE  RowInv'
<1>1. PICK u0 \in User : Make(u0) \/ Remove(u0)
  BY DEF Others
<1>2. down = "no" /\ down' = "no" /\ UNCHANGED <<mutex, pc, req, ret, table, cut>>
  BY DEF Others, pool
<1>3. (\A x : Known(x)' <=> Known(x)) /\ (\A w \in Worker, u \in User : Making(w, u)' <=> Making(w, u))
  BY <1>2 DEF Known, Making
<1>4. Queried'
  BY <1>2 DEF RowInv, Queried, Known
<1>5. \A u \in User : u \in Entries' =>
        u \in foreign' \/ (u \in Entries /\ (u \in foreign <=> u \in foreign'))
  BY <1>1 DEF Make, Remove, Entries
<1>6. \A u \in Entries' : u \in User
  BY DEF TypeOK, Entries
<1>7. Made'
  BY <1>3, <1>5, <1>6 DEF RowInv, Made
<1>8. \A u \in User : u \notin homes' => u \in removed' \/ (u \notin homes /\ (u \in removed => u \in removed'))
  BY <1>1 DEF Make, Remove
<1>9. HomeOrCut' /\ Recorded' /\ MkdirSucceeds'
  BY <1>2, <1>3, <1>8 DEF RowInv, HomeOrCut, Recorded, MkdirSucceeds
<1> QED BY <1>4, <1>7, <1>9 DEF RowInv

(* Users, directories and what the workers know of them agree in every     *)
(* state.                                                                  *)
LEMMA RowInvariance == Spec => []RowInv
<1>1. Init => RowInv
  <2> SUFFICES ASSUME Init PROVE RowInv
    OBVIOUS
  <2>1. TypeOK
    BY DEF Init, Fresh, TypeOK, Stage, Entries
  <2>2. (\A x : ~Known(x)) /\ \A w \in Worker, u \in User : ~Making(w, u)
    BY DEF Init, Fresh, Known, Making
  <2> QED BY <2>1, <2>2
      DEF Init, Fresh, RowInv, Queried, Made, HomeOrCut, Recorded, MkdirSucceeds
<1>2. RowInv /\ [Next]_vars => RowInv'
  <2> SUFFICES ASSUME RowInv, [Next]_vars PROVE RowInv'
    OBVIOUS
  <2>0. TypeOK'
    BY TypeCorrect DEF RowInv
  <2>1. CASE UNCHANGED vars
    <3>1. /\ UNCHANGED <<mutex, pc, req, ret, table, homes, blocked, foreign, removed, down, cut>>
      BY <2>1 DEF vars, pool, disk, root
    <3>2. (\A x : Known(x)' <=> Known(x)) /\ (\A w \in Worker, u \in User : Making(w, u)' <=> Making(w, u))
      BY <3>1 DEF Known, Making
    <3>3. Queried' /\ Made'
      BY <3>1, <3>2 DEF RowInv, Queried, Made, Known, Entries
    <3>4. HomeOrCut' /\ Recorded' /\ MkdirSucceeds'
      BY <3>1, <3>2 DEF RowInv, HomeOrCut, Recorded, MkdirSucceeds
    <3> QED BY <2>0, <3>3, <3>4 DEF RowInv
  <2>2. CASE Crash
    BY <2>0, <2>2, EndKeepsRows DEF Crash
  <2>3. ASSUME NEW w \in Worker, NEW r \in Request, Receive(w, r) PROVE RowInv'
    <3>1. /\ pc[w] = "idle" /\ Go(w, "get") /\ "get" \in Stage
          /\ UNCHANGED <<table, root, down, mutex>>
          /\ ret' = [ret EXCEPT ![w] = FALSE] /\ req' = [req EXCEPT ![w] = r]
      BY <2>3 DEF Receive, pool, disk, Stage
    <3>2. /\ ~ret'[w] /\ \A v \in Worker \ {w} : ret'[v] = ret[v] /\ req'[v] = req[v]
      BY <3>1 DEF RowInv, TypeOK
    <3>3. \A u \in User : ~Making(w, u) /\ ~Making(w, u)'
      BY <3>1, <3>2 DEF Making
    <3>4. \A v \in Worker \ {w} : pc[v] \in {"select", "insert"} => mutex' = v
      BY <3>1 DEF RowInv, Queried
    <3> QED BY <2>0, <3>1, <3>2, <3>3, <3>4, RowKept
  <2>4. ASSUME NEW w \in Worker, GetConnection(w) PROVE RowInv'
    <3>1. PICK s \in {"lock", "release"} : Go(w, s)
      BY <2>4 DEF GetConnection
    <3>2. s \in Stage /\ pc[w] = "get" /\ UNCHANGED <<table, root, down, mutex, ret, req>>
      BY <2>4 DEF GetConnection, disk, Stage
    <3>3. ~ret[w]
      BY <3>2 DEF RowInv, Queried
    <3>4. \A u \in User : ~Making(w, u) /\ ~Making(w, u)'
      BY <3>2, <3>3 DEF Making
    <3>5. \A v \in Worker \ {w} : pc[v] \in {"select", "insert"} => mutex' = v
      BY <3>2 DEF RowInv, Queried
    <3> QED BY <2>0, <3>1, <3>2, <3>3, <3>4, <3>5, RowKept
  <2>5. ASSUME NEW w \in Worker, ShowDisk(w) PROVE RowInv'
    <3>1. CASE End("opendir")
      BY <2>0, <3>1, EndKeepsRows
    <3>2. CASE Go(w, "idle") /\ UNCHANGED <<pool, req, conn, ret, disk, down>>
      <4>1. \A u \in User : ~Making(w, u) /\ ~Making(w, u)'
        BY <2>5, <3>2 DEF ShowDisk, Making, Go, RowInv, TypeOK
      <4>2. "idle" \in Stage /\ \A v \in Worker \ {w} : pc[v] \in {"select", "insert"} => mutex' = v
        BY <3>2 DEF Stage, RowInv, Queried, pool
      <4> QED BY <2>0, <3>2, <4>1, <4>2, RowKept DEF disk
    <3> QED BY <2>5, <3>1, <3>2 DEF ShowDisk
  <2> QED
    BY <2>0, <2>1, <2>2, <2>3, <2>4, <2>5, RestartKeepsRows, QueriesKeepRows, InsertKeepsRows,
       ReleaseKeepsRows, MkdirKeepsRows, OthersKeepRows DEF Next
<1> QED BY <1>1, <1>2, PTL DEF Spec

(* The directory of a new user can be made, unless others put something    *)
(* under its name or mkdir may refuse it.                                  *)
THEOREM MkdirAlwaysSucceeds == Spec => []MkdirSucceeds
<1>1. RowInv => MkdirSucceeds
  BY DEF RowInv
<1> QED BY <1>1, RowInvariance, PTL

(* A user has a directory unless it was removed, the process ended in the  *)
(* middle of the registration, or the registration is not over.            *)
THEOREM AlwaysHomeOrCut == Spec => []HomeOrCut
<1>1. RowInv => HomeOrCut
  BY DEF RowInv
<1> QED BY <1>1, RowInvariance, PTL
=============================================================================
