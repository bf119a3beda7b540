------------------------------ MODULE Accounts ------------------------------
(***************************************************************************)
(* Accounts: MysqlConnectionPool with Login and Register, and the /login   *)
(* and /register handlers of ConstructorHtml around them.  An account is a *)
(* row of the table and a directory for the user's files; the row is made  *)
(* under the pool's mutex and the directory after it was left.             *)
(*                                                                         *)
(* A step is one critical section of mysql_pool_mutex_, save that Register *)
(* asks and inserts in two steps of the same section, or a call outside.   *)
(* The process may end at any step, by a failed assertion or otherwise,    *)
(* and is started again; table and directories stay.                       *)
(*                                                                         *)
(* The directories stand in one root with whatever the installation has    *)
(* there (FileDir/1), and the handlers of files reach that root too: their *)
(* names and pwd_ may lead there.  They make, replace and remove what      *)
(* stands under a user's name at any time.                                 *)
(***************************************************************************)
EXTENDS FiniteSets, Integers

CONSTANTS
  User, Password,
  Unfit,       \* users under whose name mkdir(2) may refuse a directory
  Worker,      \* the pool's threads, of which each serves one request
  Connection,  \* connections to the database
  Nobody,      \* no thread
  None         \* nullptr

ASSUME UnfitAssumption == Unfit \subseteq User
ASSUME WorkerAssumption == Nobody \notin Worker /\ IsFiniteSet(Worker)
ASSUME ConnectionAssumption == None \notin Connection /\ IsFiniteSet(Connection)

(* Config.cpp: thread_pool_thread_num_ = 8, mysql_connection_max_num_ = 8. *)
ASSUME EnoughAssumption == Cardinality(Worker) <= Cardinality(Connection)

VARIABLES
  idle,    \* mysql_pool_
  used,    \* used_connection_num_
  mutex,   \* who holds mysql_pool_mutex_
  pc,      \* stage of each worker
  req,     \* what it was asked for
  conn,    \* the connection it has
  ret,     \* what Login or Register will return
  table,   \* rows of the table user
  homes,   \* directories below http_connection_file_dir_root_path_
  blocked, \* names there that are a file's
  down,    \* "no", or why the process ended
  foreign, \* history: names there that no registration made
  removed, \* history: names of directories that were removed, not made again
  cut      \* history: users registered when the process ended before mkdir

pool == <<idle, used, mutex>>
root == <<homes, blocked, foreign, removed>>
disk == <<table, root>>
vars == <<pool, pc, req, conn, ret, disk, down, cut>>

Request == [kind : {"login", "register"}, user : User, password : Password]
Known(u) == \E p \in Password : <<u, p>> \in table
Entries  == homes \union blocked

(* A worker that has inserted a row and not made the directory.            *)
Making(w, u) ==
  /\ pc[w] \in {"release", "mkdir"} /\ ret[w]
  /\ req[w].kind = "register" /\ req[w].user = u

Fresh ==
  /\ idle = Connection /\ used = 0 /\ mutex = Nobody
  /\ pc = [w \in Worker |-> "idle"]
  /\ conn = [w \in Worker |-> None]

Init ==
  /\ Fresh
  /\ req \in [Worker -> Request] /\ ret = [w \in Worker |-> FALSE]
  /\ table = {} /\ homes \in SUBSET User /\ blocked \in SUBSET (User \ homes)
  /\ foreign = Entries /\ removed = {} /\ down = "no" /\ cut = {}

-----------------------------------------------------------------------------
Go(w, stage) == down = "no" /\ pc' = [pc EXCEPT ![w] = stage] /\ UNCHANGED cut

Receive(w, r) ==
  /\ pc[w] = "idle" /\ Go(w, "get")
  /\ req' = [req EXCEPT ![w] = r]
  /\ ret' = [ret EXCEPT ![w] = FALSE]
  /\ UNCHANGED <<pool, conn, disk, down>>

(* GetConnection; which connection it is makes no difference.  When there  *)
(* is none, Login and Register return false.                               *)
GetConnection(w) ==
  /\ pc[w] = "get" /\ mutex = Nobody
  /\ IF idle = {} THEN Go(w, "release") /\ UNCHANGED <<idle, used, conn>>
     ELSE /\ \E c \in idle : idle' = idle \ {c} /\ conn' = [conn EXCEPT ![w] = c]
          /\ used' = used + 1 /\ Go(w, "lock")
  /\ UNCHANGED <<mutex, req, ret, disk, down>>

Lock(w) ==
  /\ pc[w] = "lock" /\ mutex = Nobody /\ mutex' = w
  /\ Go(w, "select")
  /\ UNCHANGED <<idle, used, req, conn, ret, disk, down>>

(* Login: the row with this name and password, if there is one.            *)
SelectLogin(w) ==
  /\ pc[w] = "select" /\ req[w].kind = "login"
  /\ ret' = [ret EXCEPT ![w] = <<req[w].user, req[w].password>> \in table]
  /\ mutex' = Nobody /\ Go(w, "release")
  /\ UNCHANGED <<idle, used, req, conn, disk, down>>

(* Register: the name is taken.                                            *)
SelectTaken(w) ==
  /\ pc[w] = "select" /\ req[w].kind = "register" /\ Known(req[w].user)
  /\ mutex' = Nobody /\ Go(w, "release")
  /\ UNCHANGED <<idle, used, req, conn, ret, disk, down>>

(* Mutation of SelectFree: the mutex is left between the two queries.      *)
SelectFreeUnlock(w) ==
  /\ pc[w] = "select" /\ req[w].kind = "register" /\ ~Known(req[w].user)
  /\ mutex' = Nobody /\ Go(w, "insert")
  /\ UNCHANGED <<idle, used, req, conn, ret, disk, down>>

(* Register: the name is free.  The mutex is kept.                         *)
SelectFree(w) ==
  /\ pc[w] = "select" /\ req[w].kind = "register" /\ ~Known(req[w].user)
  /\ Go(w, "insert")
  /\ UNCHANGED <<pool, req, conn, ret, disk, down>>

(* Register: insert, which the database may refuse.                        *)
Insert(w) ==
  /\ pc[w] = "insert"
  /\ \/ /\ table' = table \union {<<req[w].user, req[w].password>>}
        /\ ret' = [ret EXCEPT ![w] = TRUE]
     \/ UNCHANGED <<table, ret>>
  /\ mutex' = Nobody /\ Go(w, "release")
  /\ UNCHANGED <<idle, used, req, conn, root, down>>

(* What the handlers do with the answer: make the directory, show it, or   *)
(* show a page.                                                            *)
Then(w) == IF ~ret[w] THEN "idle" ELSE IF req[w].kind = "register" THEN "mkdir" ELSE "page"

(* Mutation of ReleaseConnection: not after a false result.                *)
ReleaseOnSuccess(w) ==
  /\ pc[w] = "release" /\ mutex = Nobody
  /\ IF conn[w] = None \/ ~ret[w] THEN UNCHANGED <<idle, used>>
     ELSE idle' = idle \union {conn[w]} /\ used' = used - 1
  /\ conn' = [conn EXCEPT ![w] = None]
  /\ Go(w, Then(w))
  /\ UNCHANGED <<mutex, req, ret, disk, down>>

ReleaseConnection(w) ==
  /\ pc[w] = "release" /\ (mutex = Nobody \/ conn[w] = None)
  /\ IF conn[w] = None THEN UNCHANGED <<idle, used>>
     ELSE idle' = idle \union {conn[w]} /\ used' = used - 1
  /\ conn' = [conn EXCEPT ![w] = None]
  /\ Go(w, Then(w))
  /\ UNCHANGED <<mutex, req, ret, disk, down>>

(* The process ends.  Rows without a directory stay so.                    *)
End(why) ==
  /\ down' = why
  /\ cut' = cut \union {u \in User : \E w \in Worker : Making(w, u)}
  /\ UNCHANGED <<pool, pc, req, conn, ret, disk>>

(* Mutation of Mkdir: built with NDEBUG, the assertion and the call in it  *)
(* are left out.                                                           *)
MkdirCompiledOut(w) ==
  /\ down = "no" /\ pc[w] = "mkdir" /\ Go(w, "idle")
  /\ UNCHANGED <<pool, req, conn, ret, disk, down>>

(* assert(mkdir(...) == 0).  mkdir(2) fails when the name is there, be it  *)
(* a directory or a file, and may when it has a directory in front that is *)
(* not there, or is too long.                                              *)
Mkdir(w) ==
  LET u == req[w].user IN
  /\ down = "no" /\ pc[w] = "mkdir"
  /\ \/ u \in Entries \union Unfit /\ End("mkdir")
     \/ /\ u \notin Entries /\ Go(w, "idle")
        /\ homes' = homes \union {u} /\ removed' = removed \ {u}
        /\ UNCHANGED <<pool, req, conn, ret, table, blocked, foreign, down>>

(* The page after a login lists the directory; assert(dir != nullptr).     *)
ShowDisk(w) ==
  /\ down = "no" /\ pc[w] = "page"
  /\ IF req[w].user \notin homes THEN End("opendir")
     ELSE Go(w, "idle") /\ UNCHANGED <<pool, req, conn, ret, disk, down>>

(* Other requests: /mkdir makes a directory, an upload or a copy a file;   *)
(* /deleteDir and /delete remove what is there.                            *)
Make(u) ==
  /\ u \notin Entries /\ foreign' = foreign \union {u}
  /\ \/ homes' = homes \union {u} /\ removed' = removed \ {u} /\ UNCHANGED blocked
     \/ blocked' = blocked \union {u} /\ UNCHANGED <<homes, removed>>

Remove(u) ==
  /\ u \in Entries
  /\ removed' = removed \union ({u} \intersect homes)
  /\ homes' = homes \ {u} /\ blocked' = blocked \ {u} /\ foreign' = foreign \ {u}

Others ==
  /\ down = "no"
  /\ \E u \in User : Make(u) \/ Remove(u)
  /\ UNCHANGED <<pool, pc, req, conn, ret, table, down, cut>>

Crash == down = "no" /\ End("crash")

(* InitTable makes the table only if it is not there.                      *)
Restart ==
  /\ down # "no" /\ down' = "no"
  /\ idle' = Connection /\ used' = 0 /\ mutex' = Nobody
  /\ pc' = [w \in Worker |-> "idle"] /\ conn' = [w \in Worker |-> None]
  /\ UNCHANGED <<req, ret, disk, cut>>

Next ==
  \/ Others \/ Crash \/ Restart
  \/ \E w \in Worker :
       \/ \E r \in Request : Receive(w, r)
       \/ GetConnection(w) \/ Lock(w)
       \/ SelectLogin(w) \/ SelectTaken(w) \/ SelectFree(w) \/ Insert(w)
       \/ ReleaseConnection(w) \/ Mkdir(w) \/ ShowDisk(w)

Spec == Init /\ [][Next]_vars

-----------------------------------------------------------------------------
Stage == {"idle", "get", "lock", "select", "insert", "release", "mkdir", "page"}

TypeOK ==
  /\ idle \subseteq Connection /\ used \in Int /\ mutex \in Worker \union {Nobody}
  /\ pc \in [Worker -> Stage] /\ req \in [Worker -> Request]
  /\ conn \in [Worker -> Connection \union {None}] /\ ret \in [Worker -> BOOLEAN]
  /\ table \subseteq User \X Password /\ homes \subseteq User
  /\ blocked \subseteq User /\ foreign \subseteq User /\ removed \subseteq User
  /\ down \in {"no", "crash", "mkdir", "opendir"} /\ cut \subseteq User

(* mysql_pool_ and the workers divide the connections among them, and no   *)
(* request is refused for want of one: a login that fails was looked up.   *)
PoolExact ==
  /\ \A c \in Connection : c \in idle <=> \A w \in Worker : conn[w] # c
  /\ \A v, w \in Worker : conn[v] = conn[w] /\ conn[v] # None => v = w
  /\ used = Cardinality(Connection \ idle)
  /\ \A w \in Worker : pc[w] = "release" => conn[w] # None

(* HTTPConnection.cpp:241: the directory of a new user can be made, unless *)
(* something else was put under that name or no directory can have it.     *)
(* Two registrations of a name never both succeed, before a restart or     *)
(* after, and whatever others make or remove between them.                 *)
MkdirSucceeds ==
  down = "mkdir" => \E w \in Worker : pc[w] = "mkdir" /\ req[w].user \in foreign \union Unfit

(* A user who can log in has a directory, and the page after the login     *)
(* does not end the process, unless the login overtakes the end of the     *)
(* registration, the process ended in its middle, or the directory was     *)
(* removed since.                                                          *)
HomeOrCut ==
  \A u \in User : Known(u) /\ u \notin homes =>
    u \in cut \union removed \/ \E w \in Worker : Making(w, u)
=============================================================================
