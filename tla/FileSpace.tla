----------------------------- MODULE FileSpace ------------------------------
(***************************************************************************)
(* The users' files: the handlers of ConstructorHtml that work on them,    *)
(* the page of a directory that ConstructResponse makes, and the functions *)
(* of Utils that walk, list, remove and copy.  The connections are logged  *)
(* in and each serves one request at a time, all in one tree.  A step is   *)
(* a system call, or what a handler does between two of them.              *)
(*                                                                         *)
(* The connections of a user are one session and share pwd_: EpollLoop     *)
(* copies it when one of them has answered, whatever the others are doing. *)
(* Files are named like users, so that a name may stand anywhere.  Of a    *)
(* file's bytes the model keeps whether the owner has let others have them.*)
(*                                                                         *)
(* pwd_ and the paths made from it are spelled: ".." and "." stay in them  *)
(* as they came and are compared as they are; only the kernel resolves     *)
(* them.  What is above the root counts as not there.                      *)
(***************************************************************************)
EXTENDS Naturals, Sequences, SequencesExt

CONSTANTS
  User,         \* users, and the names of files and directories
  Up, Here,     \* ".." and "." (or an empty name)
  Name,         \* bound: the names that requests have, by their parts
  Conn,         \* connections
  NoConn,       \* no connection
  Nowhere,      \* no path
  RootLength,   \* length of http_connection_file_dir_root_path_ as a string
  Path,         \* bound: the paths at which there can be something
  MaxRequests,  \* bound: requests in one behaviour
  Tree,         \* the trees a behaviour may start from
  StartDir      \* bound: the directories where the connections may be then

Dots == {Up, Here}

ASSUME NameAssumption ==
  /\ User \intersect Dots = {} /\ Up # Here /\ \A u \in User : <<u>> \in Name
  /\ Name \subseteq Seq(User \union Dots) \ {<<>>}
(* A path leads through directories.                                       *)
ASSUME PathAssumption ==
  /\ Nowhere \notin Path /\ <<>> \in Path /\ \A u \in User : <<u>> \in Path
  /\ \A p \in Path : p \in Seq(User) /\ \A n \in 0 .. Len(p) : SubSeq(p, 1, n) \in Path
ASSUME TreeAssumption ==
  \A t \in Tree :
    /\ <<>> \in DOMAIN t /\ t[<<>>].kind = "dir" /\ DOMAIN t \subseteq Path
    /\ \A p \in DOMAIN t :
         /\ t[p] \in [kind : {"dir", "file"}, shared : BOOLEAN]
         /\ \A n \in 0 .. Len(p) - 1 :
              SubSeq(p, 1, n) \in DOMAIN t /\ t[SubSeq(p, 1, n)].kind = "dir"
ASSUME BoundAssumption == MaxRequests \in Nat /\ NoConn \notin Conn

VARIABLES
  kind,      \* of each path: "none", "dir" or "file"
  shared,    \* paths with S_IXOTH
  private,   \* files whose bytes their owner has not shared
  owner,     \* username_ of each connection
  pwd,       \* pwd_, as it is spelled below the root
  pc,        \* stage of each connection
  req,       \* its request: operation and name
  goal,      \* InDir: what the answer is for
  dir,       \* InDir, DeleteDir: the directory in hand
  todo,      \* entries read and not yet looked at
  file,      \* final_path of /copy, the directory to delete or to list, or
             \* the file that an upload has written
  state,     \* history: "shown" while the page shows the link, "stale" if it
             \* did not when the request came, "disturbed" once another
             \* connection took something away, "moved" once one moved pwd_
  leaked,    \* history: uploads that their chmod has missed, and copies of
             \* files that were not shared
  requests,  \* requests so far
  down       \* the connection whose request ended the process

files == <<kind, shared, private>>
work  == <<req, goal, dir, todo, file>>
vars  == <<files, owner, pwd, pc, work, state, leaked, requests, down>>

Root == <<>>
Home(c) == <<owner[c]>>
Kind(p) == IF p \in Path THEN kind[p] ELSE "none"
Children(p) == {q \in Path : q # Root /\ Front(q) = p /\ kind[q] # "none"}
Below(p, q) == IsStrictPrefix(p, q)

(* Where a spelled path leads, part by part through directories.  What     *)
(* ends in dots is one.                                                    *)
Through(p, n) ==
  CASE Kind(p) # "dir" -> Nowhere
    [] Kind(p) = "dir" /\ n = Up -> IF p = Root THEN Nowhere ELSE Front(p)
    [] Kind(p) = "dir" /\ n = Here -> p
    [] OTHER -> Append(p, n)
Walked(p) == FoldLeft(Through, Root, p)
Resolve(p) ==
  IF p \in Seq(User) THEN p
  ELSE IF Walked(p) \in Path /\ (Last(p) \in Dots => Kind(Walked(p)) = "dir") THEN Walked(p)
  ELSE Nowhere

(* pwd_ + "/" + name, and what is there.                                   *)
Target(c) == pwd[c] \o req[c].name
Spot(c)   == Resolve(Target(c))
Entries(p) == {Append(p, Last(q)) : q \in Children(Resolve(p))}

(* A name of one part that is not dots; a name that has a '/'.             *)
Simple(n)  == Len(n) = 1 /\ n[1] \in User
Slashed(n) == Len(n) > 1

OwnOp  == {"upload", "download", "delete", "deleteDir", "share", "unshare"}
FormOp == {"disk", "back"}
Op     == OwnOp \union FormOp \union {"download2copy", "copy", "enter", "mkdir", "preview"}

(* The links of a page: of each entry that IteratorDir lists, and those    *)
(* that disk.html has itself, the form for uploads on every page.  Where   *)
(* pwd_ has dots the guards refuse what the page shows; that page's links  *)
(* are not in the set.                                                     *)
Own(c, p) == p = Home(c) \/ Below(Home(c), p)
Links(c) ==
  LET d == pwd[c]
      forms == {"disk", "upload"} \union (IF d = Root THEN {} ELSE {"back", "mkdir"})
      entry(p) ==
        IF Own(c, d)
          THEN {"share", "unshare"} \union
               (IF kind[p] = "dir" THEN {"deleteDir", "enter"}
                ELSE {"delete", "download", "preview"})
        ELSE IF kind[p] = "file"
          THEN IF p \in shared THEN {"download2copy", "copy", "preview"} ELSE {}
        ELSE IF p \in shared \/ p = Home(c) THEN {"enter"} ELSE {}
  IN IF d \notin Seq(User) \/ Kind(d) # "dir" THEN {}
     ELSE [op : forms, name : {<<u>> : u \in User}]
          \union UNION {[op : entry(p), name : {<<Last(p)>>}] : p \in Children(d)}

NoRequest(c) == [op |-> "disk", name |-> <<owner[c]>>]

Init ==
  /\ \E t \in Tree : kind = [p \in Path |-> IF p \in DOMAIN t THEN t[p].kind ELSE "none"]
                     /\ shared = {p \in DOMAIN t : t[p].shared}
  /\ private = {p \in Path : kind[p] = "file" /\ p \notin shared}
  /\ owner \in [Conn -> User]
  /\ pwd \in [Conn -> {p \in Path \intersect StartDir : kind[p] = "dir"}]
  /\ \A c, d \in Conn : owner[c] = owner[d] => pwd[c] = pwd[d]
  /\ RootLength < 10 => \A c \in Conn : pwd[c] # Root     \* see Page
  /\ pc = [c \in Conn |-> "idle"]
  /\ req = [c \in Conn |-> NoRequest(c)]
  /\ goal = [c \in Conn |-> "own"] /\ dir = [c \in Conn |-> Nowhere]
  /\ todo = [c \in Conn |-> {}] /\ file = [c \in Conn |-> Nowhere]
  /\ state = [c \in Conn |-> "shown"] /\ leaked = {}
  /\ requests = 0 /\ down = NoConn

-----------------------------------------------------------------------------
Set(f, c, v) == [f EXCEPT ![c] = v]
At(c, stage) == pc[c] = stage /\ down = NoConn
Go(c, stage) == pc' = Set(pc, c, stage)
Calm         == UNCHANGED <<files, pwd, down>>   \* nothing that others see

(* An assertion fails, or an exception is not caught.                      *)
Abort(c) == down' = c /\ UNCHANGED <<files, pwd, pc, work>>

(* On to the next stage, with nothing in hand, nor of the request if it    *)
(* has been carried out.                                                   *)
Proceed(c, stage) ==
  /\ Go(c, stage) /\ goal' = Set(goal, c, "own") /\ dir' = Set(dir, c, Nowhere)
  /\ todo' = Set(todo, c, {}) /\ file' = Set(file, c, Nowhere)
  /\ req' = IF stage \in {"page", "done"} THEN Set(req, c, NoRequest(c)) ELSE req

(* InDir(start, pwd_): opens start first.                                  *)
Walk(c, g) ==
  /\ Go(c, "opendir") /\ goal' = Set(goal, c, g) /\ todo' = Set(todo, c, {})
  /\ dir' = Set(dir, c, IF g \in {"own", "listed"} THEN Home(c) ELSE Root)

(* A request for any link, of the present page or of an earlier one, or    *)
(* for a name that no page shows.                                          *)
Receive(c, op, name) ==
  /\ At(c, "idle")
  /\ IF op \in {"disk", "back"} THEN name = <<owner[c]>> ELSE Resolve(pwd[c] \o name) \in Path
  /\ requests' = requests + 1
  /\ req' = Set(req, c, [op |-> op, name |-> name])
  /\ state' = Set(state, c, IF [op |-> op, name |-> name] \in Links(c) THEN "shown" ELSE "stale")
  /\ CASE op \in {"disk", "enter", "preview"} -> Go(c, "act") /\ UNCHANGED <<goal, dir, todo>>
       [] op \in OwnOp \union {"download2copy"} -> Walk(c, "own")
       [] op \in {"copy", "back", "mkdir"} -> Walk(c, "root")
  /\ Calm /\ UNCHANGED <<file, owner, leaked>>

(* Mutations of InOwn: only below the user's directory, and anywhere.      *)
InOwnBelow(c, yes) == yes
InOwnAnywhere(c, yes) == TRUE

(* InDir(user_file_root_path_, pwd_) || user_file_root_path_ == pwd_       *)
InOwn(c, yes) == yes \/ pwd[c] = Home(c)

(* What InDir's answer decides: the guards of the handlers, that of        *)
(* /download before that of /download2copy, and what the page shows.       *)
Found(c, yes) ==
  LET op == req[c].op
      own == InOwn(c, yes)
      in  == yes \/ (op \in {"download2copy", "copy"} /\ pwd[c] = Root)
  IN CASE goal[c] = "own" /\ ~own /\ op = "download2copy" -> Walk(c, "root") /\ UNCHANGED <<req, file>>
       [] goal[c] = "own" /\ own -> Proceed(c, "act")
       [] goal[c] = "root" /\ in -> Proceed(c, IF op = "download2copy" THEN "check" ELSE "act")
       [] goal[c] = "page"       -> Proceed(c, "list")
       [] goal[c] = "listed"     -> Go(c, "stat") /\ todo' = Set(todo, c, Children(file[c]))
                                      /\ UNCHANGED <<req, goal, dir, file>>
       [] OTHER -> Proceed(c, "forbidden")

(* InDir: opendir, and all the names the directory has now.                *)
Opendir(c) ==
  /\ At(c, "opendir")
  /\ IF Kind(dir[c]) # "dir" THEN Abort(c)
     ELSE /\ Go(c, "look") /\ todo' = Set(todo, c, todo[c] \union Children(dir[c]))
          /\ Calm /\ UNCHANGED <<req, goal, dir, file>>

(* InDir: the next directory among the names, in any order, or pwd_.       *)
Look(c) ==
  /\ At(c, "look") /\ Calm
  /\ \/ pwd[c] \in todo[c] /\ Found(c, TRUE)
     \/ \E p \in todo[c] \ {pwd[c]} :
          /\ kind[p] = "dir" /\ Go(c, "opendir") /\ dir' = Set(dir, c, p)
          /\ todo' = Set(todo, c, todo[c] \ {p}) /\ UNCHANGED <<req, goal, file>>
     \/ pwd[c] \notin todo[c] /\ (\A p \in todo[c] : kind[p] # "dir") /\ Found(c, FALSE)

-----------------------------------------------------------------------------
(* The handlers, once their guards are passed.  All but three of them do   *)
(* not take a name with a '/'; where /download has refused it,             *)
(* /download2copy looks at the request once more.                          *)
Refused(c) == Slashed(req[c].name) /\ req[c].op \notin {"upload", "mkdir", "preview"}
Doing(c, op) == At(c, "act") /\ req[c].op = op /\ ~Refused(c)

Refuse(c) ==
  /\ At(c, "act") /\ Refused(c) /\ Calm
  /\ IF req[c].op = "download2copy" THEN Walk(c, "root") /\ UNCHANGED <<req, file>>
     ELSE Proceed(c, "forbidden")

Vanish(p) == kind' = Set(kind, p, "none") /\ shared' = shared \ {p} /\ private' = private \ {p}

(* chmod, with S_IXOTH or without it.                                      *)
SetMode(p, x) ==
  /\ shared'  = IF Kind(p) = "none" THEN shared
                ELSE IF x THEN shared \union {p} ELSE shared \ {p}
  /\ private' = IF Kind(p) # "file" THEN private
                ELSE IF x THEN private \ {p} ELSE private \union {p}
  /\ UNCHANGED kind

(* A file can be written, or a directory made, at p.                       *)
Room(p) == p \in Path /\ Kind(p) # "dir" /\ Kind(Front(p)) = "dir"

(* /upload writes the file with the mode it has and changes that after.    *)
Upload(c) ==
  /\ Doing(c, "upload") /\ Go(c, "chmod")
  /\ LET t == Spot(c) IN
     IF Room(t)
       THEN /\ kind' = Set(kind, t, "file") /\ private' = private \union {t}
            /\ file' = Set(file, c, t) /\ UNCHANGED shared
       ELSE UNCHANGED <<files, file>>
  /\ UNCHANGED <<req, goal, dir, todo, pwd, down>>

UploadChmod(c) ==
  /\ At(c, "chmod") /\ Proceed(c, "page") /\ SetMode(Spot(c), FALSE)
  /\ UNCHANGED <<pwd, down>>

Share(c) ==
  /\ Doing(c, "share") /\ Proceed(c, "page") /\ SetMode(Spot(c), TRUE)
  /\ UNCHANGED <<pwd, down>>

Unshare(c) ==
  /\ Doing(c, "unshare") /\ Proceed(c, "page") /\ SetMode(Spot(c), FALSE)
  /\ UNCHANGED <<pwd, down>>

(* remove(3) takes a file or an empty directory.  It refuses what ends in  *)
(* ".." or "."; after an empty name it does not.  The root stays.          *)
Unname(p) ==
  LET t == Resolve(p) IN
  \/ Kind(t) # "none" /\ Children(t) = {} /\ t # Root /\ Last(p) # Up /\ Vanish(t)
  \/ /\ Kind(t) = "none" \/ Children(t) # {} \/ t = Root \/ Last(p) \in Dots
     /\ UNCHANGED files

Delete(c) == Doing(c, "delete") /\ Proceed(c, "page") /\ Unname(Target(c)) /\ UNCHANGED <<pwd, down>>

DeleteDir(c) ==
  /\ Doing(c, "deleteDir") /\ Go(c, "descend") /\ Calm
  /\ dir' = Set(dir, c, Target(c)) /\ file' = Set(file, c, Target(c))
  /\ UNCHANGED <<req, goal, todo>>

(* DeleteDir: opendir.                                                     *)
Descend(c) ==
  /\ At(c, "descend")
  /\ IF Kind(Resolve(dir[c])) # "dir" THEN Abort(c)
     ELSE /\ Go(c, "empty") /\ todo' = Set(todo, c, todo[c] \union Entries(dir[c]))
          /\ Calm /\ UNCHANGED <<req, goal, dir, file>>

(* DeleteDir: one entry of the innermost directory, if its path still      *)
(* leads to it.                                                            *)
Unlink(c) ==
  /\ At(c, "empty")
  /\ \E p \in {q \in todo[c] : Front(q) = dir[c]} :
       /\ todo' = Set(todo, c, todo[c] \ {p})
       /\ IF Kind(Resolve(p)) = "dir" THEN Go(c, "descend") /\ dir' = Set(dir, c, p)
          ELSE UNCHANGED <<pc, dir>>
       /\ IF Kind(Resolve(p)) = "file" THEN Vanish(Resolve(p)) ELSE UNCHANGED files
  /\ UNCHANGED <<req, goal, file, pwd, down>>

(* DeleteDir: its entries are dealt with.                                  *)
Rmdir(c) ==
  /\ At(c, "empty") /\ \A p \in todo[c] : Front(p) # dir[c]
  /\ IF Kind(Resolve(dir[c])) = "dir" THEN Unname(dir[c]) ELSE UNCHANGED files
  /\ IF dir[c] = file[c] THEN Proceed(c, "page")
     ELSE dir' = Set(dir, c, Front(dir[c])) /\ UNCHANGED <<pc, req, goal, todo, file>>
  /\ UNCHANGED <<pwd, down>>

Mkdir(c) ==
  /\ Doing(c, "mkdir") /\ Proceed(c, "page")
  /\ IF Room(Spot(c)) /\ Kind(Spot(c)) = "none" THEN kind' = Set(kind, Spot(c), "dir")
     ELSE UNCHANGED kind
  /\ UNCHANGED <<shared, private, pwd, down>>

Disk(c) == Doing(c, "disk") /\ Proceed(c, "page") /\ Calm

Enter(c) ==
  /\ Doing(c, "enter") /\ Proceed(c, "page") /\ pwd' = Set(pwd, c, Target(c))
  /\ UNCHANGED <<files, down>>

(* /back cuts the last name off.  If pwd_ has been moved to the root since *)
(* the guard, "." is left, which the page cannot show.                     *)
Back(c) ==
  /\ Doing(c, "back")
  /\ IF pwd[c] = Root THEN Abort(c)
     ELSE Proceed(c, "page") /\ pwd' = Set(pwd, c, Front(pwd[c])) /\ UNCHANGED <<files, down>>

(* Mutation of Sharable: no test.                                          *)
SharableAll(p) == TRUE

(* st_mode & S_IXOTH                                                       *)
Sharable(p) == p \in shared

(* /download2copy: stat, and the test of S_IXOTH.                          *)
Check(c) ==
  /\ At(c, "check")
  /\ IF Refused(c) THEN Proceed(c, "forbidden") /\ Calm
     ELSE IF Kind(Spot(c)) = "none" THEN Abort(c)
     ELSE Proceed(c, IF Sharable(Spot(c)) THEN "open" ELSE "forbidden") /\ Calm

(* A file is opened to be sent.  In an own directory /download2copy is     *)
(* taken for /download.                                                    *)
Open(c) ==
  /\ At(c, "open") \/ \E op \in {"download", "download2copy", "preview"} : Doing(c, op)
  /\ Proceed(c, "done") /\ Calm

(* /copy: the same test, and final_path.                                   *)
Copy(c) ==
  /\ Doing(c, "copy")
  /\ IF Kind(Spot(c)) = "none" THEN Abort(c)
     ELSE IF ~Sharable(Spot(c)) THEN Proceed(c, "forbidden") /\ Calm
     ELSE Go(c, "copy") /\ file' = Set(file, c, Spot(c)) /\ Calm /\ UNCHANGED <<req, goal, dir, todo>>

(* CopyFile: the copy has the source's last part for a name.  A source     *)
(* that is gone or no file leaves an empty copy.                           *)
Copied(c) == Resolve(Home(c) \o req[c].name)

CopyFile(c) ==
  /\ At(c, "copy") /\ Proceed(c, "page")
  /\ LET t == Copied(c) IN
     IF ~Room(t) THEN UNCHANGED files
     ELSE /\ kind' = Set(kind, t, "file") /\ UNCHANGED shared
          /\ private' = IF file[c] \in private \ {t} THEN private \union {t} ELSE private \ {t}
  /\ UNCHANGED <<pwd, down>>

-----------------------------------------------------------------------------
(* ConstructResponse: pwd_.substr(10), and whether to show the way back.   *)
Page(c) ==
  /\ At(c, "page")
  /\ IF pwd[c] = Root /\ RootLength < 10 THEN Abort(c)
     ELSE Walk(c, "page") /\ Calm /\ UNCHANGED <<req, file>>

(* IteratorDir: opendir, then InDir, then the entries.                     *)
List(c) ==
  /\ At(c, "list")
  /\ IF Kind(Resolve(pwd[c])) # "dir" THEN Abort(c)
     ELSE Go(c, "opendir") /\ goal' = Set(goal, c, "listed") /\ dir' = Set(dir, c, Home(c))
          /\ file' = Set(file, c, Resolve(pwd[c])) /\ Calm /\ UNCHANGED <<req, todo>>

Stat(c) ==
  /\ At(c, "stat")
  /\ IF todo[c] = {} THEN Proceed(c, "done") /\ Calm
     ELSE \E p \in todo[c] :
            IF Kind(Resolve(Append(pwd[c], Last(p)))) = "none" THEN Abort(c)
            ELSE todo' = Set(todo, c, todo[c] \ {p}) /\ Calm /\ UNCHANGED <<pc, req, goal, dir, file>>

(* The answer is sent; EpollLoop copies pwd_ to the user's connections.    *)
Finish(c) ==
  /\ At(c, "done") \/ At(c, "forbidden")
  /\ Go(c, "idle") /\ req' = Set(req, c, NoRequest(c)) /\ UNCHANGED <<goal, dir, todo, file>>
  /\ pwd' = [d \in Conn |-> IF owner[d] = owner[c] THEN pwd[c] ELSE pwd[d]]
  /\ UNCHANGED <<files, down>>

Step(c) ==
  \/ Opendir(c) \/ Look(c) \/ Refuse(c)
  \/ Upload(c) \/ UploadChmod(c) \/ Share(c) \/ Unshare(c) \/ Delete(c)
  \/ DeleteDir(c) \/ Descend(c) \/ Unlink(c) \/ Rmdir(c)
  \/ Mkdir(c) \/ Disk(c) \/ Enter(c) \/ Back(c)
  \/ Check(c) \/ Open(c) \/ Copy(c) \/ CopyFile(c)
  \/ Page(c) \/ List(c) \/ Stat(c) \/ Finish(c)

(* A step takes away what is there, or what is shared.                     *)
TakesAway == ~(shared \subseteq shared') \/ \E p \in Path : kind[p] # "none" /\ kind'[p] = "none"

Moved(c) == {d \in Conn \ {c} : pwd'[d] # pwd[d]}   \* by a step of c

History(c) ==
  /\ state' = [d \in Conn |->
       IF pc'[d] = "idle" THEN "shown"
       ELSE IF d \in Moved(c) THEN "moved"
       ELSE IF d # c /\ TakesAway /\ state[d] # "moved" THEN "disturbed"
       ELSE state[d]]
  /\ leaked' = leaked \union (IF pc[c] = "chmod" /\ Spot(c) # file[c] THEN {file[c]} ELSE {})
                     \union (IF pc[c] = "copy" /\ file[c] \in private THEN {Copied(c)} ELSE {})

Next ==
  \E c \in Conn :
    \/ requests < MaxRequests /\ \E op \in Op, name \in Name : Receive(c, op, name)
    \/ Step(c) /\ History(c) /\ UNCHANGED <<owner, requests>>

Spec == Init /\ [][Next]_vars

-----------------------------------------------------------------------------
(* The types, and what can have a mode: shared and private things are      *)
(* there, and everything stands in a directory.                            *)
TypeOK ==
  /\ kind \in [Path -> {"none", "dir", "file"}]
  /\ shared \subseteq {p \in Path : kind[p] # "none"}
  /\ private \subseteq {p \in Path : kind[p] = "file"}
  /\ \A p \in Path \ {Root} : kind[p] # "none" => kind[Front(p)] = "dir"
  /\ \A c \in Conn :
       /\ goal[c] \in {"own", "root", "page", "listed"}
       /\ pc[c] \in {"idle", "opendir", "look", "act", "check", "open", "copy", "descend",
                     "empty", "chmod", "page", "list", "stat", "done", "forbidden"}
       /\ req[c] \in [op : Op, name : Name]
       /\ state[c] \in {"shown", "stale", "disturbed", "moved"}
  /\ requests \in 0 .. MaxRequests /\ down \in Conn \union {NoConn}

(* A request that leads out of its directory: by a name with dots or '/',  *)
(* which no page shows, or since pwd_ was moved before it was done.        *)
Strays(c) == state[c] = "moved" \/ ~Simple(req[c].name)

(* A link of the page as it is now does what it says: it is not refused    *)
(* and does not end the process, unless another connection took something  *)
(* away, or moved pwd_, before the request was done, or the user's home is *)
(* gone altogether; but for the form for uploads, which every page has and *)
(* only the user's own directories take.  What others add does no harm.    *)
(* (Utils.h:116, 126, 176, 207; HTTPConnection.cpp:263, 324, 352.)         *)
LinksHold ==
  TypeOK /\ \A c \in Conn : state[c] = "shown" =>
    /\ pc[c] = "forbidden" => req[c].op = "upload" /\ ~Own(c, pwd[c])
    /\ down = c => (pc[c] = "page" /\ pwd[c] = Root) \/ Kind(Home(c)) # "dir"

(* A user's files are changed by the user's own requests only, even those  *)
(* for links of an old page, save that anyone can add a directory; unless  *)
(* the request strays: the handlers test names for '/' (upload and mkdir   *)
(* do not) and not for "..", so that a name can lead to another's files.   *)
OwnersOnly ==
  [][\A c \in Conn, p \in Path :
       /\ <<pc[c], todo[c]>> # <<pc[c], todo[c]>>'
       /\ <<kind[p], p \in shared>> # <<kind[p], p \in shared>>'
       => \/ p # Root /\ p[1] = owner[c]
          \/ req[c].op = "mkdir" /\ kind[p] = "none" /\ kind'[p] = "dir"
          \/ Strays(c)]_vars

(* An upload has written p, and not yet changed the mode.                  *)
Uploading(c, p) ==
  pc[c] = "chmod" /\ file[c] = p /\ (owner[c] = p[1] \/ Strays(c))

(* Bytes that a request takes from another user were shared, unless they   *)
(* are just being uploaded over shared ones, or have leaked before, or     *)
(* something was taken away during the request.  (/preview does not ask:   *)
(* there the page must have shown the file.)                               *)
TakesWhatIsShared ==
  [][\A c \in Conn :
       /\ pc[c] \in {"act", "open", "copy"} /\ pc'[c] \in {"done", "page"}
       /\ req[c].op \in {"download", "download2copy", "copy", "preview"}
       /\ state[c] \notin {"disturbed", "moved"} /\ (req[c].op = "preview" => state[c] = "shown")
       => LET p == IF pc[c] = "copy" THEN file[c] ELSE Spot(c)
          IN p \in private /\ p[1] # owner[c] =>
               p \in leaked \/ \E d \in Conn : Uploading(d, p)]_vars

(* HTTPConnection.cpp:536: "the root directory by default" has a page.     *)
RootIsShown == \A c \in Conn : down = c => ~(pc[c] = "page" /\ pwd[c] = Root)
=============================================================================
