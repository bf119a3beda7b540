# FileWebServer in TLA+

FileWebServer is a file server over HTTP for Linux: one thread runs an epoll
loop, a pool of threads reads requests, makes pages and writes responses, and a
list of timers closes old connections.  Users log in once per IP address; login
state is copied between the connections of an address.  This directory holds
TLA+ models of it, the TLC runs that check them, and proofs that TLAPS checks.

    tlc -config timer_list.cfg MCTimerList.tla      a run
    tlapm TimerListProofs.tla                       the proofs of a module

## 1. The system

| Component (source) | State | Operations | Talks to |
|---|---|---|---|
| Reactor, `WebServer/WebServer.cpp` | `connections_`, `timers_`, `session_map_` (mutex), `connection_num_` (no lock), epoll set | `EpollLoop`, `EstablishConnection`, `DealRead`, `DealWrite`, `DealSig` | pool (queue), timer list (calls), Redis pool, signal pipe |
| Thread pool, `ThreadPool/ThreadPool.cpp` | `work_queue_` (mutex), `work_queue_sem_`, threads | `append` (main thread), `run` (each worker) | connections, epoll, timer list, `session_map_` |
| Timer list, `timer/timer.cpp` | `head`, `tail`, links and deadline of each `Timer` (mutex) | `AddTimer`, `InsertTime`, `AdjustTimer`, `DelTimer`, `Tick` | called by the main thread and by workers; `Tick` closes connections |
| Connection, `HTTPConnection/HTTPConnection.cpp` | buffers, parser state, login, directories, response, one per descriptor | `Establish`, `ReceiveMessage`, `Process`, `WriteHTTPMessage`, `Init`, `operator=` | epoll, timer list, database, file system |
| Request parser, same file | positions in the buffer, two state machines | `CutLine`, `AnalysisLine`, `AnalysisHead`, `AnalysisBody` | `ReceiveMessage` |
| Response, same file | write buffer, mapped file, vectors | `ConstructResponse`, `UpdateIov` | socket |
| Pages and files, same file and `Utils/Utils.h` | the users' directories | `ConstructorHtml`, `IteratorDir`, `DeleteDir`, `InDir`, `CopyFile` | file system |
| Log, `Log/Log.cpp` | open file, line count, day (mutex) | `write_log`, `async_write_log` | its queue |
| Log queue, `Log/BlockQueue.h` | ring buffer (mutex, condition variable) | `push`, `pop`, `clear`, `full`, `empty`, `size`, `front`, `back` | |
| MySQL pool, `MysqlConnectionPool/` | idle connections (mutex) | `GetConnection`, `ReleaseConnection`, `Login`, `Register` | database |
| Redis pool, `Redis/Redis.cpp` | idle connections (mutex) | `GetConnection`, `ReleaseConnection`, `SessionExists` | Redis |
| `Config`, `Utils`, `main.cpp` | constants; signal pipe | | |

A connection is addressed everywhere by its descriptor, and is handed around
without a lock: the main thread registers it with epoll as one-shot; epoll
reports it once; the main thread puts it in the work queue; a worker takes it
and either registers it again or closes it.  Closing is five calls in a row
(timer, epoll and `close`, counter, session map), in an order that differs from
handler to handler.  `Tick` alone ignores this protocol: it closes every
connection whose deadline has passed, whoever is serving it.

What is hard: the interleavings of the main thread with the workers in the
timer list, the session map and the counter; a descriptor that is closed and
accepted again while somebody still holds its number; a full work queue; the
order of log lines across file rotation and restart; lost wakeups; requests in
arbitrary pieces and partial writes; two connections of one user in one
directory.  `PROJECT.json` lists each at its line under "hazards".

What makes each component correct:

* timer list: links consistent, no timer lost, ascending, no use after free;
* reactor and pool: one owner per connection, one token per queued item,
  session sets and counter equal to what they describe, every connection is
  served and ends;
* log and its queue: a bounded FIFO, no lost wakeup, each line once, in order,
  files of bounded size;
* parser: the result does not depend on how the request was cut;
* response: every byte once, in order;
* login sharing: a login reaches all connections of the session and is not
  undone by a peer;
* pools: every connection taken is given back;
* accounts and files: a user has a row and a directory or neither; a user's files
  are changed by the user alone and read by others only when shared;
* start-up: no thread and no connection is lost while the pool comes up.

## 2. The modules

| Module | Models |
|---|---|
| `TimerList` | `sort_timer_list` at the level of its pointers, with the main thread and the workers that call it |
| `TimerListProofs` | its theorems |
| `WebServer` | the epoll loop, the pool, and everything shared about a descriptor |
| `WebServerProofs` | its theorems |
| `BoundedFifo` | what `BlockQueue` promises: a bounded queue with atomic operations |
| `BlockQueue` | the ring buffer with its mutex and condition variable |
| `Log` | `write_log`, the asynchronous thread and the files, over a `BoundedFifo` |
| `LogProofs` | its theorems |
| `SessionSync` | the login that the connections of a session share, and its copies |
| `SessionSyncProofs` | its theorems |
| `HttpParser` | receiving and parsing requests that arrive in pieces |
| `ByteStream` | what a client may expect: announced bytes, in order, once |
| `ResponseWriter` | choosing and mapping the file, filling `iov_`, and the loop of `writev`, while others change the file |
| `ConnectionProofs` | the theorems of `HttpParser`, and those of `ResponseWriter`, the refinement of `ByteStream` among them |
| `Accounts` | the pool of database connections, `Login`, `Register` and the directory a new user gets |
| `AccountsProofs` | its theorems |
| `FileSpace` | the handlers that work on files, the page of a directory, and the directory functions of `Utils` |
| `FileSpaceProofs` | its theorems |
| `PoolStartup` | the constructor of `ThreadPool` against the threads it has started |
| `QueueProofs` | the theorems of `BlockQueue`, the refinement of `BoundedFifo` among them, and those of `PoolStartup` |
| `MC...` | symmetry sets, sample requests and sample trees for TLC |

An operator whose comment begins with "Mutation of" is no part of a model: it is
the operator after it with a fault put in, and in `PROJECT.json`, under
"mutants", stands the property that notices.

### TimerList

A timer stands for itself and its connection, and an address is never used
again, so that a use of freed memory shows: it sets `fault` and the model stops.
A step is one critical section of `mutex_` or one round of a loop inside it.
The mutex is not a variable: it is held between steps exactly while `pc` is
`walk` (inside `InsertTime`) or `Tick`, and `Unlocked` is the guard of the
workers' sections.  `AddTimer` has the gap the code has: `AddLater` compares
with the head and unlocks, `ReadHead` evaluates the argument `head` of the call,
`InsertBegin` locks again.  `AdjustHead` and `AdjustMiddle` take a timer out in
one section and go on as `AddTimer` or `InsertTime`.  `DelTimer` has its five
cases.  The main thread has one more role: it decides who owns a connection
(`armed`, `handed`, `held`), because that decides which calls can happen.

### WebServer

Each thread has a task: a descriptor and the list of calls left in its handler,
in the order of the source (`Accepting`, `Handing`, `WorkerClosing`,
`HangUpClosing`, `TickClosing`).  A call is one step, but `++` and `--` of
`connection_num_` are a load and a store, and an insertion into the timer list
may be two critical sections: `ChooseNode` is the first, which ends with a node
(`hint`) next to which the timer is to go, `AddTimer` or `AdjustTimer` the
second, which faults when a worker has deleted that node in between.  A descriptor that is closed is
accepted again, lowest first, as a new incarnation; a timer is named by the
incarnation it was made for.  The timer list is reduced to the set of timers in
it: its inside is `TimerList`, and which timer of the list `ChooseNode` takes is
left open.  `fault` is set, or not, when a handler uses its own timer and that is
deleted: `TimerList` shows that both can happen.

Choices made: the first insertion into the session map (lines 36-40) is in
`Bind`, because nothing reads the map between the two; epoll hands out one event
at a time, because one-shot events of different descriptors in a batch are
independent and `Tick` runs after the batch; a timer closed by `Tick` leaves the
list in `TickNext`, because the mutex hides when; reading `work_mode_` is part
of `Take`, because only the main thread writes it and never for a connection
that is held; the deadlines pass in the order of the accepts.  The
configuration is that of `Config.cpp`: reactor, one-shot, level-triggered.

Four history variables name the races the code has, and each property excuses
only its own: `stolen` (Tick closed a connection the pool had), `raced` (a worker
deleted the node of an insertion between its two sections), `reused` (accept
returned a descriptor that a worker had closed and not yet unbound), `overlap`
(two threads were between load and store of the counter).

### BlockQueue, BoundedFifo, Log

`BlockQueue` has one step per critical section, `pop` having one per round of
its loop.  `front` and `back` call `empty`, which locks the mutex they hold:
`FrontOrBack` takes the mutex for ever (nothing in the repository calls them, so
the log never meets it).  `Contents` maps the ring to a sequence;
`ImplementsFifo` says that under this mapping each step is a step of
`BoundedFifo` or none.  `Log` instantiates `BoundedFifo` for its queue; that is
sound because of the refinement.  Lines are numbers, file names are a day and a
suffix (-1: none).  `open_async_` is chosen at each start, because
`Config.cpp` leaves `open_async_log_` without a value.

### SessionSync

Every slot of `connections_` has its own login, user and directory (`login`,
`user`, `pwd`), and the main thread copies slots: `EpollIn` from one that is
logged in to those that are not, `EpollOut` from the one that answers to all
others.  `main` is the loop over the session's set, under `session_map_mutex_`;
an `operator=` is three steps (`CopyBuffers`, `CopyLogin`, `CopyUser`), because
the workers, whose steps are `Receive` to `WriteAndKeep`, take no lock when they
use the same fields.  Outcomes of such a race inside one field, or between the
user's name and the directory, are not modelled: they need an overlap, under
which only the logins are spoken of.  A request is two pieces, of which the
second alone is no request; what it asks for is a login as one of the users, the
page, or to move, which stands for `/enter` and `/back`.  A session is the
connections of one address, whoever uses it: a login makes all of them that
user's.  `overlap` records that two clients of the session waited for answers at
once; `...ByTurns` say what holds otherwise, `last` being the user they expect
to be.

### HttpParser

One connection and its client.  `Receive` is a `recv` of any length; then each
round of the loop of `AnalysisRequestMessage` is a step: `NotALine`, or
`CutLine` with `AnalysisLine`, `AnalysisHeader` and `AnalysisBlank` (the two
halves of `AnalysisHead`) or `AnalysisBody`.  `Answer` writes the response and
calls `Reinit`, the code's `Init`.  The buffer holds bytes of four kinds (CR,
LF, data, text of a named line), so that every place where a piece can end is
there, while names stand for the texts; how long each text and the boundary are
is a parameter.  A request announces the length of what it carries and is
multipart if it is an upload, as browsers send it; the order of its headers is
free.  `body_length` can become negative, as in the code, when an empty line of
an upload comes before the length.  `Expected` is the reference: the request as the client meant it.
`TakenForALine` and `TakenForAll` describe exactly those cuts after which the
outcome may differ from it; the properties hold for all others.

### ByteStream, ResponseWriter

`ResponseWriter` is one slot of `connections_`: `Process`, `Stat`, `Map`,
`Respond` are the stages between the parser and the first byte, one system call
each, and `Write` is a round of `WriteHTTPMessage` with `UpdateIov`.  Bytes are
counted, not named: `base` and `len` are the two halves of each `iovec`, and
`at` says how many bytes have left in their order, becoming -1 if one leaves out
of its turn, which `InTurn` decides from where the vectors point and not from
how they got there.  `Piece` and `Readable` are the kernel's side of `writev`:
it takes any number of bytes, but none behind a page that cannot be read.
`Change` is another connection that truncates, replaces, removes or creates the
file between any two steps, or makes a directory of its name; a file is mapped
as an inode, so that a new file of the same name is another.  `ImplementsStream` says that a client sees a
behaviour of `ByteStream`: the length the header announced, its bytes in order
and once, the next answer after the last byte and not before, or the end of the
connection.

What the code leaves unchecked shows in the model: `stat` keeps the length of an
earlier file when there is none, `open` and `mmap` fail silently (`BadMap`), a
`FORBIDDEN` answer maps a page that it neither sends nor unmaps, and a directory
has a size and no mapping.  A page is not always found either: `ConstructorHtml`
copies its name behind the root without the terminating zero, first for the
path that was asked for and then for the page that answers the form, so that a
login by a POST of `/login.html` leaves `/disk.htmll` (line 222 over line 198).
`misnamed` stands for that, and `Renamed` has the codes that it can happen to.
`Released`,
`UnreadableExplained` and `WholeFile` say exactly what comes of it.

### Accounts

A worker gets a connection (`GetConnection`), takes the same mutex again for its
queries (`Lock` to `Insert`; `Register` asks and inserts in one section), gives
the connection back, and only then makes the directory of a new user (`Mkdir`)
or shows that of an old one (`ShowDisk`).  Both are assertions in the code, and
`End` is what a failed assertion, or anything else, does to the process: the
table and the directories stay, the pool is new.  `cut` records the users whose
row was there and whose directory was not yet made.  The root of the directories
is not the registration's alone: it begins with anything in it (the repository
has `FileDir/1`, a directory without a row), and `Others` are the handlers of
files, whose names and `pwd_` reach it, making and removing what they like under
a user's name.  `foreign` and `removed` record that, and `Unfit` are names that
`mkdir(2)` may refuse for themselves (one with a `/` in it whose first part is
not there, one too long).  What these do to the two assertions is stated, not
ruled out: `MkdirSucceeds` excuses names that are `foreign` or `Unfit`, and
`HomeOrCut` directories that were `removed`.  A full disk is not modelled.
`used` counts like
`used_connection_num_`, so that `PoolExact` relates the counter, the list and the
workers.  The configuration has as many connections as threads
(`EnoughAssumption`), and the branch of `GetConnection` for an empty pool is in
the model: `PoolExact` says that nobody comes to it.

### FileSpace

The tree is a function from paths to "none", "dir" or "file", with the set of
shared paths (`S_IXOTH`); a file's bytes are reduced to whether their owner has
shared them (`private`).  A connection goes through its handler system call by
system call: `Opendir` and `Look` are `InDir`, which every guard and every page
calls; `Descend`, `Unlink`, `Rmdir` are `DeleteDir`; `List` and `Stat` are
`IteratorDir`; `Check` and `Open`, `Copy` and `CopyFile` have a test of the mode
and the use of the file as two steps, as `Upload` and `UploadChmod` have the
write and the `chmod`.  `Links` is the page that `ConstructResponse` makes, and a
request is any link of the present page or of an earlier one, for a name of the
user's choice, among them "..", "." and names with a `/` in them.  `Finish` is
the copy of `pwd_` to the other connections of the user, which `EpollLoop` makes.
A failed assertion or an uncaught exception is `Abort`.

Names are not what they seem.  `pwd_` and the paths made of it (`Target`) keep
".." and "." as they came; the guards, `InDir` and `/back` compare or cut these
spellings, and only the kernel resolves them (`Resolve`, `Spot`): after
`/enter` of ".." the user is in the directory above, and `InDir` finds that
nowhere.  The handlers refuse a name with a `/` (`Slashed`, `Refuse`), all but
`/upload`, `/mkdir` and `/preview`, and none refuses "..", so that a request whose
guard found `pwd_` to be the user's own can still act on the directory above.
`Strays` is a request with such a name, or one under which `pwd_` was moved: what
it does is in the model, and `OwnersOnly` and `HomesStay` say that nothing else
does it.  `Links` has the form for uploads on every page, as `disk.html` has;
`LinksHold` says that it alone is refused, and where: outside the user's own
directories.

`state` says whether the page shows the link (`shown`), did not when the request
came (`stale`), or whether another connection has since taken something away
(`disturbed`) or moved `pwd_` (`moved`, which stays once it has happened, since
`pwd_` may be moved back).  The server ends on an `opendir` that fails, and
`LinksHold` says that a link of the present page that nobody disturbs does not
come to that, but for the page of the root and for a user whose home is gone;
the latter takes a request that strays (`HomesStay`).  `leaked`
records whose bytes came to stand in a shared file without their owner: an upload
whose `chmod`, by name under the new `pwd_`, missed the file, and copies of such
files or of files that were unshared between the test and the copy.

Choices made: `readdir` is one snapshot; the page calls `InDir` again for each
entry, with the same answer unless the tree changed, and the model calls it once;
who the connections belong to is fixed.  No request has a name that leads above
the root, and what is above the root counts as not there; the root itself is
never removed, which would take an empty name, from the root, when nothing is in
it; `rmdir` refuses a name that ends in "..".  An empty name is `Here`, like ".",
except for `remove`; a backslash in a name is refused like a `/`.  What the page of a
`pwd_` with dots shows is not counted as links of the present page: the guards
compare spellings and refuse most of it.

### PoolStartup

The constructor creates its threads and then initialises the semaphore they wait
on.  `value` and `waiters` are the two halves of glibc's `sem_t`: `SemInit`
overwrites both, so that a thread already asleep is in no count, and `Post`
wakes a sleeper only if the count is not zero.  `missed` are the threads that
slept too early.  The rest is `append` and `run` reduced to what touches the
semaphore; what `run` does with a connection is in `WebServer`.

## 3. The runs

| Run | Checks | Shows | Bounds |
|---|---|---|---|
| `timer_list` | `TypeOK`, `LinksAgree`, `NoTimerLost`, `AscendingUnlessRaced`, `FaultExplained`, `TickComplete` | the list is right in every order of calls, but for two races | 4 timers, 2 workers, clock 0..2, lease 1 |
| `web_server` | `OneOwner`, `TokensMatch`, `FaultExplained`, `SessionsExact`, `CountExact` | ownership, semaphore, sessions and counter are right but for four races | 2 descriptors, 3 accepts, 2 workers, 2 sessions, queue of 1 |
| `web_live` | `AllEnd`, `AllServed` | connections end; queued work is served | 2 descriptors, 2 accepts, 2 workers, queue of 1 |
| `session_sync` | `SyncReachesAll`, `SharedByTurns`, `IntactByTurns`, `AbortedByOverlap` | clients that take turns are all served as the user who logged in last | 3 connections, 2 users, 3 requests, 2 directories |
| `http_parser` | `GetAsSent`, `PostAsSent`, `NeverWaitsInVain` | the result does not depend on the cuts, save for two kinds | 13 requests, 3 pieces each, any number in a row, buffer of 42 |
| `response_writer` | `Accounted`, `UnreadableExplained`, `Released`, `ImplementsStream`, `WholeFile` | announced bytes, in order, once, for every division by `writev`; why an answer is cut short | parts of 1 to 3 bytes, files of 0, 1 and 3, 2 inodes and a directory, requests without end |
| `accounts` | `PoolExact`, `MkdirSucceeds`, `HomeOrCut` | no request without a connection; no name registered twice; who lacks a directory | 2 users, 1 password, 3 workers, 3 connections, requests and restarts without end |
| `file_space` | `LinksHold`, `OwnersOnly`, `TakesWhatIsShared` | links of the present page work but for a misplaced form, files are their owner's unless a request strays, bytes go to others only when shared, each unless disturbed | 2 users, 2 connections, 2 requests, names of one part, ".." and "../v/v", 7 paths, one tree, 2 start directories |
| `file_root` | `RootIsShown` | violated: the comment at `HTTPConnection.cpp:535` | as `file_space`, with the configured root |
| `pool_startup` | `OnlyMissedSleep`, `ServedUnlessAllMissed` | threads that slept before `sem_init` are lost, the others serve everything | 3 threads, 4 connections |
| `block_queue` | `IndicesAgree`, `NoneSleepsOverItems`, `ImplementsFifo` | the ring is a bounded FIFO without lost wakeups | 2 items, 3 threads, capacity 3 |
| `log` | `EachLineOnce`, `InOrder`, `OverfullByQueue`, `TakenIsWritten` | no line lost but by a full queue or a restart; order; size of files | 7 lines, 2 days, 1 restart, 2 lines a file, queue of 2 |

In `timer_list` the types are a property, in `accounts`, `block_queue` and
`response_writer` they are proved, and in the other runs they are a conjunct of
one of the properties.

Why the bounds are enough.  Four timers give a list with a head, a tail and two
middles, so that every case of every function is reached, next to the timer in
transit; readings 0..2 give ties, both orders and expiry.  Two workers can race
each other and the main thread.  In `web_server` three accepts on two
descriptors make a descriptor reused while another is open; a queue of one is
full with the second connection; two sessions tell a stale session from the new
one.  Capacity 3 with three threads wraps the ring at every phase and has two
sleepers at once.  Three connections make a copy loop that has more than one
receiver, and three requests are two logins of different users and a move, from
any of them.
Three pieces put a cut into two places of a request at once; the requests have
their headers in both orders, data of line ends, an empty body, and a length
beyond the buffer's.  In `log` seven lines rotate three times with a queue that
holds a whole file's lines.  In `response_writer` a header of two bytes and a
file of three can be cut inside and between parts, and the other parts are gone
in one piece; sizes 0, 1 and 3 are an empty file, a truncated and a longer one;
the second inode makes a file replaced under the same name, the third is a
directory's.  In `accounts` two
workers can register one name while a third logs in, and one of the two users
has a name that `mkdir` may refuse; one password is enough, for a wrong one is to
the pool and the directories what an unknown name is.  The view of that run
forgets what no later step and no property looks at.  In `file_space` two
requests are one of each connection, or two in a row of one against pages that
have become old; the tree has a directory in a user's directory and the same
name on both sides, both connections begin in that user's directory or in the one
in it, whoever they are, which gives them something to dispute at once, and a name
leads from there to the other user's file.  In `pool_startup` none, some or all threads sleep too
early, and there are more connections than threads.

The properties of all passing runs are proved for all values as well, liveness
apart.  The safety runs use the symmetry of timers, workers,
threads, items, sessions, users, passwords and connections where the models do
not tell them apart; the runs with temporal properties under fairness use none.

Deadlock is not checked: all models stop when their bound is used up, after a
fault or a failed assertion, when `front` holds the mutex, or when nobody sends
a request, which is what the program does then.

Fairness (`web_live`, `log`, `pool_startup`).  The main thread and the workers
run, so their calls are weakly fair, each on its own; waiting for a peer
(`Write`), events, accepts and appended connections have none.  `Alarm` is
strongly fair: the byte of SIGALRM stays in the pipe until a round of the loop
reads it, between other events.  Writing to a closed descriptor fails at once, so
a worker in that position goes on.  `AllEnd` adds that deadlines pass
(`TimePasses`) and `AllServed` that peers read (`PeersRead`), each in the
property itself: without the first, a connection that the full queue dropped
stays for ever; without the second, a worker sleeps in `WriteHTTPMessage`.

### Comments the code does not live up to

The properties are written to hold, and say under which condition.  Where a
comment claims more, the condition is the difference:

* `WebServer.cpp:44` binds all requests of an address; `SessionsExact` excuses a
  descriptor reused in the middle of its closing.
* `WebServer.cpp:206` shares a login with the whole session; `SharedByTurns`
  holds while its clients take turns.
* `README.md:8` receives an upload until Content-Length is there; `PostAsSent`
  excuses the two kinds of cut.
* `Config.h:66` limits the lines of a file; `OverfullByQueue` adds the queue.
* `timer.cpp:135` takes a timer as deleted elsewhere, with nothing left to do,
  when the list is empty; one that Tick deleted from a list with others in it is
  used all the same, which `FaultExplained` excuses (`stolen`).
* `HTTPConnection.cpp:242` asserts that a new user's directory can be made;
  `MkdirSucceeds` excuses names that others put something under.
* `HTTPConnection.cpp:376` limits an operation to one level below `pwd_`; a name
  of ".." passes the test, and the names of `/upload` (line 267), `/mkdir` (line
  491) and `/preview` (line 306) have no test of theirs; `OwnersOnly` excuses what
  strays.
* `HTTPConnection.cpp:535` shows the root directory; `file_root` finds that it
  cannot with the configured path.

## 4. The proofs

`TimerListProofs` proves every property of `timer_list` for any set of timers
and workers, any lease and any clock.  `LinksAgree` is not inductive: a list can
satisfy it and have a cycle beside the path from `head`, and a deletion needs to
know that the worker's timer is in the list at all.  The invariant `IInv` adds
what is missing:

* `NoTimerLost`, reachability stated without induction: every set that contains
  `head` and is closed under `next` contains every listed timer;
* `Ownership`: a connection that is armed, handed or held is so alone, and its
  timer is listed unless Tick stole it; no timer is live and freed;
* `Position`: what the main thread knows of the node it chose between two
  sections: the node in transit has no links, and the node it will stand behind
  is still listed and not later, unless a worker deleted it meanwhile.

Four lemmas say what linking a node does to such a list (`OneNode`, `LinkFirst`,
`LinkBetween`, `LinkLast`) and three what unlinking does (`UnlinkHead`,
`UnlinkTail`, `UnlinkMiddle`); each action of the code is then one application
of one of them.  `FaultExplained` follows from `Ownership` and `Position`,
`TickComplete` from the order (`HeadIsEarliest`).

`QueueProofs` proves the invariants of `block_queue` and the refinement for
every capacity.  `IndicesAgree` says where the next push goes; `Wrap`, `WrapSum`
and `WrapDistinct` are what is needed about `%` on sums that exceed an index by
at most one lap.  From them, `push` appends to `Contents` and writes to none of
the places in use, and `pop` takes the head.

`ConnectionProofs` proves every property of `response_writer`, for all sizes of
headers, pages and files and any number of inodes.  `Accounted` speaks of the
writing only; the invariant adds `Staged`, what each earlier stage leaves for the
next (which length was asked for, what is mapped and for which code), and
`Kept`, `Released` extended to the stages of the answers that map nothing
themselves.  `UsedInOrder` is the fact about `UpdateIov`: it gives the bytes to
the parts in order, each in full before the next.  With it `WriteAccounts` shows
that a round keeps the vectors and the counter equal to what is left, and
`AlwaysInTurn` that the bytes a call takes are the next ones, which is why `at`
never becomes -1.  From these, a round of the loop is a `Send`, the last one a
`Finish`, a failure a `Break` of `ByteStream`, and everything else a stutter
(`Refinement`).  That a whole file is readable (`WholeIsReadable`) gives the two
properties about files.

`ConnectionProofs` also proves every property of `http_parser`, for all requests,
lengths of texts, data and buffers and all ways to cut.  The properties compare
the parser with a request that is put together line by line, so where a line
stands in it is an induction over the lines.  It needs no operator as parameter:
`Induction` says of a *set* of numbers with 0 and all successors that it has
every number, from the library's theorem that `<` is well-founded on them.
`FirstLinesDefined` gives the recursive function its equation, `LinesHave` finds
every text and every line end at its place, and `BytesAre`, `HeaderIs`,
`PartLineIs` and `UploadIs` read off where head, headers, part and data of a
request stand.  `CutOfLine` is the fact about `CutLine`: when a line stands where
the parser is, it finds the end of it, or that it has not come whole; else what
was received ends in that line and is exactly as long as announced, which
`CutAtEnd` takes for a line.

The invariant has two parts.  `Typed` is the types and the order of the
positions (`PositionsAgree`).  `Synced` is under `Clean`, that is as long as no
request was answered too early, forms are encoded and no cut was one of the two
kinds that harm.  It says that the buffer and the wire together are the bytes of
the request, and that the parser is `Somewhere`: at the request line (`AtLine`),
at a header or the empty line (`AtHeader`), in the head of the part of an upload
(`AtPart`), at its data (`AtData`) or at a form (`AtForm`), and at each of these
the fields have the values the lines before it call for; that it waits only
with something on the wire; and that what was decided is what was expected.
`AtLineFound` to `AtFormFound` show that the next line is found at each of these
places, a harmless cut being none that ends the line early (`CutOfLine`) or takes
an upload for complete (`AnalysisBodySynced`).  There is one lemma for each
action and part, and the three properties are the invariant read in the stages
they speak of.

`AccountsProofs` proves every property of `accounts`, for any users and
passwords and any finite number of threads and connections.  There are two
invariants.  `PoolInv` is `PoolExact` with `Held`, that a thread has a connection
exactly between taking it and giving it back; `NeverExhausted` is the pigeonhole
argument: a thread that has none leaves fewer others than there are connections,
so one is idle.  `RowInv` is about users: `Queried`, who asks and inserts has the
mutex and has found the name free; `Made`, what stands in the root is a row's or
`foreign`, and a row that is being made is in one thread's hands and has nothing
there but what is `foreign`; `Recorded`, when the process has ended a row without
a directory is in `cut` or `removed`.  That no other registration makes the
directory in between is `MkdirSucceeds`.

`QueueProofs` also proves `OnlyMissedSleep` for any finite number of threads.
`CountLacksMissed`, a part of it, is an equation between the count in the
semaphore and the threads that sleep or are on their way; to keep it the
invariant adds `Fresh`, that until `sem_init` nothing was appended and nobody
woken, so that `sem_init` may forget the sleepers it finds, and `Counted`, that
a token nobody was woken for has nobody left to wait for it: whoever the
semaphore still counts has been woken.  Each step moves one thread from one
stage to another, and `OneMoves` says what that does to the numbers.

`WebServerProofs` proves the five properties of `web_server` for any finite sets
of descriptors and workers, any sessions, queue and limit of connections.  The
state of a thread is the list of calls left in its handler, so the invariant
first says which lists there are: `Tasks`, from the tails of the plans of the
source (`AcceptPlans` to `WorkPlans`).  `Advance` and `Called` say what making a
call does to such a list.  What the properties need of the tasks is then read
off them once: whom each thread serves (`Server`), whom it is about to close
(`Leaver`) and has yet to unbind (`Unbinder`), who has yet to subtract (`Subs`),
who is at the end of a load (`Updaters`), and how far an accept has come
(`OpenCall`).  Over these,

* `Owned`: a descriptor epoll does not watch is with one thread or once in the
  queue, or was dropped by a full queue; every other case is excluded.  Each step
  hands it from one party to the next (`OwnedByThread` to `ClosedByTick`), which
  is all that `OneOwner` needs;
* `TimersAgree`: who is established and not about to be closed has a live timer
  of its own incarnation: a handler uses a deleted timer of its own only after
  `stolen`;
* `Chosen`, for `FaultExplained`: the main thread remembers a node only while it
  is inserting, and the node is in the list unless a worker deleted it.  It is
  kept apart from `IInv`, which does not need it;
* `Tokens`: items in the queue are tokens, posts that are owed and workers on
  their way to the lock;
* `Unbound`, `Bindings`: only one thread has yet to unbind a closed descriptor,
  and a session's members are the descriptors that are open or in such hands;
* `Alone`, `Counted`: while nobody overlaps, what a thread has loaded is still
  the counter.

`OwnerPart`, `SessionPart` and `CountPart` are disjunctions with the races the properties excuse:
after `stolen`, `reused` or `overlap` nothing is claimed, and a step that makes
one true has nothing else to show.

`LogProofs` proves the safety properties of `log` for any writers, limits,
capacity and numbers of calls, days and restarts.  `InOrder` alone is not
inductive: the line taken from the queue could be earlier than the last one
written.  `Ordered` says that what is written comes before the line in the
thread's hand, that before the queue, and each ascends.  `Apart` says that no
line is in two of these places or lost as well, and that none is nowhere; the
counting form of `EachLineOnce` follows from it (`Counting`).  For
`OverfullByQueue` the invariant has to look ahead, since the lines that will make
a file too long are still in the queue when it is opened: `Room` says that the
lines in the open file, those held and queued, and those the calls may add until
the next rotation are together within the share of this run, `MaxLines` and the
queue; that a file yet to be opened has used the shares of earlier runs only;
and every restart adds one share.

`SessionSyncProofs` proves every property of `session_sync` for any connections,
users and number of requests.  Three parts of the invariant hold always:
`Pieces`, what is on the wire and in the buffer at each stage, `Copying`, how far
the loop over the session is, and `Reached`, that on EPOLLIN whoever the loop has
passed is logged in.  The rest, `ByTurns`, holds while no two clients wait at
once.  `Alone` is what that means: nobody else is served, and the main thread
copies nothing but the connection that answers.  `InIfAny` says that a request
which has begun to arrive is from a connection that is logged in, if any is: that
is why no copy erases it.  `Shared` is the heart: all logged-in connections have
the same user and place, but for the one between handling its request and its
answer, which is ahead of the others, and, while its state is copied, those not
yet reached.  `Last` connects this with the user whom clients have been shown.

`FileSpaceProofs` proves every property of `file_space` for any tree over any
paths, any users and connections and any number of requests.  `FilesOK` says that
whatever exists stands in existing directories up to the root; `LocalsOK` is the
types.  For each connection, `ConnOK` says what its stage knows:

* `Walking`: whose walk `InDir` is making, and that a walk of the user's own
  files meets nobody else's;
* `Guarded`: what the guards have found (`pwd_` is the user's own), which stays
  so unless `pwd_` is moved;
* `Deleting`: unless the request strays, `DeleteDir` never leaves the directory it
  was called for, which is why `OwnersOnly` holds of its every system call;
* `Promised`: what the page's link said is still there, and, the part that makes
  `LinksHold` inductive, while `InDir` looks for `pwd_` there is a way left to it
  over entries not yet looked at (`OnWay`);
* `Kept`: between the test of a mode and the use of the file it is shared, or its
  name ends in dots and is no file's.

`LeadsTo`, `OnePart` and `TargetOf` say where spelled paths lead: a path without
dots to itself, one that ends in dots to a directory or nowhere, and a plain name
from a plain directory to an entry of it.

`Leaks` says in which two ways bytes that are not shared can stand in a shared
file, and `Ends` on what the process can end.  There is one lemma per action;
`SameWork` and `Heeds` say what a step leaves to the other connections and what
their `state` records of it, so that the case of the others is proved once
(`StepKeeps`).  The attempts found four places where an earlier form of the model
or of a property was wrong though its run passed on small instances: comparing
`pwd_` before and after misses a move there and back (hence `moved`); an upload
whose `pwd_` is moved leaves its file shared (hence `leaked`);
`/download2copy` inside an own directory goes on as `/download`; and `/copy`
without a home does nothing.  By what a home itself can go, the last excuse of
`LinksHold`, is the theorem `HomesMostlyStay`.

The assumptions are those declared with the constants: `Null` is no timer,
`Nobody` no thread, the main thread no worker, "" no session; the capacities,
the limit of lines and the number of days are positive, descriptors too; times,
bounds and numbers of requests are natural numbers; headers and pages have bytes;
there are no fewer database connections than threads; threads, connections and
descriptors are finitely many; texts have bytes, and requests are as described under
`HttpParser`; a user is no other kind of request, and no user's
directory is the empty one of a slot before a login; a path is a sequence of
names, every part of a path of the tree is one too, and a tree's entries stand in
its directories; "..", "." and "nowhere" are no users and no paths, and the name of
a request is a sequence of users and dots that is not empty, every user being one.

Model-checked only: the liveness properties, `AllEnd`, `AllServed`,
`TakenIsWritten` and `ServedUnlessAllMissed`, which are out of the prover's reach.

## 5. What is left

Nothing of the plan.  What could be added is a sharper account of the two kinds
of harmful cut, that is what a request becomes after them, and what follows.

### Not modelled

* The proactor branches of `ThreadPool` and `WebServer` and the edge-triggered
  ones of `HTTPConnection`: the configuration switches them off.
* The shutdown on SIGTERM, and SIGALRM interrupting a system call of a worker.
* The Redis pool: one thread uses it; what it returns is chosen from a set of
  sessions.  That Redis lets a session expire is not followed.
* `AddResponse` when the header does not fit its buffer, and `js_`, the script
  buffer that `ResponseWriter` sends as its third part.
* The directory streams that `IteratorDir` and `InDir` leave open, and the limit
  of descriptors they count against; for the same reason nothing is said of a
  descriptor beyond the slots of `connections_` (`WebServer.cpp:46`).  Nor of one
  accepted beyond `connection_max_num_` (`WebServer.cpp:26`): nothing in the code
  ever ends it, so there is nothing to state.
* The static pages and `/resource_image`, the text and style of pages, the text
  of queries and log lines, URL decoding, `GenerationSession`, socket set-up,
  `Config`, `main` and the load test.
