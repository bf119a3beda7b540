---------------------------- MODULE SessionSync ----------------------------
(***************************************************************************)
(* The connections of one session (one IP address) and the login they      *)
(* share.  Each slot of connections_ has a login of its own; EpollLoop     *)
(* copies whole slots with operator=, under session_map_mutex_: before a   *)
(* request is read, from a connection that is logged in to those that are  *)
(* not, and after DealWrite, from the connection that answers to all       *)
(* others.  The copy also puts the receiver's buffers and parser back.     *)
(* The workers that serve the receivers take no lock at all, so a copy is  *)
(* three steps between which they run: the buffers, login_state_, and who  *)
(* the user is and where.                                                  *)
(*                                                                         *)
(* A request is two pieces; its parsing is in HttpParser.  The queue, the  *)
(* timers and the reuse of descriptors are in WebServer; closing is one    *)
(* step here.                                                              *)
(***************************************************************************)
EXTENDS Naturals, Sequences, FiniteSets

CONSTANTS
  Conn,         \* the slots of one session
  User,         \* those who use this address
  Sub,          \* name of a directory that every user has
  Unset,        \* pwd_ and username_ before the first login
  NoConn,       \* no connection
  Kind,         \* what clients ask for: to log in as one of User, to list the
                \* directory ("disk"), or to move ("move")
  MaxRequests   \* bound: requests in one behaviour

ASSUME ConnAssumption == IsFiniteSet(Conn) /\ NoConn \notin Conn
(* A user is no other kind of request, and no user's directory is what     *)
(* pwd_ is before the first login.                                         *)
ASSUME UserAssumption ==
  /\ ({Unset} \union {"none", "disk", "move"}) \intersect User = {}
  /\ \A u \in User : Unset \notin {<<u>>, <<u, Sub>>}
ASSUME KindAssumption == Kind \subseteq {"disk", "move"} \union User
ASSUME BoundAssumption == MaxRequests \in Nat

VARIABLES
  st,        \* where each connection is
  wire,      \* the pieces of its request that recv has not returned
  buffer,    \* the pieces in read_buffer_
  post,      \* method_ = POST, until ConstructorHtml has looked at it
  login,     \* login_state_
  user,      \* username_, and with it user_file_root_path_
  pwd,       \* pwd_: the user's root directory, or Sub in it
  page,      \* the response code of ConstructorHtml
  response,  \* what write_buffer_ holds
  main,      \* what the main thread copies
  aborted,   \* IteratorDir found no directory: the assertion ends the server
  want,      \* what each client waits for
  sent,      \* requests so far
  overlap,   \* history: two clients of the session were waiting at once
  shown,     \* history, until an overlap: connections whose login has been
             \* answered
  last       \* history: the user of the last of these logins

slot   == <<buffer, post, login, user, pwd, response>>
client == <<wire, want, sent, overlap, shown, last>>
vars   == <<st, slot, page, main, aborted, client>>

None == "none"
Code == {None, "DISK_HTML", "FORBIDDEN", "NOT_FOUND", "OK", "BAD_RESPONSE"}

(* "closed"; "in" and "out", watched for EPOLLIN and EPOLLOUT; with a      *)
(* worker or waiting for one, at "recv", "parse", "html", "user" (in the   *)
(* middle of a login), "construct" and "write".                            *)
Stage == {"closed", "in", "out", "recv", "parse", "html", "user", "construct", "write"}

Members == {c \in Conn : st[c] # "closed"}  \* session_map_[session]
Resting == [why |-> "none", fd |-> NoConn, source |-> NoConn, to |-> {},
            peer |-> NoConn, step |-> "next"]

(* The main thread holds session_map_mutex_.                               *)
Locked == main # Resting
At(c, stage) == st[c] = stage /\ ~aborted
Move(c, stage) == st' = [st EXCEPT ![c] = stage]
Set(f, c, value) == [f EXCEPT ![c] = value]

Init ==
  /\ st = [c \in Conn |-> "closed"]
  /\ wire = [c \in Conn |-> <<>>] /\ buffer = [c \in Conn |-> <<>>]
  /\ post = [c \in Conn |-> FALSE] /\ login = [c \in Conn |-> FALSE]
  /\ user = [c \in Conn |-> Unset] /\ pwd = [c \in Conn |-> Unset]
  /\ page = [c \in Conn |-> None] /\ response = [c \in Conn |-> None]
  /\ main = Resting /\ aborted = FALSE
  /\ want = [c \in Conn |-> None] /\ sent = 0
  /\ overlap = FALSE /\ shown = {} /\ last = Unset

-----------------------------------------------------------------------------
(* The clients.                                                            *)
Send(c, kind) ==
  /\ c \in Members /\ want[c] = None /\ sent < MaxRequests
  /\ want' = Set(want, c, kind) /\ wire' = Set(wire, c, <<1, 2>>)
  /\ sent' = sent + 1
  /\ overlap' = (overlap \/ \E d \in Conn \ {c} : want[d] # None)
  /\ IF overlap' THEN shown' = {} /\ last' = Unset ELSE UNCHANGED <<shown, last>>
  /\ UNCHANGED <<st, slot, page, main, aborted>>

-----------------------------------------------------------------------------
(* The main thread.                                                        *)

(* Establish leaves username_ and pwd_ as the slot had them.               *)
Establish(c) ==
  /\ At(c, "closed") /\ ~Locked
  /\ Move(c, "in")
  /\ UNCHANGED <<slot, page, main, aborted, client>>

(* Nobody reads a closed slot, so what Establish will put back in it is    *)
(* put back here.                                                          *)
Close(c) ==
  /\ ~Locked
  /\ Move(c, "closed")
  /\ buffer' = Set(buffer, c, <<>>) /\ login' = Set(login, c, FALSE)
  /\ response' = Set(response, c, None) /\ page' = Set(page, c, None)
  /\ want' = Set(want, c, None) /\ wire' = Set(wire, c, <<>>)
  /\ UNCHANGED <<post, user, pwd, main, aborted, sent, overlap>>

(* History: after an answer to c, or its end.                              *)
Remember(members, by) ==
  shown' = members /\ last' = IF members = {} THEN Unset ELSE by

HangUp(c) == (At(c, "in") \/ At(c, "out")) /\ Close(c) /\ Remember(shown \ {c}, last)

(* EPOLLIN: the search for a connection that is logged in, in the order    *)
(* of the hash set.                                                        *)
Begin(why, c, source, to) ==
  main' = [Resting EXCEPT !.why = why, !.fd = c, !.source = source, !.to = to]

EpollIn(c) ==
  /\ At(c, "in") /\ wire[c] # <<>> /\ ~Locked
  /\ \/ \E s \in Members : login[s] /\ Begin("in", c, s, Members)
     \/ (\A s \in Members : ~login[s]) /\ Begin("in", c, NoConn, {})
  /\ UNCHANGED <<st, slot, page, aborted, client>>

(* Mutation of EpollOut: the connection is copied to itself, too.          *)
EpollOutSelf(c) ==
  /\ At(c, "out") /\ ~Locked
  /\ Move(c, "write")
  /\ Begin("out", c, c, Members)
  /\ UNCHANGED <<slot, page, aborted, client>>

(* EPOLLOUT: DealWrite hands the connection to a worker before the copies. *)
EpollOut(c) ==
  /\ At(c, "out") /\ ~Locked
  /\ Move(c, "write")
  /\ Begin("out", c, c, Members \ {c})
  /\ UNCHANGED <<slot, page, aborted, client>>

(* A connection that is logged in already is not copied to.                *)
Skip(p) == main.why = "in" /\ login[p]

CopySkip(p) ==
  /\ ~aborted /\ main.step = "next" /\ p \in main.to /\ Skip(p)
  /\ main' = [main EXCEPT !.to = @ \ {p}]
  /\ UNCHANGED <<st, slot, page, aborted, client>>

(* operator=: buffers and parser, ...                                      *)
CopyBuffers(p) ==
  /\ ~aborted /\ main.step = "next" /\ p \in main.to /\ ~Skip(p)
  /\ buffer' = Set(buffer, p, <<>>) /\ post' = Set(post, p, FALSE)
  /\ response' = Set(response, p, IF response[p] = None THEN None ELSE "zeros")
  /\ main' = [main EXCEPT !.peer = p, !.step = "login"]
  /\ UNCHANGED <<st, login, user, pwd, page, aborted, client>>

(* ... the login, ...                                                      *)
CopyLogin ==
  /\ ~aborted /\ main.step = "login"
  /\ login' = Set(login, main.peer, login[main.source])
  /\ main' = [main EXCEPT !.step = "user"]
  /\ UNCHANGED <<st, buffer, post, user, pwd, response, page, aborted, client>>

(* Mutations of CopyUser: the user, but not the place; and the loop ends   *)
(* with the first copy.                                                    *)
CopyUserOnly ==
  /\ ~aborted /\ main.step = "user"
  /\ user' = Set(user, main.peer, user[main.source])
  /\ main' = [main EXCEPT !.to = @ \ {main.peer}, !.peer = NoConn, !.step = "next"]
  /\ UNCHANGED <<st, buffer, post, login, pwd, response, page, aborted, client>>
CopyUserOnce ==
  /\ ~aborted /\ main.step = "user"
  /\ user' = Set(user, main.peer, user[main.source])
  /\ pwd' = Set(pwd, main.peer, pwd[main.source])
  /\ main' = [main EXCEPT !.to = {}, !.peer = NoConn, !.step = "next"]
  /\ UNCHANGED <<st, buffer, post, login, response, page, aborted, client>>

(* ... and the user with the place.                                        *)
CopyUser ==
  /\ ~aborted /\ main.step = "user"
  /\ user' = Set(user, main.peer, user[main.source])
  /\ pwd' = Set(pwd, main.peer, pwd[main.source])
  /\ main' = [main EXCEPT !.to = @ \ {main.peer}, !.peer = NoConn, !.step = "next"]
  /\ UNCHANGED <<st, buffer, post, login, response, page, aborted, client>>

(* All copies are made; on EPOLLIN, DealRead comes now.                    *)
CopyDone ==
  /\ ~aborted /\ Locked /\ main.to = {}
  /\ main' = Resting
  /\ IF main.why = "in" THEN Move(main.fd, "recv") ELSE UNCHANGED st
  /\ UNCHANGED <<slot, page, aborted, client>>

-----------------------------------------------------------------------------
(* The workers.                                                            *)

(* ReceiveMessage: recv returns one piece or both.                         *)
Receive(c, k) ==
  /\ At(c, "recv") /\ k <= Len(wire[c])
  /\ buffer' = Set(buffer, c, buffer[c] \o SubSeq(wire[c], 1, k))
  /\ wire' = Set(wire, c, SubSeq(wire[c], k + 1, Len(wire[c])))
  /\ Move(c, "parse")
  /\ UNCHANGED <<post, login, user, pwd, response, page, main, aborted, want, sent, overlap,
                 shown, last>>

(* Process: AnalysisRequestMessage.  The second piece alone is no request. *)
Parse(c) ==
  /\ At(c, "parse")
  /\ \/ /\ buffer[c] = <<1, 2>>
        /\ post' = Set(post, c, want[c] \in User)
        /\ Move(c, "html") /\ UNCHANGED page
     \/ /\ buffer[c] = <<2>>
        /\ page' = Set(page, c, "BAD_RESPONSE")
        /\ Move(c, "construct") /\ UNCHANGED post
     \/ /\ buffer[c] \in {<<>>, <<1>>}
        /\ Move(c, "in") /\ UNCHANGED <<post, page>>
  /\ UNCHANGED <<buffer, login, user, pwd, response, main, aborted, client>>

(* ConstructorHtml: the database decides on a login; login_state_ is set   *)
(* before the user is.                                                     *)
HtmlLogin(c) ==
  /\ At(c, "html") /\ want[c] \in User
  /\ \/ /\ post[c]
        /\ login' = Set(login, c, TRUE)
        /\ Move(c, "user") /\ UNCHANGED page
     \/ /\ page' = Set(page, c, IF post[c] THEN "OK" ELSE "NOT_FOUND")
        /\ Move(c, "construct") /\ UNCHANGED login
  /\ post' = Set(post, c, FALSE)
  /\ UNCHANGED <<buffer, user, pwd, response, main, aborted, client>>

(* Mutation of HtmlUser: the place is not set.                             *)
HtmlUserNowhere(c) ==
  /\ At(c, "user")
  /\ page' = Set(page, c, "DISK_HTML")
  /\ user' = Set(user, c, want[c])
  /\ Move(c, "construct")
  /\ UNCHANGED <<buffer, post, login, pwd, response, main, aborted, client>>

(* The second half of a login.                                             *)
HtmlUser(c) ==
  /\ At(c, "user")
  /\ user' = Set(user, c, want[c]) /\ pwd' = Set(pwd, c, <<want[c]>>)
  /\ page' = Set(page, c, "DISK_HTML")
  /\ Move(c, "construct")
  /\ UNCHANGED <<buffer, post, login, response, main, aborted, client>>

(* /enter and /back change pwd_ from where it is.                          *)
Moved(p) == IF p = Unset THEN Unset ELSE IF Len(p) = 1 THEN Append(p, Sub) ELSE <<p[1]>>

HtmlDisk(c) ==
  /\ At(c, "html") /\ want[c] \notin User
  /\ page' = Set(page, c, IF login[c] THEN "DISK_HTML" ELSE "FORBIDDEN")
  /\ pwd' = Set(pwd, c, IF login[c] /\ want[c] = "move" THEN Moved(pwd[c]) ELSE pwd[c])
  /\ Move(c, "construct")
  /\ UNCHANGED <<buffer, post, login, user, response, main, aborted, client>>

(* ConstructResponse; a page of the disk lists pwd_, which must exist.     *)
Construct(c) ==
  /\ At(c, "construct")
  /\ \/ /\ page[c] = "DISK_HTML" /\ pwd[c] = Unset
        /\ aborted' = TRUE
        /\ UNCHANGED <<st, response>>
     \/ /\ ~(page[c] = "DISK_HTML" /\ pwd[c] = Unset)
        /\ response' = Set(response, c, page[c])
        /\ Move(c, "out") /\ UNCHANGED aborted
  /\ UNCHANGED <<buffer, post, login, user, pwd, page, main, client>>

(* WriteHTTPMessage: the client has its answer; the connection is kept and *)
(* put back by Init, or closed.                                            *)
LoggedIn(c) == want[c] \in User /\ response[c] = "DISK_HTML" /\ ~overlap
Latest(c)   == IF LoggedIn(c) THEN want[c] ELSE last

WriteAndKeep(c) ==
  /\ At(c, "write")
  /\ Remember(IF LoggedIn(c) THEN shown \union {c} ELSE shown, Latest(c))
  /\ want' = Set(want, c, None)
  /\ buffer' = Set(buffer, c, <<>>) /\ response' = Set(response, c, None)
  /\ page' = Set(page, c, None)
  /\ Move(c, "in")
  /\ UNCHANGED <<post, login, user, pwd, main, aborted, wire, sent, overlap>>

WriteAndClose(c) == At(c, "write") /\ Close(c) /\ Remember(shown \ {c}, Latest(c))

Next ==
  \/ CopyLogin \/ CopyUser \/ CopyDone
  \/ \E c \in Conn :
       \/ \E kind \in Kind : ~aborted /\ Send(c, kind)
       \/ Establish(c) \/ HangUp(c) \/ EpollIn(c) \/ EpollOut(c)
       \/ CopySkip(c) \/ CopyBuffers(c)
       \/ \E k \in {1, 2} : Receive(c, k)
       \/ Parse(c) \/ HtmlLogin(c) \/ HtmlUser(c) \/ HtmlDisk(c) \/ Construct(c)
       \/ WriteAndKeep(c) \/ WriteAndClose(c)

Spec == Init /\ [][Next]_vars

-----------------------------------------------------------------------------
(* What the program must satisfy.                                          *)
TypeOK ==
  /\ st \in [Conn -> Stage]
  /\ wire \in [Conn -> {<<>>, <<2>>, <<1, 2>>}]
  /\ buffer \in [Conn -> {<<>>, <<1>>, <<2>>, <<1, 2>>}]
  /\ {post, login} \subseteq [Conn -> BOOLEAN]
  /\ user \in [Conn -> User \union {Unset}] /\ last \in User \union {Unset}
  /\ pwd \in [Conn -> {Unset} \union {<<u>> : u \in User} \union {<<u, Sub>> : u \in User}]
  /\ page \in [Conn -> Code] /\ response \in [Conn -> Code \union {"zeros"}]
  /\ main.to \subseteq Conn /\ {main.fd, main.source, main.peer} \subseteq Conn \union {NoConn}
  /\ {aborted, overlap} \subseteq BOOLEAN
  /\ want \in [Conn -> Kind \union {None}] /\ sent \in 0 .. MaxRequests
  /\ shown \subseteq Members

(* WebServer.cpp:206: when EpollLoop has found a connection that is logged *)
(* in and has gone through the session, all its connections are logged in, *)
(* those that a worker is serving meanwhile included.                      *)
SyncReachesAll ==
  TypeOK /\
  (main.why = "in" /\ main.source # NoConn /\ main.to = {} => \A c \in Members : login[c])

(* If the clients of the session take turns, a request is handled as the   *)
(* user who logged in last, where that user has moved to, whichever of the *)
(* connections it comes from; and whoever has been shown the disk stays    *)
(* logged in while the connection is open.                                 *)
SharedByTurns ==
  ~overlap =>
    /\ \A c, d \in Members : st[c] = "html" /\ login[d] =>
         login[c] /\ user[c] = user[d] /\ pwd[c] = pwd[d]
    /\ \A c \in shown : login[c]
    /\ shown # {} => \A c \in Members :
         st[c] = "html" => user[c] = last /\ pwd[c] \in {<<last>>, <<last, Sub>>}

(* If they take turns, no copy touches a request or a response on its way: *)
(* nothing read is erased, nobody waits for more of a request that has     *)
(* been read, and the client gets what was constructed.                    *)
IntactByTurns ==
  ~overlap => \A c \in Members :
    /\ st[c] \in {"in", "recv"} /\ want[c] # None => buffer[c] \o wire[c] = <<1, 2>>
    /\ st[c] \in {"out", "write"} => response[c] = page[c] /\ page[c] # "BAD_RESPONSE"
    /\ st[c] = "html" /\ want[c] \in User => post[c]

(* The assertion in IteratorDir can only fail if a copy took a login in    *)
(* the middle of being made.                                               *)
AbortedByOverlap == aborted => overlap
=============================================================================
