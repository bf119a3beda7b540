------------------------- MODULE SessionSyncProofs -------------------------
(***************************************************************************)
(* Proofs about module SessionSync, for any connections, users and number  *)
(* of requests.                                                            *)
(***************************************************************************)
EXTENDS SessionSync, SequenceTheorems, TLAPS

-----------------------------------------------------------------------------
(* What holds whether or not the clients take turns.                       *)

(* A connection whose client waits for nothing has nothing on its way; a   *)
(* request that is handled has been received; and what was received of it  *)
(* is, if the copies left it, what is missing on the wire.                 *)
Pieces ==
  \A c \in Conn :
    /\ want[c] = None => st[c] \in {"closed", "in"} /\ buffer[c] = <<>> /\ wire[c] = <<>>
    /\ st[c] = "closed" => want[c] = None /\ ~login[c]
    /\ wire[c] = <<1, 2>> => buffer[c] = <<>>
    /\ wire[c] = <<2>> => buffer[c] \in {<<>>, <<1>>}
    /\ st[c] \in {"html", "user", "construct", "out", "write"} => wire[c] = <<>>
    /\ st[c] \notin {"out", "write"} => response[c] = None
    /\ st[c] = "user" => want[c] \in User

(* The copies the main thread is making.                                   *)
Copies ==
  [why : {"none", "in", "out"}, fd : Conn \union {NoConn}, source : Conn \union {NoConn},
   to : SUBSET Conn, peer : Conn \union {NoConn}, step : {"next", "login", "user"}]
Copying ==
  /\ main \in Copies
  /\ main.why = "none" => main = Resting
  /\ main.why = "in" => st[main.fd] = "in" /\ wire[main.fd] # <<>>
  /\ main.why = "out" => main.fd = main.source /\ main.source \notin main.to
  /\ main.why # "none" => main.fd \in Members
  /\ main.to \subseteq Members
  /\ main.to # {} => main.source \in Members
  /\ main.step # "next" => main.peer \in main.to /\ main.peer # main.source
  /\ main.step = "next" => main.peer = NoConn

(* The search on EPOLLIN has logged in all it has gone through.            *)
Reached ==
  main.why = "in" /\ main.source # NoConn =>
    /\ main.source \in Conn /\ login[main.source]
    /\ \A c \in Members \ main.to : login[c]
    /\ main.step = "user" => login[main.peer]

-----------------------------------------------------------------------------
(* What holds while they do.                                               *)
Busy(c)   == st[c] \notin {"closed", "in"}
Placed(u) == {<<u>>, <<u, Sub>>}

(* One client waits, and nothing of its request is lost.                   *)
OneWaits ==
  /\ \A c, d \in Conn : want[c] # None /\ want[d] # None => c = d
  /\ \A c \in Conn : want[c] # None =>
       /\ st[c] \in {"in", "recv"} => \/ buffer[c] = <<>> /\ wire[c] = <<1, 2>>
                                      \/ buffer[c] = <<1>> /\ wire[c] = <<2>>
       /\ st[c] = "parse" => \/ buffer[c] = <<1>> /\ wire[c] = <<2>>
                             \/ buffer[c] = <<1, 2>> /\ wire[c] = <<>>
  /\ main.why = "out" => \A c \in Members :
       (st[c] = "in" /\ buffer[c] = <<>>) \/ (c = main.fd /\ st[c] = "write")

(* A request that has begun to arrive is from a connection that is logged  *)
(* in, if any is.                                                          *)
Nobody == \A c \in Members : ~login[c]
Begun(c) == Busy(c) \/ (st[c] = "in" /\ buffer[c] # <<>>)
InIfAny ==
  /\ \A c \in Conn : Begun(c) => login[c] \/ Nobody
  /\ main.why = "in" /\ main.source = NoConn => Nobody
  /\ main.why = "out" => login[main.source] \/ Nobody

(* How far a request has come tells what was read and what is answered.    *)
Answered(c) == st[c] \in {"construct", "out", "write"}
Answering ==
  \A c \in Conn :
    /\ st[c] = "html" /\ want[c] \in User => post[c]
    /\ st[c] = "user" => login[c]
    /\ Answered(c) => page[c] # "BAD_RESPONSE"
    /\ st[c] \in {"out", "write"} => response[c] = page[c]
    /\ Answered(c) /\ page[c] = "DISK_HTML" => login[c] /\ (want[c] \in User => user[c] = want[c])

(* Half of a login: a worker's, or a copy's.                               *)
Half(c) == st[c] = "user" \/ (c = main.peer /\ main.step = "user")

(* Whoever is logged in is somebody somewhere; all are so alike, except    *)
(* the one that is ahead of the others and those it has yet to be copied   *)
(* to; and whose login is copied already has the source's.                 *)
Ahead(c) == st[c] \in {"construct", "out"}
Alike(c, d) == user[c] = user[d] /\ pwd[c] = pwd[d]
Shared ==
  /\ \A c \in Conn : login[c] /\ ~Half(c) => user[c] \in User /\ pwd[c] \in Placed(user[c])
  /\ main.why # "out" => \A c, d \in Members :
       login[c] /\ login[d] /\ ~Half(c) /\ ~Half(d) /\ ~Ahead(c) /\ ~Ahead(d) => Alike(c, d)
  /\ main.why = "out" => \A c \in Members \ main.to :
       login[c] = login[main.source] /\ Alike(c, main.source)
  /\ main.step = "user" => login[main.peer] = login[main.source]

(* A login that is made but not answered.                                  *)
Pending(c) ==
  want[c] \in User /\ (st[c] = "user" \/ (Answered(c) /\ page[c] = "DISK_HTML"))

(* Whoever has been shown the disk is logged in, as the last to have been: *)
(* so is everyone, but for a login that is not answered, and those it or   *)
(* the last one has yet to be copied to.                                   *)
Last ==
  /\ \A c \in shown : login[c]
  /\ shown # {} /\ (\A c \in Conn : ~(Pending(c) /\ st[c] = "write")) =>
       \A c \in Members :
         login[c] /\ ~Pending(c) /\ ~Half(c) /\ ~(main.why = "out" /\ c \in main.to) => user[c] = last

ByTurns == OneWaits /\ InIfAny /\ Answering /\ Shared /\ Last /\ ~aborted
Turns   == overlap \/ ByTurns

IInv == TypeOK /\ Pieces /\ Copying /\ Reached /\ Turns

-----------------------------------------------------------------------------
(* The pieces a request may be in are told apart.                          *)
LEMMA Apart ==
  /\ <<>> # <<1>> /\ <<>> # <<2>> /\ <<>> # <<1, 2>>
  /\ <<1>> # <<2>> /\ <<1>> # <<1, 2>> /\ <<2>> # <<1, 2>>
<1>1. Len(<<>>) = 0 /\ Len(<<1>>) = 1 /\ Len(<<2>>) = 1 /\ Len(<<1, 2>>) = 2
  OBVIOUS
<1>2. <<1>>[1] = 1 /\ <<2>>[1] = 2
  OBVIOUS
<1> QED BY <1>1, <1>2

(* The kinds of requests, and users, are told apart.                       *)
LEMMA Kinds ==
  /\ None \notin User /\ None \notin Kind /\ Unset \notin User
  /\ \A k \in Kind : k \in User \/ k \in {"disk", "move"}
  /\ "disk" \notin User /\ "move" \notin User
BY UserAssumption, KindAssumption DEF None

(* A sequence of one or two is the tuple of its elements.                  *)
LEMMA Short ==
  ASSUME NEW S, NEW s \in Seq(S)
  PROVE  /\ Len(s) = 1 => s = <<s[1]>>
         /\ Len(s) = 2 => s = <<s[1], s[2]>>
<1>1. ASSUME Len(s) = 1 PROVE s = <<s[1]>>
  <2>1. <<s[1]>> \in Seq(S) /\ Len(<<s[1]>>) = 1 /\ <<s[1]>>[1] = s[1]
    BY <1>1
  <2> QED BY <1>1, <2>1, SeqEqual
<1>2. ASSUME Len(s) = 2 PROVE s = <<s[1], s[2]>>
  <2> DEFINE t == <<s[1], s[2]>>
  <2>1. s[1] \in S /\ s[2] \in S
    BY <1>2, ElementOfSeq
  <2>2. t \in Seq(S) /\ Len(t) = 2 /\ t[1] = s[1] /\ t[2] = s[2]
    BY <2>1
  <2>3. \A i \in 1 .. Len(s) : i = 1 \/ i = 2
    BY <1>2
  <2> HIDE DEF t
  <2>4. s = t
    BY <1>2, <2>2, <2>3, SeqEqual
  <2> QED BY <2>4 DEF t
<1> QED BY <1>1, <1>2

(* What recv returns of a request, and what the buffer then holds.         *)
LEMMA Receiving ==
  /\ SubSeq(<<1, 2>>, 1, 1) = <<1>> /\ SubSeq(<<1, 2>>, 2, 2) = <<2>>
  /\ SubSeq(<<1, 2>>, 1, 2) = <<1, 2>> /\ SubSeq(<<1, 2>>, 3, 2) = <<>>
  /\ SubSeq(<<2>>, 1, 1) = <<2>> /\ SubSeq(<<2>>, 2, 1) = <<>>
  /\ <<>> \o <<1>> = <<1>> /\ <<>> \o <<2>> = <<2>> /\ <<>> \o <<1, 2>> = <<1, 2>>
  /\ <<1>> \o <<2>> = <<1, 2>>
  /\ Len(<<>>) = 0 /\ Len(<<1, 2>>) = 2 /\ Len(<<2>>) = 1
<1>1. /\ SubSeq(<<1, 2>>, 3, 2) = <<>> /\ SubSeq(<<2>>, 2, 1) = <<>>
      /\ Len(<<>>) = 0 /\ Len(<<1, 2>>) = 2 /\ Len(<<2>>) = 1
  OBVIOUS
<1>2. <<>> \o <<1>> = <<1>> /\ <<>> \o <<2>> = <<2>> /\ <<>> \o <<1, 2>> = <<1, 2>>
  OBVIOUS
<1>3. SubSeq(<<1, 2>>, 1, 1) = <<1>>
  <2> DEFINE q == SubSeq(<<1, 2>>, 1, 1)
  <2>1. q \in Seq(Nat) /\ Len(q) = 1 /\ q[1] = 1
    OBVIOUS
  <2> QED BY <2>1, Short
<1>4. SubSeq(<<1, 2>>, 2, 2) = <<2>>
  <2> DEFINE q == SubSeq(<<1, 2>>, 2, 2)
  <2>1. q \in Seq(Nat) /\ Len(q) = 1 /\ q[1] = 2
    OBVIOUS
  <2> QED BY <2>1, Short
<1>5. SubSeq(<<2>>, 1, 1) = <<2>>
  <2>1. <<2>> \in Seq(Nat) /\ Len(<<2>>) = 1
    OBVIOUS
  <2>2. SubSeq(<<2>>, 1, Len(<<2>>)) = <<2>>
    BY <2>1, SubSeqFull
  <2> QED BY <2>1, <2>2
<1>6. SubSeq(<<1, 2>>, 1, 2) = <<1, 2>>
  <2>1. <<1, 2>> \in Seq(Nat) /\ Len(<<1, 2>>) = 2
    OBVIOUS
  <2> QED BY <2>1, SubSeqFull
<1>7. <<1>> \o <<2>> = <<1, 2>>
  <2> DEFINE q == <<1>> \o <<2>>
  <2>1. q \in Seq(Nat) /\ Len(q) = 2 /\ q[1] = 1 /\ q[2] = 2
    OBVIOUS
  <2> QED BY <2>1, Short
<1> QED BY <1>1, <1>2, <1>3, <1>4, <1>5, <1>6, <1>7

(* Where /enter and /back move.                                            *)
LEMMA Moving ==
  /\ Moved(Unset) = Unset
  /\ \A u \in User : /\ Moved(<<u>>) = <<u, Sub>> /\ Moved(<<u, Sub>>) = <<u>>
                     /\ Unset \notin Placed(u)
<1>1. ASSUME NEW u \in User
      PROVE  Append(<<u>>, Sub) = <<u, Sub>> /\ Len(<<u>>) = 1 /\ Len(<<u, Sub>>) = 2
  <2>1. LET s == Append(<<u>>, Sub) IN s \in Seq({u, Sub}) /\ Len(s) = 2 /\ s[1] = u /\ s[2] = Sub
    OBVIOUS
  <2> QED BY <2>1, Short
<1> QED BY <1>1, UserAssumption DEF Moved, Placed

(* While the clients take turns, nobody else is served.                    *)
LEMMA Alone ==
  ASSUME IInv, ~overlap, NEW c \in Conn, want[c] # None
  PROVE  /\ c \in Members
         /\ \A d \in Conn : d # c => /\ want[d] = None /\ st[d] \in {"closed", "in"}
                                    /\ buffer[d] = <<>> /\ wire[d] = <<>>
         /\ Busy(c) => main = Resting \/ (main.why = "out" /\ main.fd = c /\ st[c] = "write")
<1>1. Pieces /\ OneWaits /\ Copying /\ TypeOK
  BY DEF IInv, Turns, ByTurns
<1>2. c \in Members
  BY <1>1 DEF Pieces, Members
<1>3. \A d \in Conn : d # c => /\ want[d] = None /\ st[d] \in {"closed", "in"}
                             /\ buffer[d] = <<>> /\ wire[d] = <<>>
  BY <1>1 DEF Pieces, OneWaits
<1>4. ASSUME Busy(c), main # Resting PROVE main.why = "out" /\ main.fd = c /\ st[c] = "write"
  <2>1. main.why \in {"in", "out"} /\ main.fd \in Conn
    BY <1>1, <1>4 DEF Copying, Copies, Members
  <2>2. main.why # "in"
    BY <1>1, <1>3, <1>4, <2>1, Apart DEF Copying, Copies, Busy
  <2> QED BY <1>1, <1>2, <1>4, <2>1, <2>2 DEF OneWaits, Busy
<1> QED BY <1>2, <1>3, <1>4

-----------------------------------------------------------------------------
(* A request is sent.                                                      *)
LEMMA SendKeeps ==
  ASSUME IInv, NEW c \in Conn, NEW kind \in Kind, Send(c, kind)
  PROVE  IInv'
<1>1. /\ c \in Members /\ want[c] = None /\ sent < MaxRequests /\ sent' = sent + 1
      /\ want' = [want EXCEPT ![c] = kind] /\ wire' = [wire EXCEPT ![c] = <<1, 2>>]
      /\ overlap' = (overlap \/ \E d \in Conn \ {c} : want[d] # None)
      /\ IF overlap' THEN shown' = {} /\ last' = Unset ELSE shown' = shown /\ last' = last
      /\ UNCHANGED <<st, buffer, post, login, user, pwd, response, page, main, aborted>>
  BY DEF Send, slot, Set
<1>2. TypeOK /\ Pieces /\ Copying /\ Reached /\ kind # None
  BY Kinds DEF IInv
<1>3. st[c] = "in" /\ buffer[c] = <<>> /\ wire[c] = <<>>
  BY <1>1, <1>2 DEF Pieces, Members
<1>4. TypeOK'
  BY <1>1, <1>2, BoundAssumption DEF TypeOK, Members
<1>5. Pieces'
  BY <1>1, <1>2, <1>3, Apart DEF Pieces, TypeOK
<1>6. Copying'
  BY <1>1, <1>2, <1>3, Apart DEF Copying, Copies, TypeOK, Members
<1>7. Reached'
  BY <1>1, <1>2 DEF Reached, Members
<1>8. ASSUME ~overlap' PROVE ByTurns'
  <2>1. ~overlap /\ (\A d \in Conn : d # c => want[d] = None) /\ ByTurns
    BY <1>1, <1>8 DEF IInv, Turns
  <2>2. OneWaits'
    BY <1>1, <1>2, <1>3, <2>1, Apart DEF ByTurns, OneWaits, TypeOK, Members
  <2>3. InIfAny'
    BY <1>1, <2>1 DEF ByTurns, InIfAny, Nobody, Begun, Busy, Members
  <2>4. Answering'
    BY <1>1, <1>2, <1>3, <2>1 DEF ByTurns, Answering, Answered, TypeOK
  <2>5. Shared'
    BY <1>1, <2>1 DEF ByTurns, Shared, Half, Ahead, Alike, Members
  <2>6. Last'
    BY <1>1, <1>2, <1>3, <1>8, <2>1 DEF ByTurns, Last, Pending, Answered, Half, Members, TypeOK
  <2> QED BY <1>1, <2>1, <2>2, <2>3, <2>4, <2>5, <2>6 DEF ByTurns
<1> QED BY <1>4, <1>5, <1>6, <1>7, <1>8 DEF IInv, Turns

(* A client connects.                                                      *)
LEMMA EstablishKeeps ==
  ASSUME IInv, NEW c \in Conn, Establish(c)
  PROVE  IInv'
<1>1. /\ st[c] = "closed" /\ main = Resting /\ ~aborted
      /\ st' = [st EXCEPT ![c] = "in"]
      /\ UNCHANGED <<wire, buffer, post, login, user, pwd, page, response, main, aborted, want,
                     sent, overlap, shown, last>>
  BY DEF Establish, At, Locked, Move, slot, client
<1>2. TypeOK /\ Pieces /\ Copying /\ Reached
  BY DEF IInv
<1>3. /\ Members' = Members \union {c} /\ c \notin Members
      /\ want[c] = None /\ ~login[c] /\ buffer[c] = <<>>
      /\ main.why = "none" /\ main.to = {} /\ main.step = "next" /\ main.peer = NoConn
  BY <1>1, <1>2 DEF Members, Pieces, TypeOK, Resting
<1>4. TypeOK'
  BY <1>1, <1>2, <1>3 DEF TypeOK, Members, Code, None, Stage
<1>5. Pieces'
  BY <1>1, <1>2, <1>3, Apart DEF Pieces, TypeOK
<1>6. Copying'
  BY <1>1, <1>2, <1>3, Apart DEF Copying, Copies, TypeOK, Members
<1>7. Reached'
  BY <1>1, <1>2, <1>3 DEF Reached, TypeOK, Members
<1>8. ASSUME ~overlap' PROVE ByTurns'
  <2>1. ~overlap /\ ByTurns
    BY <1>1, <1>8 DEF IInv, Turns
  <2>2. OneWaits'
    BY <1>1, <1>2, <1>3, <2>1, Apart DEF ByTurns, OneWaits, Pieces, TypeOK, Members
  <2>3. InIfAny'
    BY <1>1, <1>2, <1>3, <2>1 DEF ByTurns, InIfAny, Nobody, Begun, Busy, TypeOK, Members
  <2>4. Answering'
    BY <1>1, <1>2, <1>3, <2>1 DEF ByTurns, Answering, Answered, TypeOK
  <2>5. Shared'
    BY <1>1, <1>2, <1>3, <2>1 DEF ByTurns, Shared, Half, Ahead, Alike, TypeOK, Members
  <2>6. Last'
    BY <1>1, <1>2, <1>3, <2>1 DEF ByTurns, Last, Pending, Answered, Half, TypeOK, Members
  <2> QED BY <1>1, <2>1, <2>2, <2>3, <2>4, <2>5, <2>6 DEF ByTurns
<1> QED BY <1>4, <1>5, <1>6, <1>7, <1>8 DEF IInv, Turns

(* A client hangs up.                                                      *)
LEMMA HangUpKeeps ==
  ASSUME IInv, NEW c \in Conn, HangUp(c)
  PROVE  IInv'
<1>1. /\ st[c] \in {"in", "out"} /\ main = Resting /\ ~aborted
      /\ st' = [st EXCEPT ![c] = "closed"]
      /\ buffer' = [buffer EXCEPT ![c] = <<>>] /\ login' = [login EXCEPT ![c] = FALSE]
      /\ response' = [response EXCEPT ![c] = None] /\ page' = [page EXCEPT ![c] = None]
      /\ want' = [want EXCEPT ![c] = None] /\ wire' = [wire EXCEPT ![c] = <<>>]
      /\ shown' = shown \ {c} /\ last' = IF shown' = {} THEN Unset ELSE last
      /\ UNCHANGED <<post, user, pwd, main, aborted, sent, overlap>>
  BY DEF HangUp, Close, Remember, At, Locked, Move, Set
<1>2. TypeOK /\ Pieces /\ Copying /\ Reached
  BY DEF IInv
<1>3. /\ Members' = Members \ {c} /\ c \in Members
      /\ main.why = "none" /\ main.to = {} /\ main.step = "next" /\ main.peer = NoConn
  BY <1>1, <1>2 DEF Members, TypeOK, Resting
<1>4. TypeOK'
  BY <1>1, <1>2, <1>3 DEF TypeOK, Members, Code, None, Stage
<1>5. Pieces'
  BY <1>1, <1>2, <1>3, Apart DEF Pieces, TypeOK
<1>6. Copying'
  BY <1>1, <1>2, <1>3, Apart DEF Copying, Copies, TypeOK, Members
<1>7. Reached'
  BY <1>1, <1>2, <1>3 DEF Reached, TypeOK, Members
<1>8. ASSUME ~overlap' PROVE ByTurns'
  <2>1. ~overlap /\ ByTurns
    BY <1>1, <1>8 DEF IInv, Turns
  <2>2. OneWaits'
    BY <1>1, <1>2, <1>3, <2>1, Apart DEF ByTurns, OneWaits, Pieces, TypeOK, Members
  <2>3. InIfAny'
    BY <1>1, <1>2, <1>3, <2>1 DEF ByTurns, InIfAny, Nobody, Begun, Busy, TypeOK, Members
  <2>4. Answering'
    BY <1>1, <1>2, <1>3, <2>1 DEF ByTurns, Answering, Answered, TypeOK
  <2>5. Shared'
    BY <1>1, <1>2, <1>3, <2>1 DEF ByTurns, Shared, Half, Ahead, Alike, TypeOK, Members
  <2>6. Last'
    BY <1>1, <1>2, <1>3, <2>1 DEF ByTurns, Last, Pending, Answered, Half, TypeOK, Members
  <2> QED BY <1>1, <2>1, <2>2, <2>3, <2>4, <2>5, <2>6 DEF ByTurns
<1> QED BY <1>4, <1>5, <1>6, <1>7, <1>8 DEF IInv, Turns

(* The search for a connection that is logged in.                          *)
LEMMA EpollInKeeps ==
  ASSUME IInv, NEW c \in Conn, EpollIn(c)
  PROVE  IInv'
<1>1. /\ st[c] = "in" /\ wire[c] # <<>> /\ main = Resting /\ ~aborted
      /\ \/ \E s \in Members :
              /\ login[s]
              /\ main' = [why |-> "in", fd |-> c, source |-> s, to |-> Members,
                          peer |-> NoConn, step |-> "next"]
         \/ /\ \A s \in Members : ~login[s]
            /\ main' = [why |-> "in", fd |-> c, source |-> NoConn, to |-> {},
                        peer |-> NoConn, step |-> "next"]
      /\ UNCHANGED <<st, wire, buffer, post, login, user, pwd, page, response, aborted, want, sent,
                     overlap, shown, last>>
  BY DEF EpollIn, At, Locked, Begin, Resting, slot, client
<1>2. TypeOK /\ Pieces /\ Copying /\ Reached
  BY DEF IInv
<1>3. /\ c \in Members /\ want[c] # None /\ NoConn \notin Conn
      /\ main.why = "none" /\ main.to = {} /\ main.step = "next" /\ main.peer = NoConn
  BY <1>1, <1>2, ConnAssumption DEF Members, Pieces, Resting
<1>4. TypeOK'
  BY <1>1, <1>2, <1>3 DEF TypeOK, Members, Code, None, Stage
<1>5. Pieces'
  BY <1>1, <1>2, <1>3, Apart DEF Pieces, TypeOK
<1>6. Copying'
  BY <1>1, <1>2, <1>3, Apart DEF Copying, Copies, TypeOK, Members
<1>7. Reached'
  BY <1>1, <1>2, <1>3 DEF Reached, TypeOK, Members
<1>8. ASSUME ~overlap' PROVE ByTurns'
  <2>1. ~overlap /\ ByTurns
    BY <1>1, <1>8 DEF IInv, Turns
  <2>2. OneWaits'
    BY <1>1, <1>2, <1>3, <2>1, Apart DEF ByTurns, OneWaits, Pieces, TypeOK, Members
  <2>3. InIfAny'
    BY <1>1, <1>2, <1>3, <2>1 DEF ByTurns, InIfAny, Nobody, Begun, Busy, TypeOK, Members
  <2>4. Answering'
    BY <1>1, <1>2, <1>3, <2>1 DEF ByTurns, Answering, Answered, TypeOK
  <2>5. Shared'
    BY <1>1, <1>2, <1>3, <2>1 DEF ByTurns, Shared, Half, Ahead, Alike, TypeOK, Members
  <2>6. Last'
    BY <1>1, <1>2, <1>3, <2>1 DEF ByTurns, Last, Pending, Answered, Half, TypeOK, Members
  <2> QED BY <1>1, <2>1, <2>2, <2>3, <2>4, <2>5, <2>6 DEF ByTurns
<1> QED BY <1>4, <1>5, <1>6, <1>7, <1>8 DEF IInv, Turns

(* An answer is due: the connection is handed over and copied.             *)
LEMMA EpollOutKeeps ==
  ASSUME IInv, NEW c \in Conn, EpollOut(c)
  PROVE  IInv'
<1>1. /\ st[c] = "out" /\ main = Resting /\ ~aborted
      /\ st' = [st EXCEPT ![c] = "write"]
      /\ main' = [why |-> "out", fd |-> c, source |-> c, to |-> Members \ {c},
                  peer |-> NoConn, step |-> "next"]
      /\ UNCHANGED <<wire, buffer, post, login, user, pwd, page, response, aborted, want, sent,
                     overlap, shown, last>>
  BY DEF EpollOut, At, Locked, Begin, Resting, Move, slot, client
<1>2. TypeOK /\ Pieces /\ Copying /\ Reached
  BY DEF IInv
<1>3. /\ Members' = Members /\ c \in Members /\ want[c] # None /\ c # NoConn
      /\ main.why = "none" /\ main.to = {} /\ main.step = "next" /\ main.peer = NoConn
  BY <1>1, <1>2, ConnAssumption DEF Members, Pieces, TypeOK, Resting
<1>4. TypeOK'
  BY <1>1, <1>2, <1>3 DEF TypeOK, Members, Code, None, Stage
<1>5. Pieces'
  BY <1>1, <1>2, <1>3, Apart DEF Pieces, TypeOK
<1>6. Copying'
  BY <1>1, <1>2, <1>3, Apart DEF Copying, Copies, TypeOK, Members
<1>7. Reached'
  BY <1>1, <1>2, <1>3 DEF Reached, TypeOK, Members
<1>8. ASSUME ~overlap' PROVE ByTurns'
  <2>1. ~overlap /\ ByTurns
    BY <1>1, <1>8 DEF IInv, Turns
  <2>2. \A d \in Conn : d # c => want[d] = None /\ st[d] \in {"closed", "in"} /\ buffer[d] = <<>>
    BY <1>1, <1>2, <1>3, <2>1, Alone DEF Busy
  <2>3. OneWaits'
    BY <1>1, <1>2, <1>3, <2>1, <2>2, Apart DEF ByTurns, OneWaits, Pieces, TypeOK, Members
  <2>4. InIfAny'
    BY <1>1, <1>2, <1>3, <2>1, <2>2 DEF ByTurns, InIfAny, Nobody, Begun, Busy, TypeOK, Members
  <2>5. Answering'
    BY <1>1, <1>2, <1>3, <2>1, <2>2 DEF ByTurns, Answering, Answered, TypeOK
  <2>6. Shared'
    BY <1>1, <1>2, <1>3, <2>1, <2>2 DEF ByTurns, Shared, Half, Ahead, Alike, TypeOK, Members
  <2>7. Last'
    BY <1>1, <1>2, <1>3, <2>1, <2>2 DEF ByTurns, Last, Pending, Answered, Half, TypeOK, Members
  <2> QED BY <1>1, <2>1, <2>3, <2>4, <2>5, <2>6, <2>7 DEF ByTurns
<1> QED BY <1>4, <1>5, <1>6, <1>7, <1>8 DEF IInv, Turns

(* A copy that is not made, ...                                            *)
LEMMA CopySkipKeeps ==
  ASSUME IInv, NEW c \in Conn, CopySkip(c)
  PROVE  IInv'
<1>1. /\ main.step = "next" /\ c \in main.to /\ main.why = "in" /\ login[c] /\ ~aborted
      /\ main' = [main EXCEPT !.to = @ \ {c}]
      /\ UNCHANGED <<st, wire, buffer, post, login, user, pwd, page, response, aborted, want, sent,
                     overlap, shown, last>>
  BY DEF CopySkip, Skip, slot, client
<1>2. TypeOK /\ Pieces /\ Copying /\ Reached
  BY DEF IInv
<1>3. TypeOK'
  BY <1>1, <1>2 DEF TypeOK, Members, Code, None, Stage
<1>4. Pieces'
  BY <1>1, <1>2, Apart DEF Pieces, TypeOK
<1>5. Copying'
  BY <1>1, <1>2, Apart DEF Copying, Copies, TypeOK, Members
<1>6. Reached'
  BY <1>1, <1>2 DEF Reached, TypeOK, Members
<1>7. ASSUME ~overlap' PROVE ByTurns'
  <2>1. ~overlap /\ ByTurns
    BY <1>1, <1>7 DEF IInv, Turns
  <2>2. OneWaits'
    BY <1>1, <1>2, <2>1, Apart DEF ByTurns, OneWaits, Pieces, TypeOK, Members
  <2>3. InIfAny'
    BY <1>1, <1>2, <2>1 DEF ByTurns, InIfAny, Nobody, Begun, Busy, TypeOK, Members
  <2>4. Answering'
    BY <1>1, <1>2, <2>1 DEF ByTurns, Answering, Answered, TypeOK
  <2>5. Shared'
    BY <1>1, <1>2, <2>1 DEF ByTurns, Shared, Half, Ahead, Alike, TypeOK, Members
  <2>6. Last'
    BY <1>1, <1>2, <2>1 DEF ByTurns, Last, Pending, Answered, Half, TypeOK, Members
  <2> QED BY <1>1, <2>1, <2>2, <2>3, <2>4, <2>5, <2>6 DEF ByTurns
<1> QED BY <1>3, <1>4, <1>5, <1>6, <1>7 DEF IInv, Turns

(* ... and the parts of one that is.                                       *)
LEMMA CopyBuffersKeeps ==
  ASSUME IInv, NEW c \in Conn, CopyBuffers(c)
  PROVE  IInv'
<1>1. /\ main.step = "next" /\ c \in main.to /\ (main.why = "in" => ~login[c]) /\ ~aborted
      /\ buffer' = [buffer EXCEPT ![c] = <<>>] /\ post' = [post EXCEPT ![c] = FALSE]
      /\ response' = [response EXCEPT ![c] = IF response[c] = None THEN None ELSE "zeros"]
      /\ main' = [main EXCEPT !.peer = c, !.step = "login"]
      /\ UNCHANGED <<st, wire, login, user, pwd, page, aborted, want, sent, overlap, shown, last>>
  BY DEF CopyBuffers, Skip, Set, client
<1>2. TypeOK /\ Pieces /\ Copying /\ Reached
  BY DEF IInv
<1>3. /\ main.why \in {"in", "out"} /\ main.source \in Members /\ c # main.source
      /\ (main.why = "in" => login[main.source]) /\ c \in Members /\ main.source # NoConn
  BY <1>1, <1>2, ConnAssumption DEF Copying, Copies, Reached, Resting, Members
<1>4. TypeOK'
  BY <1>1, <1>2, <1>3 DEF TypeOK, Members, Code, None, Stage
<1>5. Pieces'
  BY <1>1, <1>2, <1>3, Apart DEF Pieces, TypeOK
<1>6. Copying'
  BY <1>1, <1>2, <1>3, Apart DEF Copying, Copies, TypeOK, Members
<1>7. Reached'
  BY <1>1, <1>2, <1>3 DEF Reached, TypeOK, Members
<1>8. ASSUME ~overlap' PROVE ByTurns'
  <2>1. ~overlap /\ ByTurns
    BY <1>1, <1>8 DEF IInv, Turns
  <2>2. st[c] = "in" /\ buffer[c] = <<>>
    <3>1. CASE main.why = "out"
      BY <1>1, <1>2, <1>3, <2>1, <3>1 DEF ByTurns, OneWaits, Copying, Copies
    <3>2. CASE main.why = "in"
      <4>1. want[main.fd] # None /\ main.fd \in Conn /\ st[main.fd] = "in"
        BY <1>2, <3>2 DEF Pieces, Copying, Copies, Members
      <4>2. st[c] = "in" /\ (c # main.fd => buffer[c] = <<>>)
        BY <1>3, <2>1, <4>1, Alone DEF Members
      <4>3. Begun(c) => login[c] \/ Nobody
        BY <2>1 DEF ByTurns, InIfAny
      <4> QED BY <1>1, <1>3, <3>2, <4>2, <4>3 DEF Begun, Nobody
    <3> QED BY <1>3, <3>1, <3>2
  <2>3. OneWaits'
    BY <1>1, <1>2, <1>3, <2>1, <2>2, Apart DEF ByTurns, OneWaits, Pieces, TypeOK, Members
  <2>4. InIfAny'
    BY <1>1, <1>2, <1>3, <2>1, <2>2 DEF ByTurns, InIfAny, Nobody, Begun, Busy, TypeOK, Members
  <2>5. Answering'
    BY <1>1, <1>2, <1>3, <2>1, <2>2 DEF ByTurns, Answering, Answered, TypeOK
  <2>6. Shared'
    BY <1>1, <1>2, <1>3, <2>1, <2>2 DEF ByTurns, Shared, Half, Ahead, Alike, TypeOK, Members
  <2>7. Last'
    BY <1>1, <1>2, <1>3, <2>1, <2>2 DEF ByTurns, Last, Pending, Answered, Half, TypeOK, Members
  <2> QED BY <1>1, <2>1, <2>3, <2>4, <2>5, <2>6, <2>7 DEF ByTurns
<1> QED BY <1>4, <1>5, <1>6, <1>7, <1>8 DEF IInv, Turns

(* The login is copied.                                                    *)
LEMMA CopyLoginKeeps ==
  ASSUME IInv, CopyLogin
  PROVE  IInv'
<1>1. /\ main.step = "login" /\ ~aborted
      /\ login' = [login EXCEPT ![main.peer] = login[main.source]]
      /\ main' = [main EXCEPT !.step = "user"]
      /\ UNCHANGED <<st, wire, buffer, post, user, pwd, page, response, aborted, want, sent,
                     overlap, shown, last>>
  BY DEF CopyLogin, Set, client
<1>2. TypeOK /\ Pieces /\ Copying /\ Reached
  BY DEF IInv
<1>3. /\ main.peer \in main.to /\ main.peer \in Members /\ main.peer # main.source
      /\ main.source \in Members /\ main.source # NoConn /\ main.why \in {"in", "out"}
      /\ Members' = Members /\ Members \subseteq Conn
      /\ main.fd \in Members
      /\ main.why = "out" => main.fd = main.source /\ main.source \notin main.to
      /\ main'.why = main.why /\ main'.fd = main.fd /\ main'.source = main.source
      /\ main'.to = main.to /\ main'.peer = main.peer /\ main'.step = "user" /\ main' \in Copies
  <2>1. /\ main.peer \in main.to /\ main.peer # main.source /\ main.to \subseteq Members
        /\ main.source \in Members /\ main.fd \in Members
        /\ main.why = "out" => main.fd = main.source /\ main.source \notin main.to
    BY <1>1, <1>2 DEF Copying, Resting
  <2>2. main \in Copies /\ Members' = Members /\ Members \subseteq Conn
    BY <1>1, <1>2 DEF Copying, Members
  <2>3. main.why \in {"in", "out"} /\ main.source # NoConn
    BY <1>1, <1>2, <2>1, <2>2, ConnAssumption DEF Copying, Copies, Resting
  <2>4. main'.why = main.why /\ main'.fd = main.fd /\ main'.source = main.source /\ main' \in Copies
    BY <1>1, <2>2 DEF Copies
  <2>5. main'.to = main.to /\ main'.peer = main.peer /\ main'.step = "user"
    BY <1>1, <2>2 DEF Copies
  <2> QED BY <2>1, <2>2, <2>3, <2>4, <2>5
<1>4. TypeOK'
  BY <1>1, <1>2, <1>3 DEF TypeOK, Members, Code, None, Stage
<1>5. Pieces'
  BY <1>1, <1>2, <1>3 DEF Pieces, TypeOK, Members
<1>6. Copying'
  BY <1>1, <1>2, <1>3, Apart DEF Copying, TypeOK
<1>7. Reached'
  BY <1>1, <1>2, <1>3 DEF Reached, TypeOK
<1>8. ASSUME ~overlap' PROVE ByTurns'
  <2>1. ~overlap /\ ByTurns
    BY <1>1, <1>8 DEF IInv, Turns
  <2>2. /\ st[main.peer] = "in"
        /\ st[main.source] = "in" \/ (main.why = "out" /\ st[main.source] = "write")
        /\ main.why = "in" => login[main.source]
    <3>1. CASE main.why = "out"
      <4>1. \A c \in Members : st[c] = "in" \/ (c = main.fd /\ st[c] = "write")
        BY <2>1, <3>1 DEF ByTurns, OneWaits
      <4> QED BY <1>3, <3>1, <4>1
    <3>2. CASE main.why = "in"
      <4>1. want[main.fd] # None /\ main.fd \in Conn /\ st[main.fd] = "in"
        BY <1>2, <1>3, <3>2 DEF Pieces, Copying
      <4>2. \A c \in Members : st[c] = "in"
        BY <2>1, <4>1, Alone DEF Members
      <4> QED BY <1>2, <1>3, <3>2, <4>2 DEF Reached
    <3> QED BY <1>3, <3>1, <3>2
  <2>3. OneWaits'
    BY <1>1, <1>2, <1>3, <2>1 DEF ByTurns, OneWaits
  <2>4. InIfAny'
    BY <1>1, <1>2, <1>3, <2>1, <2>2 DEF ByTurns, InIfAny, Nobody, Begun, Busy, TypeOK
  <2>5. Answering'
    BY <1>1, <1>2, <1>3, <2>1, <2>2 DEF ByTurns, Answering, Answered, TypeOK
  <2>6. Shared'
    BY <1>1, <1>2, <1>3, <2>1, <2>2 DEF ByTurns, Shared, Half, Ahead, Alike, TypeOK
  <2>7. Last'
    BY <1>1, <1>2, <1>3, <2>1, <2>2
       DEF ByTurns, Last, InIfAny, Nobody, Shared, Pending, Answered, Half, TypeOK
  <2> QED BY <1>1, <2>1, <2>3, <2>4, <2>5, <2>6, <2>7 DEF ByTurns
<1> QED BY <1>4, <1>5, <1>6, <1>7, <1>8 DEF IInv, Turns

(* The user is copied, with the place.                                     *)
LEMMA CopyUserKeeps ==
  ASSUME IInv, CopyUser
  PROVE  IInv'
<1>1. /\ main.step = "user" /\ ~aborted
      /\ user' = [user EXCEPT ![main.peer] = user[main.source]]
      /\ pwd' = [pwd EXCEPT ![main.peer] = pwd[main.source]]
      /\ main' = [main EXCEPT !.to = @ \ {main.peer}, !.peer = NoConn, !.step = "next"]
      /\ UNCHANGED <<st, wire, buffer, post, login, page, response, aborted, want, sent, overlap,
                     shown, last>>
  BY DEF CopyUser, Set, client
<1>2. TypeOK /\ Pieces /\ Copying /\ Reached
  BY DEF IInv
<1>3. /\ main.peer \in main.to /\ main.peer \in Members /\ main.peer # main.source
      /\ main.source \in Members /\ main.source # NoConn /\ main.why \in {"in", "out"}
      /\ Members' = Members /\ Members \subseteq Conn
      /\ main.fd \in Members
      /\ main.why = "out" => main.fd = main.source /\ main.source \notin main.to
      /\ main'.why = main.why /\ main'.fd = main.fd /\ main'.source = main.source
      /\ main'.to = main.to \ {main.peer} /\ main'.peer = NoConn /\ main'.step = "next" /\ main' \in Copies
  <2>1. /\ main.peer \in main.to /\ main.peer # main.source /\ main.to \subseteq Members
        /\ main.source \in Members /\ main.fd \in Members
        /\ main.why = "out" => main.fd = main.source /\ main.source \notin main.to
    BY <1>1, <1>2 DEF Copying, Resting
  <2>2. main \in Copies /\ Members' = Members /\ Members \subseteq Conn
    BY <1>1, <1>2 DEF Copying, Members
  <2>3. main.why \in {"in", "out"} /\ main.source # NoConn
    BY <1>1, <1>2, <2>1, <2>2, ConnAssumption DEF Copying, Copies, Resting
  <2>4. main'.why = main.why /\ main'.fd = main.fd /\ main'.source = main.source /\ main' \in Copies
    BY <1>1, <2>2 DEF Copies
  <2>5. main'.to = main.to \ {main.peer} /\ main'.peer = NoConn /\ main'.step = "next"
    BY <1>1, <2>2 DEF Copies
  <2> QED BY <2>1, <2>2, <2>3, <2>4, <2>5
<1>4. TypeOK'
  BY <1>1, <1>2, <1>3 DEF TypeOK, Members, Code, None, Stage
<1>5. Pieces'
  BY <1>1, <1>2, <1>3, Apart DEF Pieces, TypeOK
<1>6. Copying'
  BY <1>1, <1>2, <1>3, Apart DEF Copying, TypeOK
<1>7. Reached'
  BY <1>1, <1>2, <1>3 DEF Reached, TypeOK
<1>8. ASSUME ~overlap' PROVE ByTurns'
  <2>1. ~overlap /\ ByTurns
    BY <1>1, <1>8 DEF IInv, Turns
  <2>2. /\ st[main.peer] = "in"
        /\ st[main.source] = "in" \/ (main.why = "out" /\ st[main.source] = "write")
        /\ main.why = "in" => login[main.source]
    <3>1. CASE main.why = "out"
      <4>1. \A c \in Members : st[c] = "in" \/ (c = main.fd /\ st[c] = "write")
        BY <2>1, <3>1 DEF ByTurns, OneWaits
      <4> QED BY <1>3, <3>1, <4>1
    <3>2. CASE main.why = "in"
      <4>1. want[main.fd] # None /\ main.fd \in Conn /\ st[main.fd] = "in"
        BY <1>2, <1>3, <3>2 DEF Pieces, Copying
      <4>2. \A c \in Members : st[c] = "in"
        BY <2>1, <4>1, Alone DEF Members
      <4> QED BY <1>2, <1>3, <3>2, <4>2 DEF Reached
    <3> QED BY <1>3, <3>1, <3>2
  <2>3. OneWaits'
    BY <1>1, <1>2, <1>3, <2>1 DEF ByTurns, OneWaits
  <2>4. InIfAny'
    BY <1>1, <1>2, <1>3, <2>1, <2>2 DEF ByTurns, InIfAny, Nobody, Begun, Busy, TypeOK
  <2>5. Answering'
    BY <1>1, <1>2, <1>3, <2>1, <2>2 DEF ByTurns, Answering, Answered, TypeOK
  <2>6. Shared'
    BY <1>1, <1>2, <1>3, <2>1, <2>2 DEF ByTurns, Shared, Half, Ahead, Alike, TypeOK
  <2>7. Last'
    BY <1>1, <1>2, <1>3, <2>1, <2>2
       DEF ByTurns, Last, InIfAny, Nobody, Shared, Pending, Answered, Half, TypeOK
  <2> QED BY <1>1, <2>1, <2>3, <2>4, <2>5, <2>6, <2>7 DEF ByTurns
<1> QED BY <1>4, <1>5, <1>6, <1>7, <1>8 DEF IInv, Turns

(* The copies are made.                                                    *)
LEMMA CopyDoneKeeps ==
  ASSUME IInv, CopyDone
  PROVE  IInv'
<1>1. /\ main # Resting /\ main.to = {} /\ main' = Resting /\ ~aborted
      /\ st' = IF main.why = "in" THEN [st EXCEPT ![main.fd] = "recv"] ELSE st
      /\ UNCHANGED <<wire, buffer, post, login, user, pwd, page, response, aborted, want, sent,
                     overlap, shown, last>>
  BY DEF CopyDone, Locked, Move, slot, client
<1>2. TypeOK /\ Pieces /\ Copying /\ Reached
  BY DEF IInv
<1>3. /\ main.fd \in Members /\ main.fd \in Conn /\ main.step = "next" /\ main.peer = NoConn
      /\ main.why \in {"in", "out"} /\ Members' = Members
      /\ main'.why = "none" /\ main'.to = {} /\ main'.step = "next" /\ main'.peer = NoConn
      /\ main'.fd = NoConn /\ main'.source = NoConn /\ main' \in Copies
      /\ main.why = "in" => st[main.fd] = "in" /\ wire[main.fd] # <<>> /\ want[main.fd] # None
  BY <1>1, <1>2 DEF Copying, Copies, TypeOK, Members, Resting, Pieces
<1>4. TypeOK'
  BY <1>1, <1>2, <1>3 DEF TypeOK, Members, Code, None, Stage
<1>5. Pieces'
  BY <1>1, <1>2, <1>3, Apart DEF Pieces, TypeOK
<1>6. Copying'
  BY <1>1, <1>2, <1>3, Apart DEF Copying, Copies, TypeOK, Members
<1>7. Reached'
  BY <1>1, <1>2, <1>3 DEF Reached, TypeOK, Members
<1>8. ASSUME ~overlap' PROVE ByTurns'
  <2>1. ~overlap /\ ByTurns
    BY <1>1, <1>8 DEF IInv, Turns
  <2>2. OneWaits'
    BY <1>1, <1>2, <1>3, <2>1, Apart DEF ByTurns, OneWaits, Pieces, TypeOK, Members
  <2>3. InIfAny'
    <3>1. main.why = "in" => login[main.fd] \/ Nobody
      BY <1>1, <1>2, <1>3, <2>1 DEF ByTurns, InIfAny, Reached
    <3> QED BY <1>1, <1>2, <1>3, <2>1, <3>1 DEF ByTurns, InIfAny, Nobody, Begun, Busy, TypeOK
  <2>4. Answering'
    BY <1>1, <1>2, <1>3, <2>1 DEF ByTurns, Answering, Answered, TypeOK
  <2>5. Shared'
    BY <1>1, <1>2, <1>3, <2>1 DEF ByTurns, Shared, Half, Ahead, Alike, TypeOK, Members
  <2>6. Last'
    BY <1>1, <1>2, <1>3, <2>1 DEF ByTurns, Last, Pending, Answered, Half, TypeOK, Members
  <2> QED BY <1>1, <2>1, <2>2, <2>3, <2>4, <2>5, <2>6 DEF ByTurns
<1> QED BY <1>4, <1>5, <1>6, <1>7, <1>8 DEF IInv, Turns

(* recv returns a piece, or two.                                           *)
LEMMA ReceiveKeeps ==
  ASSUME IInv, NEW c \in Conn, NEW k \in {1, 2}, Receive(c, k)
  PROVE  IInv'
<1> DEFINE got  == buffer[c] \o SubSeq(wire[c], 1, k)
           left == SubSeq(wire[c], k + 1, Len(wire[c]))
<1>1. /\ st[c] = "recv" /\ k <= Len(wire[c]) /\ ~aborted
      /\ st' = [st EXCEPT ![c] = "parse"]
      /\ buffer' = [buffer EXCEPT ![c] = got] /\ wire' = [wire EXCEPT ![c] = left]
      /\ UNCHANGED <<post, login, user, pwd, page, response, main, aborted, want, sent, overlap,
                     shown, last>>
  BY DEF Receive, At, Move, Set
<1>2. TypeOK /\ Pieces /\ Copying /\ Reached
  BY DEF IInv
<1>3. /\ Members' = Members /\ c \in Members /\ want[c] # None
      /\ \/ buffer[c] = <<>> /\ wire[c] = <<1, 2>> /\ got = <<1>> /\ left = <<2>>
         \/ buffer[c] = <<>> /\ wire[c] = <<1, 2>> /\ got = <<1, 2>> /\ left = <<>>
         \/ buffer[c] = <<>> /\ wire[c] = <<2>> /\ got = <<2>> /\ left = <<>>
         \/ buffer[c] = <<1>> /\ wire[c] = <<2>> /\ got = <<1, 2>> /\ left = <<>>
  <2>1. Members' = Members /\ c \in Members /\ want[c] # None
    BY <1>1, <1>2 DEF Members, TypeOK, Pieces
  <2>2. CASE wire[c] = <<1, 2>>
    <3>1. buffer[c] = <<>>
      BY <1>2, <2>2 DEF Pieces
    <3>2. k + 1 = IF k = 1 THEN 2 ELSE 3
      OBVIOUS
    <3> QED BY <2>1, <2>2, <3>1, <3>2, Receiving
  <2>3. CASE wire[c] = <<2>>
    <3>1. k = 1 /\ k + 1 = 2
      BY <1>1, <2>3, Receiving
    <3>2. buffer[c] \in {<<>>, <<1>>}
      BY <1>2, <2>3 DEF Pieces
    <3> QED BY <2>1, <2>3, <3>1, <3>2, Receiving
  <2>4. wire[c] # <<>>
    BY <1>1, Receiving
  <2> QED BY <1>2, <2>2, <2>3, <2>4 DEF TypeOK
<1> HIDE DEF got, left
<1>4. TypeOK'
  BY <1>1, <1>2, <1>3 DEF TypeOK, Members, Code, None, Stage
<1>5. Pieces'
  BY <1>1, <1>2, <1>3, Apart DEF Pieces, TypeOK
<1>6. Copying'
  BY <1>1, <1>2, <1>3, Apart DEF Copying, Copies, TypeOK, Members
<1>7. Reached'
  BY <1>1, <1>2, <1>3 DEF Reached, TypeOK, Members
<1>8. ASSUME ~overlap' PROVE ByTurns'
  <2>1. ~overlap /\ ByTurns
    BY <1>1, <1>8 DEF IInv, Turns
  <2>2. /\ \A d \in Conn : d # c => want[d] = None /\ st[d] \in {"closed", "in"} /\ buffer[d] = <<>>
        /\ main.why = "none" /\ main.to = {} /\ main.step = "next" /\ main.peer = NoConn
    BY <1>1, <1>2, <1>3, <2>1, Alone DEF Busy, Resting
  <2>3. OneWaits'
    BY <1>1, <1>2, <1>3, <2>1, <2>2, Apart DEF ByTurns, OneWaits, Pieces, TypeOK, Members
  <2>4. InIfAny'
    BY <1>1, <1>2, <1>3, <2>1, <2>2 DEF ByTurns, InIfAny, Nobody, Begun, Busy, TypeOK, Members
  <2>5. Answering'
    BY <1>1, <1>2, <1>3, <2>1, <2>2 DEF ByTurns, Answering, Answered, TypeOK
  <2>6. Shared'
    BY <1>1, <1>2, <1>3, <2>1, <2>2 DEF ByTurns, Shared, Half, Ahead, Alike, TypeOK, Members
  <2>7. Last'
    BY <1>1, <1>2, <1>3, <2>1, <2>2 DEF ByTurns, Last, Pending, Answered, Half, TypeOK, Members
  <2> QED BY <1>1, <2>1, <2>3, <2>4, <2>5, <2>6, <2>7 DEF ByTurns
<1> QED BY <1>4, <1>5, <1>6, <1>7, <1>8 DEF IInv, Turns

(* The request is parsed.                                                  *)
LEMMA ParseKeeps ==
  ASSUME IInv, NEW c \in Conn, Parse(c)
  PROVE  IInv'
<1>1. /\ st[c] = "parse" /\ ~aborted
      /\ \/ /\ buffer[c] = <<1, 2>> /\ post' = [post EXCEPT ![c] = want[c] \in User]
            /\ st' = [st EXCEPT ![c] = "html"] /\ page' = page
         \/ /\ buffer[c] = <<2>> /\ page' = [page EXCEPT ![c] = "BAD_RESPONSE"]
            /\ st' = [st EXCEPT ![c] = "construct"] /\ post' = post
         \/ /\ buffer[c] \in {<<>>, <<1>>} /\ st' = [st EXCEPT ![c] = "in"]
            /\ post' = post /\ page' = page
      /\ UNCHANGED <<wire, buffer, login, user, pwd, response, main, aborted, want, sent, overlap,
                     shown, last>>
  BY DEF Parse, At, Move, Set, client
<1>2. TypeOK /\ Pieces /\ Copying /\ Reached
  BY DEF IInv
<1>3. /\ Members' = Members /\ c \in Members /\ want[c] # None
      /\ st'[c] # "in" => wire[c] = <<>>
      /\ st'[c] = "html" => (post'[c] <=> want[c] \in User)
      /\ post' \in [Conn -> BOOLEAN] /\ \A d \in Conn : d # c => (post'[d] <=> post[d])
  <2>1. Members' = Members /\ c \in Members /\ want[c] # None
    BY <1>1, <1>2 DEF Members, TypeOK, Pieces
  <2>2. st'[c] # "in" => wire[c] = <<>>
    BY <1>1, <1>2, Apart DEF TypeOK, Pieces
  <2>3. ASSUME st'[c] = "html" PROVE post'[c] <=> want[c] \in User
    <3>1. post' = [post EXCEPT ![c] = want[c] \in User]
      BY <1>1, <1>2, <2>3 DEF TypeOK
    <3>2. post \in [Conn -> BOOLEAN]
      BY <1>2 DEF TypeOK
    <3> QED BY ONLY <3>1, <3>2, c \in Conn, Zenon
  <2>4. post' \in [Conn -> BOOLEAN] /\ \A d \in Conn : d # c => (post'[d] <=> post[d])
    <3>1. post' = [post EXCEPT ![c] = want[c] \in User] \/ post' = post
      BY <1>1
    <3>2. post \in [Conn -> BOOLEAN]
      BY <1>2 DEF TypeOK
    <3>3. (want[c] \in User) \in BOOLEAN
      OBVIOUS
    <3> QED BY ONLY <3>1, <3>2, <3>3, c \in Conn, Zenon
  <2> QED BY <2>1, <2>2, <2>3, <2>4
<1>4. TypeOK'
  BY <1>1, <1>2, <1>3 DEF TypeOK, Members, Code, None, Stage
<1>5. Pieces'
  BY <1>1, <1>2, <1>3, Apart DEF Pieces, TypeOK
<1>6. Copying'
  BY <1>1, <1>2, <1>3, Apart DEF Copying, Copies, TypeOK, Members
<1>7. Reached'
  BY <1>1, <1>2, <1>3 DEF Reached, TypeOK, Members
<1>8. ASSUME ~overlap' PROVE ByTurns'
  <2>1. ~overlap /\ ByTurns
    BY <1>1, <1>8 DEF IInv, Turns
  <2>2. /\ \A d \in Conn : d # c => want[d] = None /\ st[d] \in {"closed", "in"} /\ buffer[d] = <<>>
        /\ main.why = "none" /\ main.to = {} /\ main.step = "next" /\ main.peer = NoConn
    BY <1>1, <1>2, <1>3, <2>1, Alone DEF Busy, Resting
  <2>3. OneWaits'
    <3>1. (buffer[c] = <<1>> /\ wire[c] = <<2>>) \/ (buffer[c] = <<1, 2>> /\ wire[c] = <<>>)
      BY <1>1, <1>3, <2>1 DEF ByTurns, OneWaits
    <3>2. /\ st' \in {[st EXCEPT ![c] = "html"], [st EXCEPT ![c] = "construct"], [st EXCEPT ![c] = "in"]}
          /\ st'[c] = "in" => buffer[c] = <<1>>
          /\ UNCHANGED <<buffer, wire, want, main>>
      BY <1>1, <1>2, <3>1, Apart DEF TypeOK
    <3> QED BY <1>2, <1>3, <2>1, <2>2, <3>1, <3>2, Apart DEF ByTurns, OneWaits, TypeOK
  <2>4. InIfAny'
    BY <1>1, <1>2, <1>3, <2>1, <2>2 DEF ByTurns, InIfAny, Nobody, Begun, Busy, TypeOK, Members
  <2>5. Answering'
    <3>1. buffer[c] # <<2>>
      BY <1>1, <1>3, <2>1, Apart DEF ByTurns, OneWaits
    <3>2. /\ page' = page /\ st' \in {[st EXCEPT ![c] = "html"], [st EXCEPT ![c] = "in"]}
          /\ login' = login /\ user' = user /\ want' = want /\ response' = response
      BY <1>1, <3>1
    <3> QED BY <1>2, <1>3, <2>1, <3>2 DEF ByTurns, Answering, Answered, TypeOK
  <2>6. Shared'
    BY <1>1, <1>2, <1>3, <2>1, <2>2 DEF ByTurns, Shared, Half, Ahead, Alike, TypeOK, Members
  <2>7. Last'
    BY <1>1, <1>2, <1>3, <2>1, <2>2 DEF ByTurns, Last, Pending, Answered, Half, TypeOK, Members
  <2> QED BY <1>1, <2>1, <2>3, <2>4, <2>5, <2>6, <2>7 DEF ByTurns
<1> QED BY <1>4, <1>5, <1>6, <1>7, <1>8 DEF IInv, Turns

(* A login begins, or is refused.                                          *)
LEMMA HtmlLoginKeeps ==
  ASSUME IInv, NEW c \in Conn, HtmlLogin(c)
  PROVE  IInv'
<1>1. /\ st[c] = "html" /\ want[c] \in User /\ ~aborted
      /\ post' = [post EXCEPT ![c] = FALSE]
      /\ \/ /\ post[c] /\ login' = [login EXCEPT ![c] = TRUE]
            /\ st' = [st EXCEPT ![c] = "user"] /\ page' = page
         \/ /\ page' = [page EXCEPT ![c] = IF post[c] THEN "OK" ELSE "NOT_FOUND"]
            /\ st' = [st EXCEPT ![c] = "construct"] /\ login' = login
      /\ UNCHANGED <<wire, buffer, user, pwd, response, main, aborted, want, sent, overlap, shown,
                     last>>
  BY DEF HtmlLogin, At, Move, Set, client
<1>2. TypeOK /\ Pieces /\ Copying /\ Reached
  BY DEF IInv
<1>3. Members' = Members /\ c \in Members /\ want[c] # None
  BY <1>1, <1>2 DEF Members, TypeOK, Pieces
<1>4. TypeOK'
  <2>1. /\ st' \in [Conn -> Stage] /\ page' \in [Conn -> Code]
        /\ login' \in [Conn -> BOOLEAN] /\ post' \in [Conn -> BOOLEAN]
    BY <1>1, <1>2 DEF TypeOK, Code, Stage
  <2> QED BY <1>1, <1>2, <1>3, <2>1 DEF TypeOK
<1>5. Pieces'
  BY <1>1, <1>2, <1>3, Apart DEF Pieces, TypeOK
<1>6. Copying'
  BY <1>1, <1>2, <1>3, Apart DEF Copying, Copies, TypeOK, Members
<1>7. Reached'
  BY <1>1, <1>2, <1>3 DEF Reached, Copying, Copies, TypeOK, Members
<1>8. ASSUME ~overlap' PROVE ByTurns'
  <2>1. ~overlap /\ ByTurns
    BY <1>1, <1>8 DEF IInv, Turns
  <2>2. /\ \A d \in Conn : d # c => want[d] = None /\ st[d] \in {"closed", "in"} /\ buffer[d] = <<>>
        /\ main.why = "none" /\ main.to = {} /\ main.step = "next" /\ main.peer = NoConn
    BY <1>1, <1>2, <1>3, <2>1, Alone DEF Busy, Resting
  <2>3. OneWaits'
    BY <1>1, <1>2, <1>3, <2>1, <2>2, Apart DEF ByTurns, OneWaits, Pieces, TypeOK, Members
  <2>4. InIfAny'
    BY <1>1, <1>2, <1>3, <2>1, <2>2 DEF ByTurns, InIfAny, Nobody, Begun, Busy, TypeOK, Members
  <2>5. Answering'
    BY <1>1, <1>2, <1>3, <2>1, <2>2 DEF ByTurns, Answering, Answered, TypeOK
  <2>6. Shared'
    BY <1>1, <1>2, <1>3, <2>1, <2>2 DEF ByTurns, Shared, Half, Ahead, Alike, TypeOK, Members
  <2>7. Last'
    BY <1>1, <1>2, <1>3, <2>1, <2>2 DEF ByTurns, Last, Pending, Answered, Half, TypeOK, Members
  <2> QED BY <1>1, <2>1, <2>3, <2>4, <2>5, <2>6, <2>7 DEF ByTurns
<1> QED BY <1>4, <1>5, <1>6, <1>7, <1>8 DEF IInv, Turns

(* A login ends.                                                           *)
LEMMA HtmlUserKeeps ==
  ASSUME IInv, NEW c \in Conn, HtmlUser(c)
  PROVE  IInv'
<1>1. /\ st[c] = "user" /\ ~aborted
      /\ user' = [user EXCEPT ![c] = want[c]] /\ pwd' = [pwd EXCEPT ![c] = <<want[c]>>]
      /\ page' = [page EXCEPT ![c] = "DISK_HTML"] /\ st' = [st EXCEPT ![c] = "construct"]
      /\ UNCHANGED <<wire, buffer, post, login, response, main, aborted, want, sent, overlap, shown,
                     last>>
  BY DEF HtmlUser, At, Move, Set, client
<1>2. TypeOK /\ Pieces /\ Copying /\ Reached
  BY DEF IInv
<1>3. Members' = Members /\ c \in Members /\ want[c] # None /\ want[c] \in User
  BY <1>1, <1>2 DEF Members, TypeOK, Pieces
<1>4. TypeOK'
  <2>1. pwd' \in [Conn -> {Unset} \union {<<u>> : u \in User} \union {<<u, Sub>> : u \in User}]
    BY <1>1, <1>2, <1>3 DEF TypeOK
  <2> QED BY <1>1, <1>2, <1>3, <2>1 DEF TypeOK, Code, Stage
<1>5. Pieces'
  BY <1>1, <1>2, <1>3, Apart DEF Pieces, TypeOK
<1>6. Copying'
  BY <1>1, <1>2, <1>3, Apart DEF Copying, Copies, TypeOK, Members
<1>7. Reached'
  BY <1>1, <1>2, <1>3 DEF Reached, TypeOK, Members
<1>8. ASSUME ~overlap' PROVE ByTurns'
  <2>1. ~overlap /\ ByTurns
    BY <1>1, <1>8 DEF IInv, Turns
  <2>2. /\ \A d \in Conn : d # c => want[d] = None /\ st[d] \in {"closed", "in"} /\ buffer[d] = <<>>
        /\ main.why = "none" /\ main.to = {} /\ main.step = "next" /\ main.peer = NoConn
    BY <1>1, <1>2, <1>3, <2>1, Alone DEF Busy, Resting
  <2>3. OneWaits'
    BY <1>1, <1>2, <1>3, <2>1, <2>2, Apart DEF ByTurns, OneWaits, Pieces, TypeOK, Members
  <2>4. InIfAny'
    BY <1>1, <1>2, <1>3, <2>1, <2>2 DEF ByTurns, InIfAny, Nobody, Begun, Busy, TypeOK, Members
  <2>5. Answering'
    BY <1>1, <1>2, <1>3, <2>1, <2>2 DEF ByTurns, Answering, Answered, TypeOK
  <2>6. Shared'
    BY <1>1, <1>2, <1>3, <2>1, <2>2 DEF ByTurns, Shared, Placed, Half, Ahead, Alike, TypeOK, Members
  <2>7. Last'
    BY <1>1, <1>2, <1>3, <2>1, <2>2 DEF ByTurns, Last, Pending, Answered, Half, TypeOK, Members
  <2> QED BY <1>1, <2>1, <2>3, <2>4, <2>5, <2>6, <2>7 DEF ByTurns
<1> QED BY <1>4, <1>5, <1>6, <1>7, <1>8 DEF IInv, Turns

(* The disk is listed, or moved in.                                        *)
LEMMA HtmlDiskKeeps ==
  ASSUME IInv, NEW c \in Conn, HtmlDisk(c)
  PROVE  IInv'
<1>1. /\ st[c] = "html" /\ want[c] \notin User /\ ~aborted
      /\ page' = [page EXCEPT ![c] = IF login[c] THEN "DISK_HTML" ELSE "FORBIDDEN"]
      /\ pwd' = [pwd EXCEPT ![c] = IF login[c] /\ want[c] = "move" THEN Moved(pwd[c]) ELSE pwd[c]]
      /\ st' = [st EXCEPT ![c] = "construct"]
      /\ UNCHANGED <<wire, buffer, post, login, user, response, main, aborted, want, sent, overlap,
                     shown, last>>
  BY DEF HtmlDisk, At, Move, Set, client
<1>2. TypeOK /\ Pieces /\ Copying /\ Reached
  BY DEF IInv
<1>3. Members' = Members /\ c \in Members /\ want[c] # None
  BY <1>1, <1>2 DEF Members, TypeOK, Pieces
<1>4. TypeOK'
  <2>1. pwd' \in [Conn -> {Unset} \union {<<u>> : u \in User} \union {<<u, Sub>> : u \in User}]
    <3> DEFINE Place == {Unset} \union {<<u>> : u \in User} \union {<<u, Sub>> : u \in User}
    <3>1. \A p \in Place : Moved(p) \in Place
      BY Moving
    <3> HIDE DEF Place
    <3> QED BY <1>1, <1>2, <3>1 DEF TypeOK, Place
  <2> QED BY <1>1, <1>2, <1>3, <2>1 DEF TypeOK, Code, Stage
<1>5. Pieces'
  BY <1>1, <1>2, <1>3, Apart DEF Pieces, TypeOK
<1>6. Copying'
  BY <1>1, <1>2, <1>3, Apart DEF Copying, Copies, TypeOK, Members
<1>7. Reached'
  BY <1>1, <1>2, <1>3 DEF Reached, TypeOK, Members
<1>8. ASSUME ~overlap' PROVE ByTurns'
  <2>1. ~overlap /\ ByTurns
    BY <1>1, <1>8 DEF IInv, Turns
  <2>2. /\ \A d \in Conn : d # c => want[d] = None /\ st[d] \in {"closed", "in"} /\ buffer[d] = <<>>
        /\ main.why = "none" /\ main.to = {} /\ main.step = "next" /\ main.peer = NoConn
    BY <1>1, <1>2, <1>3, <2>1, Alone DEF Busy, Resting
  <2>3. OneWaits'
    BY <1>1, <1>2, <1>3, <2>1, <2>2, Apart DEF ByTurns, OneWaits, Pieces, TypeOK, Members
  <2>4. InIfAny'
    BY <1>1, <1>2, <1>3, <2>1, <2>2 DEF ByTurns, InIfAny, Nobody, Begun, Busy, TypeOK, Members
  <2>5. Answering'
    BY <1>1, <1>2, <1>3, <2>1, <2>2 DEF ByTurns, Answering, Answered, TypeOK
  <2>6. Shared'
    <3>1. login[c] => user[c] \in User /\ pwd'[c] \in Placed(user[c])
      <4>1. login[c] => user[c] \in User /\ pwd[c] \in Placed(user[c])
        BY <1>1, <2>1, <2>2 DEF ByTurns, Shared, Half
      <4>2. pwd'[c] = Moved(pwd[c]) \/ pwd'[c] = pwd[c]
        BY <1>1, <1>2 DEF TypeOK
      <4> QED BY <4>1, <4>2, Moving DEF Placed
    <3> QED BY <1>1, <1>2, <1>3, <2>1, <2>2, <3>1
         DEF ByTurns, Shared, Half, Ahead, Alike, TypeOK, Members
  <2>7. Last'
    BY <1>1, <1>2, <1>3, <2>1, <2>2 DEF ByTurns, Last, Pending, Answered, Half, TypeOK, Members
  <2> QED BY <1>1, <2>1, <2>3, <2>4, <2>5, <2>6, <2>7 DEF ByTurns
<1> QED BY <1>4, <1>5, <1>6, <1>7, <1>8 DEF IInv, Turns

(* The answer is constructed, or the assertion fails.                      *)
LEMMA ConstructKeeps ==
  ASSUME IInv, NEW c \in Conn, Construct(c)
  PROVE  IInv'
<1>1. /\ st[c] = "construct" /\ ~aborted
      /\ \/ page[c] = "DISK_HTML" /\ pwd[c] = Unset /\ aborted' /\ st' = st /\ response' = response
         \/ /\ ~(page[c] = "DISK_HTML" /\ pwd[c] = Unset) /\ aborted' = aborted
            /\ response' = [response EXCEPT ![c] = page[c]] /\ st' = [st EXCEPT ![c] = "out"]
      /\ UNCHANGED <<wire, buffer, post, login, user, pwd, page, main, want, sent, overlap, shown,
                     last>>
  BY DEF Construct, At, Move, Set, client
<1>2. TypeOK /\ Pieces /\ Copying /\ Reached
  BY DEF IInv
<1>3. Members' = Members /\ c \in Members /\ want[c] # None
  BY <1>1, <1>2 DEF Members, TypeOK, Pieces
<1>4. TypeOK'
  BY <1>1, <1>2, <1>3 DEF TypeOK, Members, Code, None, Stage
<1>5. Pieces'
  BY <1>1, <1>2, <1>3, Apart DEF Pieces, TypeOK
<1>6. Copying'
  BY <1>1, <1>2, <1>3, Apart DEF Copying, Copies, TypeOK, Members
<1>7. Reached'
  BY <1>1, <1>2, <1>3 DEF Reached, TypeOK, Members
<1>8. ASSUME ~overlap' PROVE ByTurns'
  <2>1. ~overlap /\ ByTurns
    BY <1>1, <1>8 DEF IInv, Turns
  <2>2. /\ \A d \in Conn : d # c => want[d] = None /\ st[d] \in {"closed", "in"} /\ buffer[d] = <<>>
        /\ main.why = "none" /\ main.to = {} /\ main.step = "next" /\ main.peer = NoConn
    BY <1>1, <1>2, <1>3, <2>1, Alone DEF Busy, Resting
  <2>3. OneWaits'
    BY <1>1, <1>2, <1>3, <2>1, <2>2, Apart DEF ByTurns, OneWaits, Pieces, TypeOK, Members
  <2>4. InIfAny'
    BY <1>1, <1>2, <1>3, <2>1, <2>2 DEF ByTurns, InIfAny, Nobody, Begun, Busy, TypeOK, Members
  <2>5. Answering'
    BY <1>1, <1>2, <1>3, <2>1, <2>2 DEF ByTurns, Answering, Answered, TypeOK
  <2>6. Shared'
    BY <1>1, <1>2, <1>3, <2>1, <2>2 DEF ByTurns, Shared, Half, Ahead, Alike, TypeOK, Members
  <2>7. Last'
    BY <1>1, <1>2, <1>3, <2>1, <2>2 DEF ByTurns, Last, Pending, Answered, Half, TypeOK, Members
  <2>8. ~aborted'
    <3>1. page[c] = "DISK_HTML" => pwd[c] \in Placed(user[c]) /\ user[c] \in User
      BY <1>1, <2>1, <2>2 DEF ByTurns, Answering, Answered, Shared, Half
    <3> QED BY <1>1, <3>1, Moving
  <2> QED BY <2>1, <2>3, <2>4, <2>5, <2>6, <2>7, <2>8 DEF ByTurns
<1> QED BY <1>4, <1>5, <1>6, <1>7, <1>8 DEF IInv, Turns

(* The answer is written; the connection is kept, ...                      *)
LEMMA WriteAndKeepKeeps ==
  ASSUME IInv, NEW c \in Conn, WriteAndKeep(c)
  PROVE  IInv'
<1>1. /\ st[c] = "write" /\ ~aborted
      /\ want' = [want EXCEPT ![c] = None]
      /\ buffer' = [buffer EXCEPT ![c] = <<>>] /\ response' = [response EXCEPT ![c] = None]
      /\ page' = [page EXCEPT ![c] = None] /\ st' = [st EXCEPT ![c] = "in"]
      /\ shown' = IF LoggedIn(c) THEN shown \union {c} ELSE shown
      /\ last' = IF shown' = {} THEN Unset ELSE Latest(c)
      /\ UNCHANGED <<wire, post, login, user, pwd, main, aborted, sent, overlap>>
  BY DEF WriteAndKeep, Remember, At, Move, Set
<1>2. TypeOK /\ Pieces /\ Copying /\ Reached
  BY DEF IInv
<1>3. Members' = Members /\ c \in Members /\ want[c] # None /\ Latest(c) \in User \union {Unset}
  BY <1>1, <1>2 DEF Members, TypeOK, Pieces, Latest, LoggedIn
<1>4. TypeOK'
  <2>1. shown' \subseteq Members' /\ last' \in User \union {Unset}
    BY <1>1, <1>2, <1>3 DEF TypeOK
  <2> QED BY <1>1, <1>2, <1>3, <2>1 DEF TypeOK, Code, None, Stage
<1>5. Pieces'
  BY <1>1, <1>2, <1>3, Apart DEF Pieces, TypeOK
<1>6. Copying'
  BY <1>1, <1>2, <1>3, Apart DEF Copying, Copies, TypeOK, Members
<1>7. Reached'
  BY <1>1, <1>2, <1>3 DEF Reached, TypeOK, Members
<1>8. ASSUME ~overlap' PROVE ByTurns'
  <2>1. ~overlap /\ ByTurns
    BY <1>1, <1>8 DEF IInv, Turns
  <2>2. \A d \in Conn : d # c => want[d] = None /\ st[d] \in {"closed", "in"} /\ buffer[d] = <<>>
    BY <1>1, <1>2, <1>3, <2>1, Alone DEF Busy
  <2>3. OneWaits'
    BY <1>1, <1>2, <1>3, <2>1, <2>2, Apart DEF ByTurns, OneWaits, Pieces, TypeOK, Members
  <2>4. InIfAny'
    BY <1>1, <1>2, <1>3, <2>1, <2>2 DEF ByTurns, InIfAny, Nobody, Begun, Busy, TypeOK, Members
  <2>5. Answering'
    BY <1>1, <1>2, <1>3, <2>1, <2>2 DEF ByTurns, Answering, Answered, TypeOK
  <2>6. Shared'
    BY <1>1, <1>2, <1>3, <2>1, <2>2 DEF ByTurns, Shared, Half, Ahead, Alike, TypeOK, Members
  <2>7. Last'
    <3>1. main = Resting \/ (main.why = "out" /\ main.fd = c /\ main.source = c)
      BY <1>1, <1>2, <1>3, <2>1, Alone DEF Busy, Copying
    <3>2. ~Half(c) /\ ~Ahead(c) /\ c \notin main.to
      BY <1>1, <1>2, <3>1 DEF Half, Ahead, Copying, Resting
    <3>3. CASE LoggedIn(c)
      <4>1. login[c] /\ user[c] = want[c] /\ last' = want[c] /\ shown' = shown \union {c}
        BY <1>1, <2>1, <3>3 DEF ByTurns, Answering, Answered, LoggedIn, Latest
      <4>2. \A d \in Members :
              login[d] /\ ~Half(d) /\ ~(main.why = "out" /\ d \in main.to) => user[d] = want[c]
        BY <1>1, <1>3, <2>1, <2>2, <3>1, <3>2, <4>1
           DEF ByTurns, Shared, Alike, Ahead, Members, Resting
      <4>3. \A d \in Conn : Half(d)' <=> Half(d)
        BY <1>1, <1>2 DEF Half, TypeOK
      <4> QED BY <1>1, <1>3, <2>1, <4>1, <4>2, <4>3 DEF ByTurns, Last, Members
    <3>4. CASE ~LoggedIn(c)
      <4>1. ~Pending(c) /\ shown' = shown /\ (shown # {} => last' = last)
        BY <1>1, <2>1, <3>4 DEF ByTurns, Answering, Pending, LoggedIn, Latest
      <4> QED BY <1>1, <1>2, <1>3, <2>1, <2>2, <4>1, Kinds
           DEF ByTurns, Last, Pending, Answered, Half, TypeOK, Members
    <3> QED BY <3>3, <3>4
  <2> QED BY <1>1, <2>1, <2>3, <2>4, <2>5, <2>6, <2>7 DEF ByTurns
<1> QED BY <1>4, <1>5, <1>6, <1>7, <1>8 DEF IInv, Turns

(* ... or closed.                                                          *)
LEMMA WriteAndCloseKeeps ==
  ASSUME IInv, NEW c \in Conn, WriteAndClose(c)
  PROVE  IInv'
<1>1. /\ st[c] = "write" /\ main = Resting /\ ~aborted
      /\ st' = [st EXCEPT ![c] = "closed"]
      /\ buffer' = [buffer EXCEPT ![c] = <<>>] /\ login' = [login EXCEPT ![c] = FALSE]
      /\ response' = [response EXCEPT ![c] = None] /\ page' = [page EXCEPT ![c] = None]
      /\ want' = [want EXCEPT ![c] = None] /\ wire' = [wire EXCEPT ![c] = <<>>]
      /\ shown' = shown \ {c} /\ last' = IF shown' = {} THEN Unset ELSE Latest(c)
      /\ UNCHANGED <<post, user, pwd, main, aborted, sent, overlap>>
  BY DEF WriteAndClose, Close, Remember, At, Locked, Move, Set
<1>2. TypeOK /\ Pieces /\ Copying /\ Reached
  BY DEF IInv
<1>3. /\ Members' = Members \ {c} /\ c \in Members /\ want[c] # None
      /\ main.why = "none" /\ main.to = {} /\ main.step = "next" /\ main.peer = NoConn
      /\ Latest(c) \in User \union {Unset}
  BY <1>1, <1>2 DEF Members, TypeOK, Pieces, Resting, Latest, LoggedIn
<1>4. TypeOK'
  <2>1. shown' \subseteq Members' /\ last' \in User \union {Unset}
    BY <1>1, <1>2, <1>3 DEF TypeOK
  <2> QED BY <1>1, <1>2, <1>3, <2>1 DEF TypeOK, Code, None, Stage
<1>5. Pieces'
  BY <1>1, <1>2, <1>3, Apart DEF Pieces, TypeOK
<1>6. Copying'
  BY <1>1, <1>2, <1>3, Apart DEF Copying, Copies, TypeOK, Members
<1>7. Reached'
  BY <1>1, <1>2, <1>3 DEF Reached, TypeOK, Members
<1>8. ASSUME ~overlap' PROVE ByTurns'
  <2>1. ~overlap /\ ByTurns
    BY <1>1, <1>8 DEF IInv, Turns
  <2>2. \A d \in Conn : d # c => want[d] = None /\ st[d] \in {"closed", "in"} /\ buffer[d] = <<>>
    BY <1>1, <1>2, <1>3, <2>1, Alone DEF Busy
  <2>3. OneWaits'
    BY <1>1, <1>2, <1>3, <2>1, <2>2, Apart DEF ByTurns, OneWaits, Pieces, TypeOK, Members
  <2>4. InIfAny'
    BY <1>1, <1>2, <1>3, <2>1, <2>2 DEF ByTurns, InIfAny, Nobody, Begun, Busy, TypeOK, Members
  <2>5. Answering'
    BY <1>1, <1>2, <1>3, <2>1, <2>2 DEF ByTurns, Answering, Answered, TypeOK
  <2>6. Shared'
    BY <1>1, <1>2, <1>3, <2>1, <2>2 DEF ByTurns, Shared, Half, Ahead, Alike, TypeOK, Members
  <2>7. Last'
    <3>1. \A d \in Conn : d # c => login'[d] = login[d] /\ ~Half(d) /\ ~Ahead(d) /\ ~Pending(d)
      BY <1>1, <1>2, <1>3, <2>2, Kinds DEF Half, Ahead, Pending, TypeOK
    <3>2. shown' # {} => last' = Latest(c)
      BY <1>1
    <3>3. CASE LoggedIn(c)
      <4>1. login[c] /\ user[c] = want[c] /\ ~Half(c) /\ ~Ahead(c) /\ Latest(c) = want[c]
        BY <1>1, <1>3, <2>1, <3>3 DEF ByTurns, Answering, Answered, LoggedIn, Latest, Half, Ahead
      <4>2. \A d \in Members : d # c /\ login[d] => user[d] = want[c]
        BY <1>3, <2>1, <3>1, <4>1 DEF ByTurns, Shared, Alike, Members
      <4> QED BY <1>1, <1>3, <2>1, <3>1, <3>2, <4>1, <4>2 DEF ByTurns, Last, Members
    <3>4. CASE ~LoggedIn(c)
      <4>1. ~Pending(c) /\ Latest(c) = last
        BY <1>1, <2>1, <3>4 DEF ByTurns, Answering, Pending, LoggedIn, Latest
      <4> QED BY <1>1, <1>2, <1>3, <2>1, <3>1, <3>2, <4>1 DEF ByTurns, Last, Members
    <3> QED BY <3>3, <3>4
  <2> QED BY <1>1, <2>1, <2>3, <2>4, <2>5, <2>6, <2>7 DEF ByTurns
<1> QED BY <1>4, <1>5, <1>6, <1>7, <1>8 DEF IInv, Turns

-----------------------------------------------------------------------------
(* At the start no slot is in use.                                         *)
LEMMA InitOK == Init => IInv
<1> SUFFICES ASSUME Init PROVE IInv
  OBVIOUS
<1>1. TypeOK
  <2>1. /\ st \in [Conn -> Stage] /\ page \in [Conn -> Code]
        /\ response \in [Conn -> Code \union {"zeros"}]
    BY DEF Init, Stage, Code
  <2>2. /\ wire \in [Conn -> {<<>>, <<2>>, <<1, 2>>}]
        /\ buffer \in [Conn -> {<<>>, <<1>>, <<2>>, <<1, 2>>}]
    BY DEF Init
  <2>3. {post, login} \subseteq [Conn -> BOOLEAN] /\ {aborted, overlap} \subseteq BOOLEAN
    <3>1. /\ post \in [Conn -> BOOLEAN] /\ login \in [Conn -> BOOLEAN]
          /\ aborted \in BOOLEAN /\ overlap \in BOOLEAN
      BY DEF Init
    <3> QED BY <3>1
  <2>4. /\ user \in [Conn -> User \union {Unset}] /\ last \in User \union {Unset}
        /\ want \in [Conn -> Kind \union {None}] /\ sent \in 0 .. MaxRequests
    BY BoundAssumption DEF Init
  <2>5. pwd \in [Conn -> {Unset} \union {<<u>> : u \in User} \union {<<u, Sub>> : u \in User}]
    BY DEF Init
  <2>6. /\ main.to \subseteq Conn /\ shown \subseteq Members
        /\ {main.fd, main.source, main.peer} \subseteq Conn \union {NoConn}
    BY DEF Init, Resting
  <2> QED BY <2>1, <2>2, <2>3, <2>4, <2>5, <2>6 DEF TypeOK
<1>2. Pieces
  BY Apart, Kinds DEF Init, Pieces
<1>3. Copying /\ main.why = "none" /\ main.step = "next" /\ main.to = {}
  BY DEF Init, Copying, Copies, Resting, Members
<1>4. Reached
  BY <1>3 DEF Reached
<1>5. OneWaits /\ InIfAny
  BY <1>3 DEF Init, OneWaits, InIfAny, Nobody, Begun, Busy, Members
<1>6. Answering /\ Shared /\ Last /\ ~aborted
  BY <1>3 DEF Init, Answering, Answered, Shared, Half, Ahead, Alike, Last, Members
<1> QED BY <1>1, <1>2, <1>3, <1>4, <1>5, <1>6 DEF IInv, Turns, ByTurns

(* A step that changes nothing keeps all of it.                            *)
LEMMA StutterKeeps == IInv /\ UNCHANGED vars => IInv'
<1> SUFFICES ASSUME IInv, UNCHANGED vars PROVE IInv'
  OBVIOUS
<1>1. UNCHANGED <<st, wire, buffer, post, login, user, pwd, page, response, main, aborted, want,
                  sent, overlap, shown, last>>
  BY DEF vars, slot, client
<1>2. TypeOK' /\ Pieces' /\ Copying' /\ Reached'
  BY <1>1 DEF IInv, TypeOK, Pieces, Copying, Reached, Members
<1>3. ByTurns => OneWaits' /\ InIfAny' /\ Answering' /\ ~aborted'
  BY <1>1 DEF ByTurns, OneWaits, InIfAny, Nobody, Begun, Busy, Answering, Answered, Members
<1>4. ByTurns => Shared' /\ Last'
  BY <1>1 DEF ByTurns, Shared, Half, Ahead, Alike, Last, Pending, Answered, Members
<1> QED BY <1>1, <1>2, <1>3, <1>4 DEF IInv, Turns, ByTurns

(* Every step keeps the invariant.                                         *)
LEMMA NextKeeps == IInv /\ [Next]_vars => IInv'
<1> SUFFICES ASSUME IInv, [Next]_vars PROVE IInv'
  OBVIOUS
<1>1. CASE CopyLogin
  BY <1>1, CopyLoginKeeps
<1>2. CASE CopyUser
  BY <1>2, CopyUserKeeps
<1>3. CASE CopyDone
  BY <1>3, CopyDoneKeeps
<1>4. ASSUME NEW c \in Conn, \E kind \in Kind : ~aborted /\ Send(c, kind)
      PROVE  IInv'
  BY <1>4, SendKeeps
<1>5. ASSUME NEW c \in Conn, Establish(c) \/ HangUp(c) \/ EpollIn(c) \/ EpollOut(c)
      PROVE  IInv'
  BY <1>5, EstablishKeeps, HangUpKeeps, EpollInKeeps, EpollOutKeeps
<1>6. ASSUME NEW c \in Conn, CopySkip(c) \/ CopyBuffers(c)
      PROVE  IInv'
  BY <1>6, CopySkipKeeps, CopyBuffersKeeps
<1>7. ASSUME NEW c \in Conn, \E k \in {1, 2} : Receive(c, k)
      PROVE  IInv'
  BY <1>7, ReceiveKeeps
<1>8. ASSUME NEW c \in Conn, Parse(c) \/ HtmlLogin(c) \/ HtmlUser(c) \/ HtmlDisk(c)
      PROVE  IInv'
  BY <1>8, ParseKeeps, HtmlLoginKeeps, HtmlUserKeeps, HtmlDiskKeeps
<1>9. ASSUME NEW c \in Conn, Construct(c) \/ WriteAndKeep(c) \/ WriteAndClose(c)
      PROVE  IInv'
  BY <1>9, ConstructKeeps, WriteAndKeepKeeps, WriteAndCloseKeeps
<1>10. CASE UNCHANGED vars
  BY <1>10, StutterKeeps
<1> QED BY <1>1, <1>2, <1>3, <1>4, <1>5, <1>6, <1>7, <1>8, <1>9, <1>10 DEF Next

(* The invariant holds in every state the connections of a session and     *)
(* their clients can reach, whether they take turns or not.                *)
THEOREM Invariance == Spec => []IInv
<1> QED BY InitOK, NextKeeps, PTL DEF Spec

-----------------------------------------------------------------------------
(* WebServer.cpp:206: the search for a connection that is logged in ends   *)
(* with all connections of the session logged in, if it finds one; whether *)
(* or not the clients take turns.                                          *)
THEOREM SearchReachesAll == Spec => []SyncReachesAll
<1>1. IInv => SyncReachesAll
  BY DEF IInv, Reached, SyncReachesAll
<1> QED BY Invariance, <1>1, PTL

(* Only if two clients of the session waited at once can the assertion in  *)
(* IteratorDir (Utils.h) end the server.                                   *)
THEOREM AbortsOnlyByOverlap == Spec => []AbortedByOverlap
<1>1. IInv => AbortedByOverlap
  BY DEF IInv, Turns, ByTurns, AbortedByOverlap
<1> QED BY Invariance, <1>1, PTL

(* If the clients take turns, operator= touches no request and no response *)
(* that is on its way.                                                     *)
THEOREM TurnsKeepRequests == Spec => []IntactByTurns
<1>1. ASSUME IInv PROVE IntactByTurns
  <2> SUFFICES ASSUME ~overlap, NEW c \in Members
               PROVE  /\ st[c] \in {"in", "recv"} /\ want[c] # None => buffer[c] \o wire[c] = <<1, 2>>
                      /\ st[c] \in {"out", "write"} => response[c] = page[c] /\ page[c] # "BAD_RESPONSE"
                      /\ st[c] = "html" /\ want[c] \in User => post[c]
    BY DEF IntactByTurns
  <2>1. OneWaits /\ Answering /\ c \in Conn
    BY <1>1 DEF IInv, Turns, ByTurns, Members
  <2>2. st[c] \in {"in", "recv"} /\ want[c] # None => buffer[c] \o wire[c] = <<1, 2>>
    BY <2>1, Receiving DEF OneWaits
  <2> QED BY <2>1, <2>2 DEF Answering, Answered
<1> QED BY Invariance, <1>1, PTL

(* If the clients take turns, whichever connection a request comes from is *)
(* logged in as the last to log in, and where that user is.                *)
THEOREM TurnsShareLogin == Spec => []SharedByTurns
<1>1. ASSUME IInv PROVE SharedByTurns
  <2> SUFFICES ASSUME ~overlap PROVE SharedByTurns
    BY DEF SharedByTurns
  <2>1. TypeOK /\ Pieces /\ InIfAny /\ Shared /\ Last
    BY <1>1 DEF IInv, Turns, ByTurns
  <2>2. ASSUME NEW c \in Members, st[c] = "html"
        PROVE  /\ c \in Conn /\ main = Resting
               /\ \A d \in Members : ~Half(d) /\ ~Ahead(d) /\ ~Pending(d)
    <3>1. c \in Conn /\ want[c] # None
      BY <2>1, <2>2 DEF Members, Pieces
    <3>2. main = Resting /\ \A d \in Conn : d # c => want[d] = None /\ st[d] \in {"closed", "in"}
      BY <1>1, <2>2, <3>1, Alone DEF Busy
    <3> QED BY <2>2, <3>1, <3>2, Kinds DEF Half, Ahead, Pending, Answered, Resting, Members
  <2>3. ASSUME NEW c \in Members, NEW d \in Members, st[c] = "html", login[d]
        PROVE  login[c] /\ user[c] = user[d] /\ pwd[c] = pwd[d]
    <3>1. login[c]
      BY <2>1, <2>2, <2>3 DEF InIfAny, Begun, Busy, Nobody
    <3> QED BY <2>1, <2>2, <2>3, <3>1 DEF Shared, Alike, Resting
  <2>4. ASSUME NEW c \in Members, st[c] = "html", shown # {}
        PROVE  user[c] = last /\ pwd[c] \in {<<last>>, <<last, Sub>>}
    <3>1. PICK d \in shown : d \in Members /\ login[d]
      BY <2>1, <2>4 DEF TypeOK, Last
    <3>2. login[c]
      BY <2>3, <2>4, <3>1
    <3>3. \A e \in Conn : ~(Pending(e) /\ st[e] = "write")
      BY <2>2, <2>4 DEF Members
    <3>4. user[c] = last
      BY <2>1, <2>2, <2>4, <3>2, <3>3 DEF Last, Resting
    <3> QED BY <2>1, <2>2, <2>4, <3>2, <3>4 DEF Shared, Placed
  <2> QED BY <2>1, <2>3, <2>4 DEF SharedByTurns, Last
<1> QED BY Invariance, <1>1, PTL
=============================================================================
