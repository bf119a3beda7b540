----------------------------- MODULE HttpParser -----------------------------
(***************************************************************************)
(* The request parser of HTTPConnection: ReceiveMessage, which appends     *)
(* what one recv returns to read_buffer_, and AnalysisRequestMessage with  *)
(* its two machines, CutLine, which finds the end of the next line, and    *)
(* AnalysisLine, AnalysisHead and AnalysisBody, which use it.  A request   *)
(* comes in pieces, cut anywhere, and the parser keeps its place between   *)
(* two pieces; Init puts everything back for the next request of the       *)
(* connection.                                                             *)
(*                                                                         *)
(* A byte is CR, LF, a byte of data, or a byte of the text of some line,   *)
(* which is then named for the line: a text is Size(name) times its name,  *)
(* so that a part of a text is not mistaken for the whole.  Indices count  *)
(* from 0 as in the code.  The zero bytes that CutLine writes over CR LF   *)
(* only end the text for its reader, and are left out.                     *)
(***************************************************************************)
EXTENDS Integers, Sequences, FiniteSets, SequencesExt

CONSTANTS
  Request,       \* what clients send: [method, headers, upload, data]
  Data,          \* bytes of data
  TextSize,      \* bytes in the text of each line without its line end
  BoundarySize,  \* bytes of boundary_
  BufferSize,    \* read_buffer_max_len_
  MaxPieces      \* bound: pieces in which one request is received

Method == {"GET", "POST", "PUT"}
Header == {"host", "keep-alive", "length", "multipart"}

ASSUME BoundAssumption == BufferSize \in Nat /\ MaxPieces \in Nat \ {0}
ASSUME SizeAssumption ==
  /\ TextSize \in [Method \union Header \union {"filename"} -> Nat \ {0}]
  /\ BoundarySize \in Nat

VARIABLES
  phase,               \* "read" (waits for EPOLLIN), "parse", "answer", "closed"
  wire,                \* what the client has sent and recv has not returned
  read_buffer,         \* of length read_next_idx_
  main_next_idx, sub_next_idx,
  main_machine_state,  \* "LINE", "HEAD", "BODY", "OVER"
  method,              \* method_, which Init leaves alone
  linger_, body_length,
  boundary,            \* whether boundary_ is set
  blank_count, start_boundary, mines_count, upload_file_name,
  outcome,             \* what AnalysisRequestMessage decided, and on what body
  sent,                \* history: the request the client sent last
  cuts,                \* history: read_next_idx_ after each piece of it
  leftover             \* history: an earlier request was answered before it was read

place == <<main_next_idx, sub_next_idx, main_machine_state>>
head  == <<method, linger_, body_length, boundary, blank_count, start_boundary,
           mines_count, upload_file_name>>
ghost == <<sent, cuts, leftover>>
parserVars == <<phase, wire, read_buffer, place, head, outcome, ghost>>

-----------------------------------------------------------------------------
(* What a client sends.                                                    *)
CR == "\r"
LF == "\n"

(* "--", the boundary, and "--" again after the last part.                 *)
Size(name) == CASE name = "boundary" -> 2 + BoundarySize
                [] name = "trailer"  -> 2 + BoundarySize + 2
                [] OTHER             -> TextSize[name]
TextOf(name)   == [i \in 1 .. Size(name) |-> name]
Line(name)   == TextOf(name) \o <<CR, LF>>

(* The first lines of a request: none, one, and so on, and all of them.    *)
FirstLines(names) ==
  LET upTo[i \in 0 .. Len(names)] == IF i = 0 THEN <<>> ELSE upTo[i - 1] \o Line(names[i])
  IN  upTo
Lines(names) == FirstLines(names)[Len(names)]

Body(r) == IF r.upload
           THEN Lines(<<"boundary", "filename">>) \o <<CR, LF>> \o r.data
                \o <<CR, LF>> \o Line("trailer")
           ELSE r.data
HeadBytes(r) == Lines(<<r.method>> \o r.headers) \o <<CR, LF>>
Bytes(r) == HeadBytes(r) \o Body(r)

(* Browsers announce the length of what they send, and a multipart body    *)
(* where there is one; the data of a form or of a file may be anything.    *)
ASSUME RequestAssumption ==
  \A r \in Request :
    /\ r.method \in Method /\ r.headers \in Seq(Header) /\ r.data \in Seq(Data)
    /\ r.upload = ("multipart" \in Range(r.headers))
    /\ r.upload => r.method = "POST"
    /\ r.data # <<>> \/ r.upload => r.method = "POST" /\ "length" \in Range(r.headers)

-----------------------------------------------------------------------------
read_next_idx == Len(read_buffer)
Byte(i)       == read_buffer[i + 1]
Slice(from, to) == SubSeq(read_buffer, from + 1, to)  \* from included, to not

None == [code |-> "none"]
Bad  == [code |-> "BAD"]

ParserInit ==
  /\ phase = "read"
  /\ sent \in Request /\ wire = Bytes(sent)
  /\ read_buffer = <<>> /\ main_next_idx = 0 /\ sub_next_idx = 0
  /\ main_machine_state = "LINE"
  /\ method \in {"GET", "POST"}  \* never initialised
  /\ linger_ = FALSE /\ body_length = 0 /\ boundary = FALSE
  /\ blank_count = 0 /\ start_boundary = FALSE /\ mines_count = 0
  /\ upload_file_name = FALSE
  /\ outcome = None /\ cuts = {} /\ leftover = FALSE

(* ReceiveMessage: one recv, of at most what the buffer has room for.      *)
Receive(k) ==
  /\ phase = "read" /\ read_next_idx < BufferSize
  /\ k <= Len(wire) /\ k <= BufferSize - read_next_idx
  /\ Cardinality(cuts) = MaxPieces - 1 => k = Len(wire) \/ k = BufferSize - read_next_idx
  /\ read_buffer' = read_buffer \o SubSeq(wire, 1, k)
  /\ wire' = SubSeq(wire, k + 1, Len(wire))
  /\ cuts' = cuts \union {read_next_idx + k}
  /\ phase' = "parse"
  /\ UNCHANGED <<place, head, outcome, sent, leftover>>

(* The buffer is full and the request is not over: the worker closes.      *)
ReceiveNothing ==
  /\ phase = "read" /\ read_next_idx >= BufferSize /\ wire # <<>>
  /\ phase' = "closed"
  /\ UNCHANGED <<wire, read_buffer, place, head, outcome, ghost>>

-----------------------------------------------------------------------------
(* CutLine: whether there is a line, where its text ends and where the     *)
(* next one begins.                                                        *)
Cut(state, end, next) == [state |-> state, end |-> end, next |-> next]

(* The bytes the scan stops at: CR, LF after CR, and any LF unless the     *)
(* request is an upload.                                                   *)
Stops == {i \in sub_next_idx .. read_next_idx - 1 :
            \/ Byte(i) = CR
            \/ Byte(i) = LF /\ (~boundary \/ (i > 1 /\ Byte(i - 1) = CR))}
CutAt(i) ==
  CASE Byte(i) = CR /\ i + 1 >= read_next_idx -> Cut("CONTINUE", i, i)
    [] Byte(i) = CR /\ i + 1 < read_next_idx  ->
         IF Byte(i + 1) = LF THEN Cut("GOOD", i, i + 2) ELSE Cut("BAD", i, i)
    [] Byte(i) = LF ->
         IF i > 1 /\ Byte(i - 1) = CR THEN Cut("GOOD", i - 1, i + 1) ELSE Cut("BAD", i, i)

(* Mutation of CutAtEnd: only line ends end a line.                        *)
CutAtEndOpen == Cut("CONTINUE", read_next_idx, read_next_idx)

(* At the end of what was read: a body that has its length is a line.      *)
CutAtEnd ==
  Cut(IF method = "POST" /\ read_next_idx - main_next_idx = body_length
      THEN "GOOD" ELSE "CONTINUE", read_next_idx, read_next_idx)

CutLine ==
  IF read_next_idx < body_length THEN Cut("CONTINUE", sub_next_idx, sub_next_idx)
  ELSE IF blank_count = 2 THEN Cut("GOOD", read_next_idx, read_next_idx)
  ELSE IF Stops = {} THEN CutAtEnd
  ELSE CutAt(Min(Stops))

-----------------------------------------------------------------------------
(* AnalysisRequestMessage: one round of its loop is a step.                *)
Decide(result) == phase' = "answer" /\ outcome' = result
Continue       == phase' = "parse" /\ UNCHANGED outcome
Wait           == phase' = "read" /\ UNCHANGED outcome

Good(content) ==
  [code |-> "GOOD", method |-> method, linger |-> linger_, body |-> content,
   file |-> upload_file_name]

NotALine ==
  /\ phase = "parse" /\ CutLine.state # "GOOD"
  /\ sub_next_idx' = CutLine.next
  /\ IF CutLine.state = "BAD" THEN Decide(Bad) ELSE Wait
  /\ UNCHANGED <<wire, read_buffer, main_next_idx, main_machine_state, head, ghost>>

(* A line was cut in this state of the main machine, and is its text.      *)
HasLine(state) == /\ phase = "parse" /\ main_machine_state = state
                  /\ CutLine.state = "GOOD" /\ sub_next_idx' = CutLine.next
CutText == Slice(main_next_idx, CutLine.end)

AnalysisLine ==
  /\ HasLine("LINE")
  /\ \/ /\ \E m \in {"GET", "POST"} : CutText = TextOf(m) /\ method' = m
        /\ main_machine_state' = "HEAD" /\ main_next_idx' = CutLine.next
        /\ Continue
     \/ /\ CutText \notin {TextOf("GET"), TextOf("POST")}
        /\ Decide(Bad)
        /\ UNCHANGED <<method, main_machine_state, main_next_idx>>
  /\ UNCHANGED <<wire, read_buffer, linger_, body_length, boundary, blank_count,
                 start_boundary, mines_count, upload_file_name, ghost>>

(* From the line with the boundary on, every line counts as no data.       *)
CountMines ==
  /\ start_boundary' = (start_boundary \/ (boundary /\ CutText = TextOf("boundary")))
  /\ mines_count' = mines_count + IF start_boundary' THEN Len(CutText) + 2 ELSE 0

(* AnalysisHead on a line with text: a line it does not know changes       *)
(* nothing.                                                                *)
AnalysisHeader ==
  /\ HasLine("HEAD") /\ CutText # <<>>
  /\ CountMines
  /\ linger_' = (linger_ \/ CutText = TextOf("keep-alive"))
  /\ body_length' = IF CutText = TextOf("length") THEN Len(Body(sent)) ELSE body_length
  /\ boundary' = (boundary \/ CutText = TextOf("multipart"))
  /\ upload_file_name' = (upload_file_name \/ CutText = TextOf("filename"))
  /\ main_next_idx' = CutLine.next
  /\ Continue
  /\ UNCHANGED <<wire, read_buffer, main_machine_state, method, blank_count, ghost>>

(* AnalysisHead on an empty line: the head is over, save that the first    *)
(* one of an upload is followed by the head of the part.                   *)
AnalysisBlank ==
  /\ HasLine("HEAD") /\ CutText = <<>>
  /\ CountMines
  /\ blank_count' = blank_count + 1
  /\ \/ /\ blank_count' = 1 /\ boundary
        /\ main_next_idx' = CutLine.next
        /\ Continue
        /\ UNCHANGED main_machine_state
     \/ /\ ~(blank_count' = 1 /\ boundary) /\ method = "POST"
        /\ main_machine_state' = "BODY" /\ main_next_idx' = CutLine.next
        /\ Continue
     \/ /\ ~(blank_count' = 1 /\ boundary) /\ method = "GET"
        /\ main_machine_state' = "OVER"
        /\ Decide(Good(<<>>))
        /\ UNCHANGED main_next_idx
  /\ UNCHANGED <<wire, read_buffer, method, linger_, body_length, boundary,
                 upload_file_name, ghost>>

(* Mutation of Trailer: without the last line end.                         *)
TrailerUnended == 2 + 2 + BoundarySize + 2

(* What follows the data of an upload: CR LF, the boundary between two     *)
(* pairs of dashes, CR LF.                                                 *)
Trailer == 2 + 2 + BoundarySize + 2 + 2

(* AnalysisBody.  An upload takes body_length_ bytes of the buffer, which  *)
(* is zero after the bytes that were read; a form must have its length.    *)
AnalysisBody ==
  LET mines   == mines_count + IF start_boundary THEN Trailer ELSE 0
      upload  == boundary /\ blank_count = 2
      rest    == body_length - mines
      data    == [i \in 1 .. rest |-> IF main_next_idx + i <= read_next_idx
                                      THEN read_buffer[main_next_idx + i] ELSE "0"]
      content == Slice(main_next_idx, CutLine.next)
  IN
  /\ HasLine("BODY")
  /\ mines_count' = mines /\ start_boundary' = FALSE
  /\ \/ /\ upload
        /\ main_machine_state' = "OVER" /\ body_length' = rest
        /\ Decide(Good(data))
     \/ /\ ~upload /\ Len(content) = body_length
        /\ main_machine_state' = "OVER" /\ UNCHANGED body_length
        /\ Decide(Good(content))
     \/ /\ ~upload /\ Len(content) # body_length
        /\ Wait
        /\ UNCHANGED <<main_machine_state, body_length>>
  /\ UNCHANGED <<wire, read_buffer, main_next_idx, method, linger_, boundary, blank_count,
                 upload_file_name, ghost>>

-----------------------------------------------------------------------------
(* Mutation of Reinit: the count of empty lines stays.                     *)
ReinitKeepsBlanks ==
  /\ read_buffer' = <<>> /\ main_next_idx' = 0 /\ sub_next_idx' = 0
  /\ main_machine_state' = "LINE"
  /\ linger_' = FALSE /\ body_length' = 0 /\ boundary' = FALSE
  /\ start_boundary' = FALSE /\ mines_count' = 0
  /\ upload_file_name' = FALSE
  /\ UNCHANGED <<method, blank_count>>

(* HTTPConnection::Init: everything but the method as in the beginning.    *)
Reinit ==
  /\ read_buffer' = <<>> /\ main_next_idx' = 0 /\ sub_next_idx' = 0
  /\ main_machine_state' = "LINE"
  /\ linger_' = FALSE /\ body_length' = 0 /\ boundary' = FALSE
  /\ blank_count' = 0 /\ start_boundary' = FALSE /\ mines_count' = 0
  /\ upload_file_name' = FALSE
  /\ UNCHANGED method

(* The response has been written: the connection is kept, and the client   *)
(* sends its next request, or it is closed.                                *)
Answer ==
  /\ phase = "answer"
  /\ \/ /\ linger_
        /\ phase' = "read" /\ outcome' = None /\ cuts' = {}
        /\ Reinit
        /\ leftover' = (leftover \/ wire # <<>>)
        /\ sent' \in Request /\ wire' = wire \o Bytes(sent')
     \/ /\ ~linger_
        /\ phase' = "closed"
        /\ UNCHANGED <<wire, read_buffer, place, head, outcome, ghost>>

ParserNext ==
  \/ \E k \in 1 .. BufferSize : Receive(k)
  \/ ReceiveNothing
  \/ NotALine \/ AnalysisLine \/ AnalysisHeader \/ AnalysisBlank \/ AnalysisBody
  \/ Answer

ParserSpec == ParserInit /\ [][ParserNext]_parserVars

-----------------------------------------------------------------------------
(* What the program must satisfy.                                          *)

(* The positions lie in the order main, sub, read and within the buffer.   *)
ParserTypeOK ==
  /\ phase \in {"read", "parse", "answer", "closed"}
  /\ main_machine_state \in {"LINE", "HEAD", "BODY", "OVER"}
  /\ method \in {"GET", "POST"}
  /\ {linger_, boundary, start_boundary, upload_file_name, leftover} \subseteq BOOLEAN
  /\ read_next_idx <= BufferSize
  /\ main_next_idx \in 0 .. sub_next_idx /\ sub_next_idx \in 0 .. read_next_idx
  /\ body_length \in Int /\ mines_count \in Nat /\ blank_count \in 0 .. 2
  /\ sent \in Request /\ cuts \subseteq 1 .. BufferSize

(* What reading the request whole would give.                              *)
Expected(r) ==
  IF r.method = "PUT" THEN Bad
  ELSE [code |-> "GOOD", method |-> r.method,
        linger |-> "keep-alive" \in Range(r.headers), body |-> r.data, file |-> r.upload]

(* Two kinds of cut change the outcome.  Of a POST, a piece that ends in   *)
(* the text of a header (or just before it), Content-Length bytes into it: *)
(* CutLine takes that part for a line (HTTPConnection.cpp:44); before the  *)
(* Content-Length header the number is 0, and an empty line ends the head. *)
TakenForALine(r, c) ==
  \E i \in 0 .. Len(r.headers) :
    LET before == SubSeq(r.headers, 1, i)
        start  == Len(FirstLines(<<r.method>> \o r.headers)[i + 1])
        size   == IF i = Len(r.headers) THEN 0 ELSE Size(r.headers[i + 1])
        length == IF "length" \in Range(before) THEN Len(Body(r)) ELSE 0
    IN  c - start = length /\ c \in start .. start + size

(* Of an upload, a piece that brings the bytes received, those of the head *)
(* included, to Content-Length (HTTPConnection.cpp:14), when the head of   *)
(* the part is complete.                                                   *)
TakenForAll(r, c) ==
  /\ r.upload
  /\ c >= Len(Body(r))
  /\ c >= Len(HeadBytes(r)) + Len(Lines(<<"boundary", "filename">>)) + 2

Harmless(r, c) ==
  \/ r.method # "POST" \/ c >= Len(Bytes(r))
  \/ ~TakenForALine(r, c) /\ ~TakenForAll(r, c)

(* Forms are sent URL-encoded, so that their data has no line ends; CutLine*)
(* would end the body there.                                               *)
Encoded(r) == r.upload \/ Range(r.data) \intersect {CR, LF} = {}

(* A GET request has the outcome that reading it whole would have, however *)
(* it is cut and whatever the connection has received before it, and is    *)
(* answered when it has been read to its end.                              *)
GetAsSent ==
  phase = "answer" /\ sent.method # "POST" /\ ~leftover
    => outcome = Expected(sent) /\ (wire = <<>> \/ outcome = Bad)

(* So have an encoded form and an upload, unless one of the two kinds of   *)
(* cut occurs.  (README.md:8 says that an upload is received again and     *)
(* again until all of Content-Length is there.)                            *)
PostAsSent ==
  phase = "answer" /\ sent.method = "POST" /\ ~leftover
  /\ Encoded(sent) /\ (\A c \in cuts : Harmless(sent, c))
    => outcome = Expected(sent) /\ wire = <<>>

(* Process waits for more only if there is more: a connection whose client *)
(* has sent a whole request is not put back to wait, unless one of the two *)
(* kinds of cut has occurred or the data is a form's that is not encoded.  *)
NeverWaitsInVain ==
  /\ ParserTypeOK
  /\ phase = "read" /\ wire = <<>> /\ ~leftover
       => ~Encoded(sent) \/ \E c \in cuts : ~Harmless(sent, c)
=============================================================================
