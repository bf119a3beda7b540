--------------------------- MODULE ResponseWriter ---------------------------
(***************************************************************************)
(* How a connection answers: the end of ConstructorHtml and Construct-     *)
(* Response, which choose the file, map it and fill the vectors of iov_,   *)
(* and WriteHTTPMessage with UpdateIov, which hands them to writev until   *)
(* nothing is left.  Meanwhile other connections change the file.          *)
(*                                                                         *)
(* Bytes are counted, not named.  A byte is where it stands in the answer, *)
(* `at` is how many have left in their order, and -1 when one came out of  *)
(* its turn.  What a name stands for is an inode, a regular file with its  *)
(* size or a directory; pages of a mapping beyond the file's present end   *)
(* cannot be read, nor can a mapping that failed.  Header and script fit   *)
(* in their buffers; those are not followed.                               *)
(***************************************************************************)
EXTENDS Integers

CONSTANTS
  HeadSize,  \* bytes of status line and headers
  Text,      \* bytes of the body of an error answer
  Page,      \* bytes of an HTML page
  Script,    \* bytes of the script that ends the page of a directory
  FileSize,  \* the sizes a user's file can have
  Inode,     \* identities of what users' names stand for
  Directory  \* those that are directories

ASSUME PartsAssumption ==
  /\ HeadSize \in Nat \ {0} /\ Text \in Nat \ {0} /\ Page \in Nat \ {0}
  /\ Script \in Nat \ {0} /\ FileSize \subseteq Nat /\ FileSize # {}
ASSUME InodeAssumption == Inode \subseteq Nat \ {0} /\ Inode # {} /\ Directory \subseteq Inode

VARIABLES
  pc,         \* stage of the connection
  code,       \* the RESPONSE_CODE of the request in hand
  misnamed,   \* response_file_path_ names no page, but a page and a rest
  linger,     \* linger_
  stat,       \* response_file_stat_.st_size
  map,        \* map_response_file_address_: what it maps
  base, len,  \* iov_: bytes of each part behind iov_base, and iov_len
  count,      \* iov_count_
  toSend,     \* byte_to_send
  file,       \* inode the requested name stands for, 0 when there is none
  size,       \* size of each regular file
  gone,       \* the peer has left
  announced,  \* history: bytes the headers promise, their own included
  whole,      \* history: the parts of the answer when it was made
  at,         \* history: bytes sent in order
  changed,    \* history: the file changed during this request
  failed      \* history: writev failed on the present mapping

request == <<code, misnamed, linger>>
loaded  == <<stat, map>>
iov     == <<base, len, count, toSend>>
disk    == <<file, size, gone, changed>>
seen    == <<announced, whole, at>>
vars    == <<pc, request, loaded, iov, disk, seen, failed>>

Part     == 1 .. 3
Regular  == Inode \ Directory
PageFile == -2                            \* stands for the server's own pages
NoMap    == [of |-> 0, code |-> "OK"]     \* address 0, or never set
BadMap   == [of |-> -1, code |-> "OK"]    \* MAP_FAILED

(* Codes by what is mapped for them and when.                              *)
PageCode == {"OK", "DISK_HTML", "FORBIDDEN"}
FileCode == {"RESOURCE_HTML", "DOWNLOAD"}
BareCode == {"BAD_RESPONSE", "NOT_FOUND"}
Code     == PageCode \union FileCode \union BareCode

Least(m, n)  == IF m < n THEN m ELSE n
Ahead(f, i)  == (IF i > 1 THEN f[1] ELSE 0) + (IF i > 2 THEN f[2] ELSE 0)
Total(f, n)  == Ahead(f, n) + f[n]   \* of the first n parts

Init ==
  /\ pc = "closed" /\ code = "OK" /\ misnamed = FALSE /\ linger = FALSE
  /\ stat \in FileSize /\ map = NoMap
  /\ base = [i \in Part |-> 0] /\ len = [i \in Part |-> 0]
  /\ count = 1 /\ toSend = 0
  /\ file \in Inode \union {0} /\ size \in [Regular -> FileSize]
  /\ gone = FALSE /\ changed = FALSE /\ failed = FALSE
  /\ announced = 0 /\ whole = [i \in Part |-> 0] /\ at = 0

-----------------------------------------------------------------------------
(* Establish: a new connection in the slot; it resets no mapping.          *)
Establish ==
  /\ pc = "closed" /\ pc' = "idle"
  /\ linger' = FALSE /\ gone' = FALSE
  /\ UNCHANGED <<code, misnamed, loaded, iov, file, size, changed, seen, failed>>

(* Process: a request is parsed, its code decided.  ConstructorHtml        *)
(* loads a page or a resource, ConstructResponse a download.  The name of  *)
(* a page is copied without its end: when the request's own page has gone  *)
(* there before and is longer, as for a login that succeeds by a POST of   *)
(* /login.html, what is left of that name follows.                         *)
Renamed == {"OK", "DISK_HTML"}

Process(c, l) ==
  /\ pc = "idle"
  /\ code' = c /\ linger' = l /\ changed' = FALSE
  /\ misnamed' \in IF c \in Renamed THEN BOOLEAN ELSE {FALSE}
  /\ pc' = IF c \in BareCode THEN "respond" ELSE "stat"
  /\ UNCHANGED <<loaded, iov, file, size, gone, seen, failed>>

(* Mutation of Stat: the length of a file is not asked for.                *)
StatPagesOnly ==
  /\ pc = "stat" /\ pc' = "map"
  /\ stat' = IF code \in PageCode /\ ~misnamed THEN Page ELSE stat
  /\ UNCHANGED <<request, map, iov, disk, seen, failed>>

(* stat(2) leaves response_file_stat_ alone when there is no such file; a  *)
(* directory's size is any.                                                *)
Stat ==
  /\ pc = "stat" /\ pc' = "map"
  /\ stat' \in CASE code \in PageCode /\ ~misnamed         -> {Page}
                 [] code \in FileCode /\ file \in Regular   -> {size[file]}
                 [] code \in FileCode /\ file \in Directory -> FileSize
                 [] OTHER                                   -> {stat}
  /\ UNCHANGED <<request, map, iov, disk, seen, failed>>

(* open, mmap, close: what is gone, what has no bytes and what is a        *)
(* directory cannot be mapped.                                             *)
Map ==
  /\ pc = "map" /\ pc' = "respond"
  /\ map' = CASE code \in PageCode /\ ~misnamed -> [of |-> PageFile, code |-> code]
              [] code \in FileCode /\ file \in Regular /\ stat > 0
                   -> [of |-> file, code |-> code]
              [] OTHER -> BadMap
  /\ failed' = FALSE
  /\ UNCHANGED <<request, stat, iov, disk, seen>>

(* ConstructResponse: which vectors it sets, and to what.                  *)
Parts(c) == CASE c = "DISK_HTML" -> 3 [] c \in {"OK"} \union FileCode -> 2 [] OTHER -> 1
Filled(parts) == [i \in Part |-> CASE i = 1 -> IF parts = 1 THEN HeadSize + Text ELSE HeadSize
                                   [] i = 2 -> stat [] i = 3 -> Script]

(* The header announces a length, the vectors are set and byte_to_send is  *)
(* computed, each on its own.                                              *)
Respond ==
  /\ pc = "respond" /\ pc' = "write"
  /\ LET parts == Parts(code) IN
     /\ announced' = HeadSize + (CASE parts = 3 -> stat + Script [] parts = 2 -> stat [] OTHER -> Text)
     /\ toSend' = CASE parts = 3 -> HeadSize + stat + Script
                    [] parts = 2 -> HeadSize + stat [] OTHER -> HeadSize + Text
     /\ len' = [i \in Part |-> IF i <= parts THEN Filled(parts)[i] ELSE len[i]]
     /\ base' = [i \in Part |-> IF i <= parts THEN 0 ELSE base[i]]
     /\ count' = parts /\ whole' = Filled(parts)
  /\ at' = 0
  /\ UNCHANGED <<request, loaded, disk, failed>>

-----------------------------------------------------------------------------
(* The kernel's side of writev.  It takes the first bytes of the vectors,  *)
(* as many as it likes, but none behind one that cannot be read; a failed  *)
(* mapping fails the call, whatever stands before it.                      *)
Piece(i, n) == IF n > Ahead(len, i) THEN Least(len[i], n - Ahead(len, i)) ELSE 0

Readable ==
  IF count = 1 \/ map.of = PageFile THEN Total(len, count)
  ELSE IF map = BadMap THEN 0
  ELSE IF base[2] + len[2] <= size[map.of] THEN Total(len, count)
  ELSE len[1] + (IF base[2] < size[map.of] THEN size[map.of] - base[2] ELSE 0)

InTurn(n) ==
  /\ at >= 0
  /\ \A i \in 1 .. count :
       Piece(i, n) > 0 => Ahead(whole, i) + base[i] = at + Ahead(len, i)

(* Mutation of Used: every part is advanced by what the call took.         *)
UsedByAll(i, n) == IF i <= count THEN Least(len[i], n) ELSE 0

(* UpdateIov: bytes of part i that are behind it now, n being distributed  *)
(* over the parts from the first.                                          *)
Used(i, n) ==
  LET u1 == Least(len[1], n)
      u2 == IF count > 1 THEN Least(len[2], n - u1) ELSE 0
      u3 == IF count > 2 THEN Least(len[3], n - u1 - u2) ELSE 0
  IN CASE i = 1 -> u1 [] i = 2 -> u2 [] i = 3 -> u3

(* Mutation of Release: the mapping is kept with the connection.           *)
ReleaseAtEnd == map' = IF count > 1 /\ ~linger THEN NoMap ELSE map

(* The end of WriteHTTPMessage: munmap for an answer of several parts.     *)
Release == map' = IF count > 1 THEN NoMap ELSE map

(* One round of WriteHTTPMessage in which the socket takes n bytes.        *)
Write(n) ==
  /\ pc = "write" /\ ~gone /\ n \in 1 .. Readable
  /\ toSend' = toSend - n
  /\ base' = [i \in Part |-> base[i] + Used(i, n)]
  /\ len' = [i \in Part |-> len[i] - Used(i, n)]
  /\ at' = IF InTurn(n) THEN at + n ELSE -1
  /\ IF toSend - n > 0
       THEN UNCHANGED <<pc, map, linger>>
       ELSE /\ Release
            /\ pc' = IF linger THEN "idle" ELSE "closed"
            /\ linger' = FALSE
  /\ UNCHANGED <<code, misnamed, stat, count, disk, announced, whole, failed>>

(* writev fails: the connection is closed and nothing released.            *)
WriteFail ==
  /\ pc = "write" /\ pc' = "closed"
  /\ gone \/ Readable < Total(len, count)
  /\ failed' = TRUE
  /\ UNCHANGED <<request, loaded, iov, disk, seen>>

-----------------------------------------------------------------------------
(* Others: the peer leaves; another connection writes the file, removes    *)
(* it, or makes a new one or a directory of the same name.                 *)
Leave == ~gone /\ gone' = TRUE
         /\ UNCHANGED <<pc, request, loaded, iov, file, size, changed, seen, failed>>

Resize(s) == file \in Regular /\ size' = [size EXCEPT ![file] = s] /\ UNCHANGED file
Unlink    == file # 0 /\ file' = 0 /\ UNCHANGED size
Create(i, s) == file = 0 /\ map.of # i /\ file' = i /\ size' = [size EXCEPT ![i] = s]
Enclose   == file = 0 /\ file' \in Directory /\ UNCHANGED size

Change ==
  /\ \/ \E s \in FileSize : Resize(s)
     \/ Unlink
     \/ Enclose
     \/ \E i \in Regular, s \in FileSize : Create(i, s)
  /\ changed' = TRUE
  /\ UNCHANGED <<pc, request, loaded, iov, gone, seen, failed>>

Next ==
  \/ Establish \/ Stat \/ Map \/ Respond \/ WriteFail \/ Leave \/ Change
  \/ \E c \in Code, l \in BOOLEAN : Process(c, l)
  \/ \E n \in 1 .. HeadSize + Text + Page + Script + stat : Write(n)

Spec == Init /\ [][Next]_vars

-----------------------------------------------------------------------------
TypeOK ==
  /\ pc \in {"closed", "idle", "stat", "map", "respond", "write"}
  /\ code \in Code /\ misnamed \in BOOLEAN /\ linger \in BOOLEAN
  /\ stat \in Nat
  /\ map \in {NoMap, BadMap}
       \union [of : Regular \union {PageFile}, code : PageCode \union FileCode]
  /\ base \in [Part -> Nat] /\ len \in [Part -> Nat] /\ whole \in [Part -> Nat]
  /\ count \in Part /\ toSend \in Nat /\ announced \in Nat /\ at \in Nat
  /\ file \in Inode \union {0} /\ size \in [Regular -> FileSize]
  /\ gone \in BOOLEAN /\ changed \in BOOLEAN /\ failed \in BOOLEAN

(* While an answer is being written, the vectors hold exactly what is left *)
(* of it: each part is used up before the next is begun, and the counter   *)
(* that ends the loop is what the vectors hold and the header promised.    *)
Accounted ==
  pc = "write" =>
    /\ \A i \in 1 .. count : base[i] + len[i] = whole[i]
    /\ \A i, j \in 1 .. count : i < j /\ base[j] > 0 => len[i] = 0
    /\ toSend = Total(len, count) /\ toSend > 0
    /\ announced = Total(whole, count)
    /\ at = Total(base, count)

(* The client gets what it may expect of a stream of answers.              *)
Stream == INSTANCE ByteStream WITH
  phase  <- IF pc = "closed" THEN "over" ELSE IF pc = "write" THEN "answering" ELSE "idle",
  length <- announced,
  sent   <- at
ImplementsStream == Stream!Spec

(* Although stat, open and mmap go unchecked, an answer fails for want of  *)
(* readable bytes only if it carries a file that is missing, empty or a    *)
(* directory or that changed meanwhile, or a page whose name was written   *)
(* over a longer one; and the page of a refusal never does.                *)
Unmappable == file \in Regular => size[file] = 0
UnreadableExplained ==
  pc = "write" /\ Readable < Total(len, count)
    => \/ code \in FileCode /\ (changed \/ Unmappable)
       \/ code \in Renamed /\ misnamed

(* Between requests a mapping is left only by an answer that writev failed *)
(* on, or by a FORBIDDEN page, which is mapped and then not sent.          *)
Released ==
  pc \in {"idle", "closed"} /\ map \notin {NoMap, BadMap} =>
    failed \/ map.code = "FORBIDDEN"

(* An answer that is sent to its end carries the whole of the file, and    *)
(* none of an earlier one whose length was still in response_file_stat_,   *)
(* unless the file changed during the request.                             *)
WholeFile ==
  [][pc = "write" /\ pc' # "write" /\ ~failed' /\ code \in FileCode /\ ~changed
       => file \in Regular /\ whole[2] = size[file]]_vars
=============================================================================
