-------------------------- MODULE FileSpaceProofs ---------------------------
(***************************************************************************)
(* Proofs about module FileSpace, for any tree over any set of paths, any  *)
(* users and connections and any number of requests: what a link of the    *)
(* present page does, whose files a request changes, and whose bytes it    *)
(* takes.                                                                  *)
(***************************************************************************)
EXTENDS FileSpace, SequenceTheorems, TLAPS

(* A path as a sequence of names, one as it may be spelled, and p is q or  *)
(* below it.                                                               *)
AnyPath  == Seq(User)
Spelling == Seq(User \union Dots)
Within(p, q) == Len(q) <= Len(p) /\ \A i \in 1 .. Len(q) : p[i] = q[i]

(* p is the home of c's user or below it.                                  *)
Mine(c, p) == p \in AnyPath /\ p # Root /\ p[1] = owner[c]

-----------------------------------------------------------------------------
(* Root is the path without names.                                         *)
LEMMA Lengths ==
  ASSUME NEW p \in AnyPath
  PROVE  /\ Len(p) \in Nat /\ (p = Root <=> Len(p) = 0)
         /\ Root \in AnyPath /\ Len(Root) = 0
BY EmptySeq, LenProperties DEF AnyPath, Root

(* Front takes one name off the end.                                       *)
LEMMA FrontOf ==
  ASSUME NEW p \in AnyPath, p # Root
  PROVE  /\ Front(p) \in AnyPath /\ Len(p) = Len(Front(p)) + 1
         /\ Front(p) = SubSeq(p, 1, Len(p) - 1)
         /\ \A i \in 1 .. Len(Front(p)) : Front(p)[i] = p[i]
         /\ Last(p) \in User /\ Within(p, Front(p))
<1>1. Len(p) \in Nat \ {0}
  BY EmptySeq DEF AnyPath, Root
<1>2. \A i \in 1 .. Len(p) - 1 : p[i] \in User
  BY <1>1, ElementOfSeq DEF AnyPath
<1>3. /\ Front(p) \in AnyPath /\ Len(p) = Len(Front(p)) + 1
      /\ \A i \in 1 .. Len(Front(p)) : Front(p)[i] = p[i]
  <2> DEFINE q == SubSeq(p, 1, Len(p) - 1)
  <2>1. /\ q \in Seq(User)
        /\ Len(q) = IF 1 <= Len(p) - 1 THEN Len(p) - 1 ELSE 0
        /\ \A i \in 1 .. Len(p) - 1 : q[i] = p[1 + i - 1]
    BY <1>1, <1>2, SubSeqProperties
  <2>2. Front(p) = q
    BY DEF Front
  <2> HIDE DEF q
  <2>3. Len(q) = Len(p) - 1
    <3> DEFINE n == Len(p)
               m == Len(q)
    <3>1. n \in Nat \ {0} /\ m = IF 1 <= n - 1 THEN n - 1 ELSE 0
      BY <1>1, <2>1
    <3> HIDE DEF n, m
    <3>2. m = n - 1
      BY <3>1
    <3> QED BY <3>2 DEF n, m
  <2> QED BY <1>1, <2>1, <2>2, <2>3 DEF AnyPath
<1>4. Last(p) \in User
  BY <1>1, ElementOfSeq DEF Last, AnyPath
<1> QED BY <1>1, <1>3, <1>4 DEF Within, Front

(* Append puts one on.                                                     *)
LEMMA AppendOf ==
  ASSUME NEW p \in AnyPath, NEW u \in User
  PROVE  /\ Append(p, u) \in AnyPath /\ Append(p, u) # Root
         /\ Len(Append(p, u)) = Len(p) + 1
         /\ Front(Append(p, u)) = p /\ Last(Append(p, u)) = u
         /\ \A i \in 1 .. Len(p) : Append(p, u)[i] = p[i]
         /\ Append(p, u)[Len(p) + 1] = u
<1>1. /\ Append(p, u) \in AnyPath /\ Len(Append(p, u)) = Len(p) + 1
      /\ \A i \in 1 .. Len(p) : Append(p, u)[i] = p[i]
      /\ Append(p, u)[Len(p) + 1] = u
  <2>1. Append(p, u) \in Seq(User) /\ Len(Append(p, u)) = Len(p) + 1 /\ Len(p) \in Nat
    BY DEF AnyPath
  <2>2. \A i \in 1 .. Len(p) : Append(p, u)[i] = p[i]
    BY DEF AnyPath
  <2>3. Append(p, u)[Len(p) + 1] = u
    BY DEF AnyPath
  <2> QED BY <2>1, <2>2, <2>3 DEF AnyPath
<1>2. Append(p, u) # Root
  BY <1>1, Lengths
<1>3. Front(Append(p, u)) = p
  <2> DEFINE q == Append(p, u)
  <2> HIDE DEF q
  <2>1. /\ q \in AnyPath /\ q # Root /\ Len(q) = Len(p) + 1
        /\ \A i \in 1 .. Len(p) : q[i] = p[i]
    BY <1>1, <1>2 DEF q
  <2>2. /\ Front(q) \in AnyPath /\ Len(q) = Len(Front(q)) + 1
        /\ \A i \in 1 .. Len(Front(q)) : Front(q)[i] = q[i]
    BY <2>1, FrontOf
  <2>3. Len(Front(q)) = Len(p) /\ \A i \in 1 .. Len(p) : Front(q)[i] = p[i]
    BY <2>1, <2>2, Lengths
  <2>4. Front(q) = p
    BY <2>2, <2>3, SeqEqual DEF AnyPath
  <2> QED BY <2>4 DEF q
<1> QED BY <1>1, <1>2, <1>3 DEF Last

(* A path other than the root is its front and its last name.              *)
LEMMA FrontAndLast ==
  ASSUME NEW p \in AnyPath, p # Root
  PROVE  Append(Front(p), Last(p)) = p
<1> DEFINE q == Append(Front(p), Last(p))
<1>1. /\ Front(p) \in AnyPath /\ Len(p) = Len(Front(p)) + 1 /\ Last(p) \in User
      /\ \A i \in 1 .. Len(Front(p)) : Front(p)[i] = p[i]
  BY FrontOf
<1>2. /\ q \in AnyPath /\ Len(q) = Len(p)
      /\ \A i \in 1 .. Len(Front(p)) : q[i] = Front(p)[i]
      /\ q[Len(Front(p)) + 1] = Last(p)
  BY <1>1, AppendOf
<1>3. \A i \in 1 .. Len(q) : q[i] = p[i]
  <2> SUFFICES ASSUME NEW i \in 1 .. Len(q) PROVE q[i] = p[i]
    OBVIOUS
  <2> HIDE DEF q
  <2>1. CASE i \in 1 .. Len(Front(p))
    BY <2>1, <1>1, <1>2
  <2>2. CASE i = Len(p)
    BY <2>2, <1>1, <1>2 DEF Last
  <2> QED BY <2>1, <2>2, <1>1, <1>2, Lengths
<1> QED BY <1>2, <1>3, SeqEqual DEF AnyPath

(* A path is one that may be spelled, and the front of such a path, too.   *)
LEMMA Spelled ==
  AnyPath \subseteq Spelling /\ Root \in Spelling /\ Root \in AnyPath
BY SeqMonotonic, EmptySeq DEF AnyPath, Spelling, Root

(* Front takes a part off, whatever the parts are.                         *)
LEMMA FrontSpelled ==
  ASSUME NEW p \in Spelling
  PROVE  Len(p) \in Nat /\ Front(p) \in Spelling /\ (p # Root => Front(p) # p)
<1> DEFINE n == Len(p)
<1>1. n \in Nat
  BY LenProperties DEF Spelling
<1>2. \A i \in 1 .. n - 1 : p[i] \in User \union Dots
  <2> SUFFICES ASSUME NEW i \in 1 .. n - 1 PROVE p[i] \in User \union Dots
    OBVIOUS
  <2>1. i \in 1 .. n
    BY <1>1
  <2> QED BY <2>1, ElementOfSeq DEF Spelling
<1>3. n - 1 \in Int
  BY <1>1
<1>4. /\ SubSeq(p, 1, n - 1) \in Spelling
      /\ Len(SubSeq(p, 1, n - 1)) = IF 1 <= n - 1 THEN n - 1 - 1 + 1 ELSE 0
  BY <1>2, <1>3, SubSeqProperties DEF Spelling
<1>5. n # 0 => Len(Front(p)) # n
  <2> DEFINE m == Len(Front(p))
  <2>1. m = IF 1 <= n - 1 THEN n - 1 - 1 + 1 ELSE 0
    BY <1>4 DEF Front
  <2> HIDE DEF n, m
  <2>2. n # 0 => m # n
    BY <1>1, <2>1
  <2> QED BY <2>2 DEF m, n
<1>6. p # Root => n # 0
  BY EmptySeq DEF Spelling, Root
<1> QED BY <1>1, <1>4, <1>5, <1>6 DEF Front

(* A name of one part is put on the end.                                   *)
LEMMA OnePart ==
  ASSUME NEW name \in Name, ~Slashed(name), NEW p \in Spelling
  PROVE  \E u \in User \union Dots :
           /\ p \o name = Append(p, u) /\ p \o name # Root /\ Last(p \o name) = u
           /\ name = <<u>> /\ (Simple(name) <=> u \in User)
<1> DEFINE n == Len(name)
<1>1. name \in Seq(User \union Dots) /\ name # <<>>
  BY NameAssumption
<1>2. n = 1
  <2>1. n \in Nat /\ n # 0 /\ ~(n > 1)
    BY <1>1, EmptySeq, LenProperties DEF Slashed
  <2> HIDE DEF n
  <2> QED BY <2>1
<1>3. name[1] \in User \union Dots
  BY <1>1, <1>2, ElementOfSeq
<1> DEFINE u == name[1]
<1>4. name = <<u>>
  <2>1. <<u>> \in Seq(User \union Dots) /\ Len(<<u>>) = 1 /\ <<u>>[1] = u
    BY <1>3
  <2> QED BY <1>1, <1>2, <2>1, SeqEqual
<1> HIDE DEF u
<1>5. p \o name = Append(p, u)
  BY <1>3, <1>4, AppendIsConcat DEF Spelling, u
<1>6. /\ Append(p, u) # Root /\ Len(Append(p, u)) = Len(p) + 1
      /\ Append(p, u)[Len(p) + 1] = u
  BY <1>3, AppendProperties DEF Spelling, Root, u
<1>7. Last(Append(p, u)) = u
  BY <1>6 DEF Last
<1>8. Simple(name) <=> u \in User
  BY <1>2 DEF Simple, u
<1> QED BY <1>3, <1>4, <1>5, <1>6, <1>7, <1>8 DEF u

(* What a path resolves to: itself if it is plain, and nowhere or to a     *)
(* directory if it ends in dots.                                           *)
LEMMA LeadsTo ==
  ASSUME NEW p
  PROVE  /\ Resolve(p) \in AnyPath \/ Resolve(p) = Nowhere
         /\ p \in AnyPath => Resolve(p) = p
         /\ Kind(Resolve(p)) # "none" => Resolve(p) \in Path
         /\ p # Root /\ Last(p) \in Dots => Kind(Resolve(p)) \in {"none", "dir"}
<1>1. Path \subseteq AnyPath /\ Nowhere \notin Path
  BY PathAssumption DEF AnyPath
<1>2. p \in AnyPath /\ p # Root => Last(p) \notin Dots
  BY FrontOf, NameAssumption
<1>3. CASE p \in AnyPath
  BY <1>2, <1>3 DEF Resolve, AnyPath, Kind
<1>4. CASE p \notin AnyPath
  BY <1>1, <1>4 DEF Resolve, AnyPath, Kind
<1> QED BY <1>3, <1>4

-----------------------------------------------------------------------------
(* Being below is an order, and strict between different lengths.          *)
LEMMA WithinOrder ==
  ASSUME NEW p \in AnyPath, NEW q \in AnyPath, NEW r \in AnyPath,
         Within(p, q), Within(q, r)
  PROVE  Within(p, r)
BY Lengths DEF Within

(* As long as what it is below, a path is that.                            *)
LEMMA WithinSame ==
  ASSUME NEW p \in AnyPath, NEW q \in AnyPath, Within(p, q)
  PROVE  /\ Within(p, p) /\ Len(q) <= Len(p)
         /\ (p = q <=> Len(p) = Len(q))
         /\ q # Root => p # Root /\ p[1] = q[1]
         /\ q = SubSeq(p, 1, Len(q))
<1>1. Len(p) \in Nat /\ Len(q) \in Nat
  BY Lengths
<1>2. Len(p) = Len(q) => p = q
  BY SeqEqual DEF Within, AnyPath
<1>3. q # Root => p # Root /\ p[1] = q[1]
  BY Lengths DEF Within
<1>4. q = SubSeq(p, 1, Len(q))
  <2>1. \A i \in 1 .. Len(q) : p[i] \in User
    BY <1>1, ElementOfSeq DEF AnyPath, Within
  <2>2. /\ SubSeq(p, 1, Len(q)) \in Seq(User)
        /\ Len(SubSeq(p, 1, Len(q))) = IF 1 <= Len(q) THEN Len(q) ELSE 0
        /\ \A i \in 1 .. Len(q) : SubSeq(p, 1, Len(q))[i] = p[1 + i - 1]
    BY <1>1, <2>1, SubSeqProperties
  <2>3. /\ Len(SubSeq(p, 1, Len(q))) = Len(q)
        /\ \A i \in 1 .. Len(q) : q[i] = SubSeq(p, 1, Len(q))[i]
    BY <1>1, <2>2 DEF Within
  <2> QED BY <2>2, <2>3, SeqEqual DEF AnyPath
<1> QED BY <1>1, <1>2, <1>3, <1>4 DEF Within

(* What is strictly below f has its front within f.                        *)
LEMMA WithinFront ==
  ASSUME NEW p \in AnyPath, NEW f \in AnyPath, Within(p, f), p # f
  PROVE  /\ p # Root /\ Front(p) \in AnyPath /\ Within(Front(p), f)
         /\ Len(f) < Len(p)
<1>1. Len(p) \in Nat /\ Len(f) \in Nat /\ Len(f) < Len(p)
  BY Lengths, WithinSame
<1>2. p # Root
  BY <1>1, Lengths
<1>3. /\ Front(p) \in AnyPath /\ Len(p) = Len(Front(p)) + 1
      /\ \A i \in 1 .. Len(Front(p)) : Front(p)[i] = p[i]
  BY <1>2, FrontOf
<1>4. Len(Front(p)) \in Nat
  BY <1>3, Lengths
<1> QED BY <1>1, <1>2, <1>3, <1>4 DEF Within

(* From q down to p below it there is a next path.                         *)
LEMMA NextOnWay ==
  ASSUME NEW p \in AnyPath, NEW q \in AnyPath, Within(p, q), p # q
  PROVE  \E n \in 0 .. Len(p) :
           /\ SubSeq(p, 1, n) \in AnyPath /\ SubSeq(p, 1, n) # Root
           /\ Front(SubSeq(p, 1, n)) = q /\ Within(p, SubSeq(p, 1, n))
           /\ n = Len(q) + 1
<1> DEFINE n == Len(q) + 1
           r == SubSeq(p, 1, n)
<1>1. Len(p) \in Nat /\ Len(q) \in Nat /\ Len(q) < Len(p)
  BY Lengths, WithinSame
<1>2. r \in AnyPath /\ Len(r) = n /\ \A i \in 1 .. n : r[i] = p[i]
  <2>1. \A i \in 1 .. n : p[i] \in User
    BY <1>1, ElementOfSeq DEF AnyPath
  <2>2. /\ SubSeq(p, 1, n) \in Seq(User)
        /\ Len(SubSeq(p, 1, n)) = IF 1 <= n THEN n ELSE 0
        /\ \A i \in 1 .. n : SubSeq(p, 1, n)[i] = p[1 + i - 1]
    BY <1>1, <2>1, SubSeqProperties
  <2> QED BY <1>1, <2>2 DEF AnyPath
<1> HIDE DEF r
<1>3. r # Root
  BY <1>1, <1>2, Lengths
<1>4. Front(r) = q
  <2>1. /\ Front(r) \in AnyPath /\ Len(Front(r)) = Len(q)
        /\ \A i \in 1 .. Len(Front(r)) : Front(r)[i] = r[i]
    BY <1>1, <1>2, <1>3, FrontOf, Lengths
  <2>2. \A i \in 1 .. Len(q) : Front(r)[i] = q[i]
    BY <1>1, <1>2, <2>1 DEF Within
  <2> QED BY <2>1, <2>2, SeqEqual DEF AnyPath
<1>5. Within(p, r) /\ n \in 0 .. Len(p)
  BY <1>1, <1>2 DEF Within
<1> QED BY <1>2, <1>3, <1>4, <1>5 DEF r

-----------------------------------------------------------------------------
(* The tree: every path that is there leads through directories.           *)
FilesOK ==
  /\ kind \in [Path -> {"none", "dir", "file"}] /\ kind[Root] = "dir"
  /\ \A p \in Path : kind[p] # "none" => \A n \in 0 .. Len(p) - 1 : kind[SubSeq(p, 1, n)] = "dir"
  /\ shared \subseteq {p \in Path : kind[p] # "none"}
  /\ private \subseteq {p \in Path : kind[p] = "file"}

Stage == {"idle", "opendir", "look", "act", "check", "open", "copy", "descend",
          "empty", "chmod", "page", "list", "stat", "done", "forbidden"}
Goal  == {"own", "root", "page", "listed"}
Place == {Nowhere} \union Spelling
Past  == {"shown", "stale", "disturbed", "moved"}

WorkOK ==
  /\ req \in [Conn -> [op : Op, name : Name]] /\ goal \in [Conn -> Goal]
  /\ dir \in [Conn -> Place] /\ todo \in [Conn -> SUBSET Spelling] /\ file \in [Conn -> Place]

LocalsOK ==
  /\ owner \in [Conn -> User] /\ pwd \in [Conn -> Spelling] /\ pc \in [Conn -> Stage]
  /\ WorkOK /\ state \in [Conn -> Past]
  /\ requests \in 0 .. MaxRequests /\ down \in Conn \union {NoConn}

(* InDir: which requests ask, and a walk of the user's files stays there.  *)
Walking(c) ==
  /\ pc[c] \in {"opendir", "look", "stat"} => todo[c] \subseteq Path
  /\ pc[c] = "list" => todo[c] = {}
  /\ pc[c] \in {"opendir", "look"} =>
       /\ pc[c] = "opendir" => dir[c] \in AnyPath
       /\ goal[c] = "own" =>
            /\ req[c].op \in OwnOp \union {"download2copy"}
            /\ \A p \in todo[c] : Mine(c, p)
            /\ pc[c] = "opendir" => Mine(c, dir[c])
       /\ goal[c] = "root" => req[c].op \in {"download2copy", "copy", "back", "mkdir"}

(* What the guards have found out, unless pwd_ was moved since.            *)
Guarded(c) ==
  /\ pc[c] = "act" /\ req[c].op \in OwnOp \union {"download2copy"} =>
       todo[c] = {} /\ (state[c] # "moved" => Mine(c, pwd[c]))
  /\ pc[c] = "chmod" /\ state[c] # "moved" => Mine(c, pwd[c])
  /\ pc[c] = "check" =>
       req[c].op = "download2copy" /\ (state[c] # "moved" => pwd[c] \in AnyPath)

(* DeleteDir does not leave the directory it was called for, and that is   *)
(* one of the user's, if the request does not stray.                       *)
Deleting(c) ==
  pc[c] \in {"descend", "empty"} =>
    /\ dir[c] \in Spelling
    /\ ~Strays(c) =>
         /\ dir[c] \in AnyPath /\ file[c] \in AnyPath /\ file[c] # Root
         /\ Within(dir[c], file[c]) /\ \A p \in todo[c] : p \in AnyPath /\ Within(p, file[c])
         /\ Mine(c, pwd[c]) /\ Front(file[c]) = pwd[c]

(* There is a way left, over what is not yet looked at, to where pwd_ is.  *)
OnWay(c) ==
  \/ \E q \in todo[c] : Within(pwd[c], q)
  \/ pc[c] = "opendir" /\ Within(pwd[c], dir[c]) /\ dir[c] # pwd[c]

Seeks(c) ==
  /\ pc[c] \in {"opendir", "look"}
  /\ \/ goal[c] = "own" /\ Mine(c, pwd[c]) /\ pwd[c] # Home(c)
     \/ goal[c] = "root" /\ pwd[c] # Root

(* What the page showed of the request's operation op is still so.         *)
Offered(c) ==
  /\ req[c].op \in OwnOp \ {"upload"} => Mine(c, pwd[c])
  /\ req[c].op \in {"enter", "deleteDir"} => Kind(Target(c)) = "dir"
  /\ req[c].op \in {"download2copy", "copy"} => Kind(Target(c)) # "none" /\ Target(c) \in shared
  /\ req[c].op \in {"back", "mkdir"} => pwd[c] # Root
  /\ req[c].op = "preview" => Mine(c, pwd[c]) \/ Target(c) \in shared

Shown(c) == state[c] = "shown" /\ pc[c] # "idle"

Promised(c) ==
  Shown(c) =>
    /\ Kind(pwd[c]) = "dir" /\ Simple(req[c].name)
    /\ pc[c] = "forbidden" => req[c].op = "upload" /\ ~Mine(c, pwd[c])
    /\ pc[c] \notin {"descend", "empty", "forbidden"} => Offered(c)
    /\ Seeks(c) => OnWay(c)
    /\ pc[c] = "opendir" => Kind(dir[c]) = "dir" \/ dir[c] = Home(c)
    /\ pc[c] = "descend" => Kind(dir[c]) = "dir"
    /\ pc[c] \in {"opendir", "look"} /\ goal[c] = "listed" => file[c] = pwd[c]
    /\ pc[c] = "stat" => \A p \in todo[c] : p # Root /\ Front(p) = pwd[c] /\ kind[p] # "none"

(* The file that is about to be read or copied is shared, even for an old  *)
(* link; a name that is dots leads to no file.                             *)
Kept(c) ==
  state[c] \in {"shown", "stale"} =>
    /\ pc[c] = "open" => Target(c) \in shared \/ Last(Target(c)) \in Dots
    /\ pc[c] = "copy" => file[c] \in shared

ConnOK(c) == Walking(c) /\ Guarded(c) /\ Deleting(c) /\ Promised(c) /\ Kept(c)

(* Bytes that are not shared stand in a shared file only while they are    *)
(* uploaded, or when they have leaked.                                     *)
Leaks == \A p \in private \intersect shared : p \in leaked \/ \E d \in Conn : Uploading(d, p)

(* The process ended: on a link of the present page only for two reasons.  *)
Ends ==
  \A c \in Conn : down = c /\ state[c] = "shown" =>
    (pc[c] = "page" /\ pwd[c] = Root) \/ Kind(Home(c)) # "dir"

IInv == FilesOK /\ LocalsOK /\ (\A c \in Conn : ConnOK(c)) /\ Leaks /\ Ends

(* A home goes only by a request that strays.                              *)
HomesStay ==
  [][\A u \in User : kind[<<u>>] = "dir" /\ kind'[<<u>>] # "dir" =>
       \E c \in Conn : Strays(c) /\ <<pc[c], dir[c]>>' # <<pc[c], dir[c]>>]_vars

-----------------------------------------------------------------------------
(* What a step of c leaves to another connection d, and what d's history   *)
(* says of it.                                                             *)
SameWork(d) ==
  /\ pc'[d] = pc[d] /\ req'[d] = req[d] /\ goal'[d] = goal[d]
  /\ dir'[d] = dir[d] /\ todo'[d] = todo[d] /\ file'[d] = file[d]

NothingGone == \A p \in Path : kind[p] # "none" => kind'[p] # "none"
DirsStay    == \A p \in Path : kind[p] = "dir" => kind'[p] \in {"dir", "none"}

Heeds(d) ==
  pc[d] # "idle" =>
    /\ state'[d] # "moved" => state[d] # "moved" /\ pwd'[d] = pwd[d]
    /\ state'[d] \in {"shown", "stale"} => state'[d] = state[d] /\ shared \subseteq shared' /\ NothingGone

(* A directory that others leave where it is stays a directory.            *)
LEMMA KindKept ==
  ASSUME FilesOK, DirsStay, NothingGone, NEW p
  PROVE  /\ Kind(p) = "dir" => Kind(p)' = "dir"
         /\ Kind(p) # "none" => Kind(p)' # "none"
BY DEF Kind, DirsStay, NothingGone, FilesOK

(* The conjuncts of ConnOK that only look at d's work and at pwd_.         *)
LEMMA OthersWork ==
  ASSUME NEW d \in Conn, owner' = owner, SameWork(d), Heeds(d),
         Walking(d), Guarded(d), Deleting(d)
  PROVE  Walking(d)' /\ Guarded(d)' /\ Deleting(d)'
<1>1. Walking(d)'
  BY DEF Walking, SameWork, Mine, Root, AnyPath, OwnOp
<1>2. Guarded(d)'
  BY DEF Guarded, SameWork, Heeds, Mine, Root, AnyPath, OwnOp
<1>3. Deleting(d)'
  BY DEF Deleting, SameWork, Heeds, Strays, Simple, Mine, Root, AnyPath, Spelling, Dots, Within
<1> QED BY <1>1, <1>2, <1>3

(* What was offered is still so while nothing is taken away.               *)
LEMMA OthersOffer ==
  ASSUME FilesOK, NEW d \in Conn, owner' = owner, SameWork(d), pwd'[d] = pwd[d],
         shared \subseteq shared', NothingGone, DirsStay, Offered(d)
  PROVE  Offered(d)'
<1>1. Target(d)' = Target(d) /\ (Mine(d, pwd[d])' <=> Mine(d, pwd[d]))
  BY DEF Target, SameWork, Mine, Root, AnyPath
<1>2. /\ Kind(Target(d)) = "dir" => Kind(Target(d))' = "dir"
      /\ Kind(Target(d)) # "none" => Kind(Target(d))' # "none"
  BY <1>1, KindKept DEF Kind
<1>3. req'[d] = req[d]
  BY DEF SameWork
<1> QED BY <1>1, <1>2, <1>3 DEF Offered

(* A connection that does nothing keeps its part of the invariant.         *)
LEMMA OthersKeep ==
  ASSUME FilesOK, LocalsOK, DirsStay, NEW d \in Conn, owner' = owner, SameWork(d), Heeds(d),
         ConnOK(d)
  PROVE  ConnOK(d)'
<1>1. Walking(d)' /\ Guarded(d)' /\ Deleting(d)'
  BY OthersWork DEF ConnOK
<1>2. Kept(d)'
  <2>1. Target(d)' = pwd'[d] \o req'[d].name
    BY DEF Target
  <2>2. pc[d] # "idle" /\ state'[d] \in {"shown", "stale"} => Target(d)' = Target(d)
    BY <2>1 DEF Heeds, SameWork, Target
  <2> QED BY <2>2 DEF Kept, ConnOK, SameWork, Heeds, Dots
<1>3. Promised(d)'
  <2> SUFFICES ASSUME Shown(d)' PROVE Promised(d)'
    BY DEF Promised
  <2>1. /\ pc'[d] # "idle" /\ pc[d] # "idle" /\ state'[d] = "shown"
    BY DEF Shown, SameWork
  <2>2. /\ Shown(d) /\ pwd'[d] = pwd[d] /\ shared \subseteq shared' /\ NothingGone
    BY <2>1 DEF Heeds, Shown
  <2>3. Promised(d)
    BY DEF ConnOK
  <2>4. Kind(pwd[d])' = "dir" /\ Simple(req[d].name)'
    BY <2>2, <2>3, KindKept DEF Promised, SameWork, Kind, Simple
  <2>11. (pc[d] = "forbidden" => req[d].op = "upload" /\ ~Mine(d, pwd[d]))'
    BY <2>2, <2>3 DEF Promised, SameWork, Mine, Root, AnyPath
  <2>5. (pc[d] \notin {"descend", "empty", "forbidden"} => Offered(d))'
    BY <2>2, <2>3, OthersOffer DEF Promised, SameWork
  <2>6. (Seeks(d) => OnWay(d))'
    <3>1. Seeks(d)' => Seeks(d)
      BY <2>2 DEF SameWork, Seeks, Mine, Root, AnyPath, Home
    <3>2. OnWay(d) => OnWay(d)'
      BY <2>2 DEF SameWork, OnWay, Within
    <3> QED BY <2>2, <2>3, <3>1, <3>2 DEF Promised
  <2>7. (pc[d] = "opendir" => Kind(dir[d]) = "dir" \/ dir[d] = Home(d))'
    BY <2>2, <2>3, KindKept DEF Promised, SameWork, Home, Kind
  <2>8. (pc[d] = "descend" => Kind(dir[d]) = "dir")'
    BY <2>2, <2>3, KindKept DEF Promised, SameWork, Kind
  <2>9. (pc[d] \in {"opendir", "look"} /\ goal[d] = "listed" => file[d] = pwd[d])'
    BY <2>2, <2>3 DEF Promised, SameWork
  <2>10. (pc[d] = "stat" => \A p \in todo[d] : p # Root /\ Front(p) = pwd[d] /\ kind[p] # "none")'
    <3> SUFFICES ASSUME pc'[d] = "stat", NEW p \in todo'[d]
                 PROVE  p # Root /\ Front(p) = pwd'[d] /\ kind'[p] # "none"
      BY DEF Root
    <3>1. p # Root /\ Front(p) = pwd[d] /\ kind[p] # "none"
      BY <2>2, <2>3 DEF Promised, SameWork
    <3>2. p \in Path
      BY DEF SameWork, ConnOK, Walking
    <3> QED BY <2>2, <3>1, <3>2 DEF NothingGone
  <2> QED BY <2>4, <2>5, <2>6, <2>7, <2>8, <2>9, <2>10, <2>11 DEF Promised
<1> QED BY <1>1, <1>2, <1>3 DEF ConnOK

-----------------------------------------------------------------------------
(* The prefixes of a path are above it.                                    *)
LEMMA PrefixOf ==
  ASSUME NEW p \in AnyPath, NEW n \in 0 .. Len(p)
  PROVE  LET r == SubSeq(p, 1, n) IN r \in AnyPath /\ Len(r) = n /\ Within(p, r)
<1> DEFINE r == SubSeq(p, 1, n)
           m == Len(p)
<1>1. m \in Nat
  BY Lengths
<1>2. \A i \in 1 .. n : p[i] \in User
  <2> SUFFICES ASSUME NEW i \in 1 .. n PROVE p[i] \in User
    OBVIOUS
  <2>1. i \in 1 .. m
    BY <1>1
  <2> QED BY <2>1, ElementOfSeq DEF AnyPath
<1>3. n \in Int
  BY <1>1
<1>4. /\ r \in Seq(User) /\ Len(r) = (IF 1 <= n THEN n - 1 + 1 ELSE 0)
      /\ \A i \in 1 .. n - 1 + 1 : r[i] = p[1 + i - 1]
  BY <1>2, <1>3, SubSeqProperties
<1> HIDE DEF r
<1>5. Len(r) = n
  BY <1>1, <1>4
<1>6. \A i \in 1 .. n : r[i] = p[i]
  BY <1>1, <1>4
<1>7. Within(p, r)
  BY <1>1, <1>5, <1>6 DEF Within
<1> QED BY <1>4, <1>5, <1>7 DEF r, AnyPath

(* A proper prefix of p is its front or a proper prefix of its front.      *)
LEMMA PrefixOfFront ==
  ASSUME NEW p \in AnyPath, p # Root, NEW n \in 0 .. Len(p) - 1
  PROVE  \/ SubSeq(p, 1, n) = Front(p)
         \/ n \in 0 .. Len(Front(p)) - 1 /\ SubSeq(Front(p), 1, n) = SubSeq(p, 1, n)
<1> DEFINE f == Front(p)
           m == Len(f)
<1>1. /\ f \in AnyPath /\ Len(p) = m + 1 /\ f = SubSeq(p, 1, Len(p) - 1)
      /\ \A i \in 1 .. m : f[i] = p[i]
  BY FrontOf
<1>2. m \in Nat
  BY <1>1, Lengths
<1> HIDE DEF f, m
<1>3. CASE n = m
  BY <1>1, <1>2, <1>3 DEF f
<1>4. CASE n # m
  <2>1. n \in 0 .. m - 1 /\ n \in 0 .. Len(p) /\ n \in 0 .. m
    BY <1>1, <1>2, <1>4
  <2> DEFINE r == SubSeq(p, 1, n)
             s == SubSeq(f, 1, n)
  <2>2. r \in AnyPath /\ Len(r) = n /\ Within(p, r)
    BY <2>1, PrefixOf
  <2>3. s \in AnyPath /\ Len(s) = n /\ Within(f, s)
    BY <1>1, <2>1, PrefixOf DEF m
  <2> HIDE DEF r, s
  <2>4. \A i \in 1 .. n : r[i] = s[i]
    BY <1>1, <1>2, <2>1, <2>2, <2>3 DEF Within
  <2>5. r = s
    BY <2>2, <2>3, <2>4, SeqEqual DEF AnyPath
  <2> QED BY <2>1, <2>5 DEF r, s, f, m
<1> QED BY <1>3, <1>4

(* Every path of the model is a path.                                      *)
LEMMA PathType == Path \subseteq AnyPath /\ Root \in Path
BY PathAssumption DEF AnyPath, Root

(* Over a file, and under a directory without entries, there is nothing.   *)
LEMMA NothingBelow ==
  ASSUME FilesOK, NEW p \in Path, kind[p] # "dir" \/ Children(p) = {},
         NEW q \in Path, kind[q] # "none", Within(q, p)
  PROVE  q = p
<1> SUFFICES ASSUME q # p PROVE FALSE
  OBVIOUS
<1>1. p \in AnyPath /\ q \in AnyPath
  BY PathType
<1>2. PICK n \in 0 .. Len(q) :
        /\ SubSeq(q, 1, n) \in AnyPath /\ SubSeq(q, 1, n) # Root
        /\ Front(SubSeq(q, 1, n)) = p
  BY <1>1, NextOnWay
<1>3. SubSeq(q, 1, n) \in Path
  BY <1>2, PathAssumption
<1>4. kind[SubSeq(q, 1, n)] # "none"
  <2>1. CASE n = Len(q)
    <3>1. SubSeq(q, 1, n) = q
      BY <1>1, <2>1, SubSeqFull DEF AnyPath
    <3> QED BY <3>1
  <2>2. CASE n \in 0 .. Len(q) - 1
    BY <2>2 DEF FilesOK
  <2>3. Len(q) \in Nat
    BY <1>1, Lengths
  <2> QED BY <2>1, <2>2, <2>3
<1>5. kind[p] = "dir"
  <2>1. p = SubSeq(q, 1, Len(p)) /\ Len(p) <= Len(q) /\ Len(p) # Len(q)
    BY <1>1, WithinSame
  <2>2. Len(p) \in 0 .. Len(q) - 1
    BY <1>1, <2>1, Lengths
  <2> QED BY <2>1, <2>2 DEF FilesOK
<1>6. SubSeq(q, 1, n) \in Children(p)
  BY <1>2, <1>3, <1>4 DEF Children
<1> QED BY <1>5, <1>6

-----------------------------------------------------------------------------
(* What a system call can do to the tree.                                  *)
Removes(p) ==
  p \in Path /\ p # Root /\ (kind[p] # "dir" \/ Children(p) = {}) /\ Vanish(p)
Puts(t, k) ==
  /\ t \in Path /\ t # Root /\ kind[Front(t)] = "dir" /\ k \in {"dir", "file"}
  /\ kind[t] \in (IF k = "dir" THEN {"none"} ELSE {"none", "file"})
  /\ kind' = Set(kind, t, k) /\ shared' = shared
  /\ private' \in (IF k = "dir" THEN {private} ELSE {private \union {t}, private \ {t}})

FileStep ==
  \/ UNCHANGED files
  \/ \E p \in Path : Removes(p)
  \/ \E p \in Place, x \in BOOLEAN : SetMode(p, x)
  \/ \E t \in Path, k \in {"dir", "file"} : Puts(t, k)

(* Taking away a file or an empty directory leaves a tree, and directories *)
(* where they are.                                                         *)
LEMMA RemoveKeeps ==
  ASSUME FilesOK, NEW p \in Path, Removes(p)
  PROVE  FilesOK' /\ DirsStay
<1>1. /\ kind' \in [Path -> {"none", "dir", "file"}]
      /\ \A q \in Path : kind'[q] = IF q = p THEN "none" ELSE kind[q]
  BY DEF Removes, Vanish, Set, FilesOK
<1>2. \A q \in Path : kind'[q] # "none" => \A n \in 0 .. Len(q) - 1 : kind'[SubSeq(q, 1, n)] = "dir"
  <2> SUFFICES ASSUME NEW q \in Path, kind'[q] # "none", NEW n \in 0 .. Len(q) - 1
               PROVE  kind'[SubSeq(q, 1, n)] = "dir"
    OBVIOUS
  <2> DEFINE r == SubSeq(q, 1, n)
  <2>1. kind[q] # "none" /\ q # p /\ q \in AnyPath /\ Len(q) \in Nat
    BY <1>1, PathType, Lengths
  <2>2. kind[r] = "dir" /\ n \in 0 .. Len(q) /\ n # Len(q)
    BY <2>1 DEF FilesOK
  <2>3. r \in Path /\ Within(q, r) /\ Len(r) = n
    BY <2>1, <2>2, PathAssumption, PrefixOf
  <2> HIDE DEF r
  <2>4. r # p
    BY <2>1, <2>3, NothingBelow DEF Removes
  <2>5. kind'[r] = "dir"
    BY <1>1, <2>2, <2>3, <2>4
  <2> QED BY <2>5 DEF r
<1>3. /\ kind'[Root] = "dir"
      /\ shared' \subseteq {q \in Path : kind'[q] # "none"}
      /\ private' \subseteq {q \in Path : kind'[q] = "file"}
  BY <1>1, PathType DEF Removes, Vanish, FilesOK
<1>4. DirsStay
  BY <1>1 DEF DirsStay
<1> QED BY <1>1, <1>2, <1>3, <1>4 DEF FilesOK, Root

(* So does making a file or a directory, which takes nothing away.         *)
LEMMA PutKeeps ==
  ASSUME FilesOK, NEW t \in Path, NEW k \in {"dir", "file"}, Puts(t, k)
  PROVE  FilesOK' /\ DirsStay /\ NothingGone
<1>1. /\ kind' \in [Path -> {"none", "dir", "file"}]
      /\ \A q \in Path : kind'[q] = IF q = t THEN k ELSE kind[q]
      /\ kind[t] # "dir" /\ kind[Front(t)] = "dir" /\ t # Root
  BY DEF Puts, Set, FilesOK
<1>2. \A q \in Path : kind[q] = "dir" => kind'[q] = "dir"
  BY <1>1
<1>3. \A q \in Path : kind'[q] # "none" => \A n \in 0 .. Len(q) - 1 : kind'[SubSeq(q, 1, n)] = "dir"
  <2> SUFFICES ASSUME NEW q \in Path, kind'[q] # "none", NEW n \in 0 .. Len(q) - 1
               PROVE  kind'[SubSeq(q, 1, n)] = "dir"
    OBVIOUS
  <2>1. q \in AnyPath /\ Len(q) \in Nat
    BY PathType, Lengths
  <2>2. SubSeq(q, 1, n) \in Path
    BY <2>1, PathAssumption
  <2>3. CASE q # t
    BY <1>1, <1>2, <2>2, <2>3 DEF FilesOK
  <2>4. CASE q = t
    <3>1. kind[Front(q)] = "dir" /\ Front(q) \in Path
      <4>1. Front(q) = SubSeq(q, 1, Len(q) - 1) /\ Len(q) # 0
        BY <1>1, <2>1, <2>4, FrontOf, Lengths
      <4>2. Len(q) - 1 \in 0 .. Len(q)
        BY <2>1, <4>1
      <4> QED BY <1>1, <2>4, <4>1, <4>2, PathAssumption
    <3>2. CASE SubSeq(q, 1, n) = Front(q)
      BY <1>2, <3>1, <3>2
    <3>3. CASE n \in 0 .. Len(Front(q)) - 1 /\ SubSeq(Front(q), 1, n) = SubSeq(q, 1, n)
      BY <1>2, <2>2, <3>1, <3>3 DEF FilesOK
    <3> QED BY <1>1, <2>1, <2>4, <3>2, <3>3, PrefixOfFront
  <2> QED BY <2>3, <2>4
<1>4. kind'[Root] = "dir" /\ shared' \subseteq {q \in Path : kind'[q] # "none"}
  BY <1>1, PathType DEF Puts, FilesOK
<1>5. private' \subseteq {q \in Path : kind'[q] = "file"}
  <2>1. CASE k = "dir"
    BY <1>1, <2>1 DEF Puts, FilesOK
  <2>2. CASE k = "file"
    BY <1>1, <2>2 DEF Puts, FilesOK
  <2> QED BY <2>1, <2>2
<1>6. DirsStay /\ NothingGone
  BY <1>1 DEF DirsStay, NothingGone
<1> QED BY <1>1, <1>3, <1>4, <1>5, <1>6 DEF FilesOK, Root

(* No system call breaks the tree, or makes a directory a file.            *)
LEMMA FilesKeep ==
  ASSUME FilesOK, FileStep
  PROVE  FilesOK' /\ DirsStay
<1>1. CASE UNCHANGED files
  BY <1>1 DEF files, FilesOK, Root, DirsStay
<1>2. CASE \E p \in Place, x \in BOOLEAN : SetMode(p, x)
  <2>1. PICK p \in Place, x \in BOOLEAN : SetMode(p, x)
    BY <1>2
  <2>2. kind' = kind
    BY <2>1 DEF SetMode
  <2>3. shared' \subseteq {q \in Path : kind[q] # "none"}
    BY <2>1 DEF SetMode, Kind, FilesOK
  <2>4. private' \subseteq {q \in Path : kind[q] = "file"}
    BY <2>1 DEF SetMode, Kind, FilesOK
  <2> QED BY <2>2, <2>3, <2>4 DEF FilesOK, Root, DirsStay
<1> QED BY <1>1, <1>2, RemoveKeeps, PutKeeps DEF FileStep

-----------------------------------------------------------------------------
(* c's stage and what it has in hand after a step; the others' are left.   *)
Becomes(c, stage, r, g, d, t, f) ==
  /\ pc' \in [Conn -> Stage] /\ WorkOK'
  /\ pc'[c] = stage /\ req'[c] = r /\ goal'[c] = g
  /\ dir'[c] = d /\ todo'[c] = t /\ file'[c] = f
  /\ \A e \in Conn \ {c} : SameWork(e)

(* Assignments at c are such a step.                                       *)
LEMMA SetsBecome ==
  ASSUME LocalsOK, NEW c \in Conn,
         NEW stage \in Stage, NEW r \in [op : Op, name : Name], NEW g \in Goal,
         NEW d \in Place, NEW t \in SUBSET Spelling, NEW f \in Place,
         pc' = Set(pc, c, stage), req' = Set(req, c, r), goal' = Set(goal, c, g),
         dir' = Set(dir, c, d), todo' = Set(todo, c, t), file' = Set(file, c, f)
  PROVE  Becomes(c, stage, r, g, d, t, f)
<1>1. /\ pc \in [Conn -> Stage] /\ req \in [Conn -> [op : Op, name : Name]] /\ goal \in [Conn -> Goal]
      /\ dir \in [Conn -> Place] /\ todo \in [Conn -> SUBSET Spelling] /\ file \in [Conn -> Place]
  BY DEF LocalsOK, WorkOK
<1>2. pc' \in [Conn -> Stage] /\ pc'[c] = stage /\ \A e \in Conn \ {c} : pc'[e] = pc[e]
  BY <1>1 DEF Set
<1>3. /\ req' \in [Conn -> [op : Op, name : Name]] /\ req'[c] = r
      /\ \A e \in Conn \ {c} : req'[e] = req[e]
  BY <1>1 DEF Set
<1>4. goal' \in [Conn -> Goal] /\ goal'[c] = g /\ \A e \in Conn \ {c} : goal'[e] = goal[e]
  BY <1>1 DEF Set
<1>5. dir' \in [Conn -> Place] /\ dir'[c] = d /\ \A e \in Conn \ {c} : dir'[e] = dir[e]
  BY <1>1 DEF Set
<1>6. todo' \in [Conn -> SUBSET Spelling] /\ todo'[c] = t /\ \A e \in Conn \ {c} : todo'[e] = todo[e]
  BY <1>1 DEF Set
<1>7. file' \in [Conn -> Place] /\ file'[c] = f /\ \A e \in Conn \ {c} : file'[e] = file[e]
  BY <1>1 DEF Set
<1>8. Place' = Place /\ Spelling' = Spelling
  BY DEF Place, Spelling, Dots
<1>9. WorkOK'
  BY <1>3, <1>4, <1>5, <1>6, <1>7, <1>8 DEF WorkOK, Op, OwnOp, FormOp, Goal
<1>10. \A e \in Conn \ {c} : SameWork(e)
  BY <1>2, <1>3, <1>4, <1>5, <1>6, <1>7 DEF SameWork
<1> QED BY <1>2, <1>3, <1>4, <1>5, <1>6, <1>7, <1>9, <1>10 DEF Becomes

(* What is left alone is set to what it was.                               *)
LEMMA SetSame ==
  ASSUME NEW S, NEW f \in [Conn -> S], NEW c \in Conn
  PROVE  f = Set(f, c, f[c])
BY DEF Set

(* The types of what c has in hand.                                        *)
LEMMA InHand ==
  ASSUME LocalsOK, NEW c \in Conn
  PROVE  /\ owner[c] \in User /\ pwd[c] \in Spelling /\ pc[c] \in Stage
         /\ req[c] \in [op : Op, name : Name] /\ req[c].op \in Op /\ req[c].name \in Name
         /\ goal[c] \in Goal /\ dir[c] \in Place /\ todo[c] \in SUBSET Spelling
         /\ file[c] \in Place /\ state[c] \in Past
         /\ NoRequest(c) \in [op : Op, name : Name] /\ Simple(NoRequest(c).name)
         /\ Home(c) \in AnyPath /\ Home(c) # Root /\ Len(Home(c)) = 1 /\ Home(c)[1] = owner[c]
         /\ Home(c) \in Place /\ Nowhere \in Place /\ {} \in SUBSET Spelling
         /\ Target(c) \in Spelling /\ Target(c) # Root /\ Spot(c) \in Place
<1>1. /\ owner[c] \in User /\ pwd[c] \in Spelling /\ pc[c] \in Stage
      /\ goal[c] \in Goal /\ dir[c] \in Place /\ todo[c] \in SUBSET Spelling
      /\ file[c] \in Place /\ state[c] \in Past
  BY DEF LocalsOK, WorkOK
<1>2. req[c] \in [op : Op, name : Name]
  BY DEF LocalsOK, WorkOK
<1>3. req[c].op \in Op /\ req[c].name \in Name
  BY <1>2
<1>4. NoRequest(c) \in [op : Op, name : Name] /\ Simple(NoRequest(c).name)
  BY <1>1, NameAssumption DEF NoRequest, Op, FormOp, Simple
<1>5. Home(c) \in AnyPath /\ Len(Home(c)) = 1 /\ Home(c)[1] = owner[c]
  BY <1>1 DEF Home, AnyPath
<1>6. Home(c) # Root
  BY DEF Home, Root
<1>7. Target(c) \in Spelling
  BY <1>1, <1>3, NameAssumption, ConcatProperties DEF Target, Spelling
<1>9. Target(c) # Root
  <2> DEFINE p == pwd[c]
             n == req[c].name
  <2>1. p \in Seq(User \union Dots) /\ n \in Seq(User \union Dots) /\ n # <<>>
    BY <1>1, <1>3, NameAssumption DEF Spelling
  <2> HIDE DEF p, n
  <2>2. Len(p \o n) = Len(p) + Len(n) /\ Len(p) \in Nat /\ Len(n) \in Nat /\ Len(n) # 0
    BY <2>1, ConcatProperties, EmptySeq
  <2> DEFINE k == Len(p)
             m == Len(n)
             l == Len(p \o n)
  <2>3. l = k + m /\ k \in Nat /\ m \in Nat /\ m # 0
    BY <2>2
  <2> HIDE DEF k, m, l
  <2>4. l # 0
    BY <2>3
  <2> USE DEF l
  <2>5. p \o n # Root
    BY <2>4, EmptySeq DEF Root
  <2> QED BY <2>5 DEF Target, p, n
<1>8. Spot(c) \in Place
  BY LeadsTo, Spelled DEF Spot, Place
<1> QED BY <1>1, <1>2, <1>3, <1>4, <1>5, <1>6, <1>7, <1>8, <1>9, Spelled DEF Place

(* What a request of one plain part names in a plain directory.            *)
LEMMA TargetOf ==
  ASSUME LocalsOK, NEW c \in Conn, pwd[c] \in AnyPath, Simple(req[c].name)
  PROVE  /\ Target(c) \in AnyPath /\ Target(c) # Root /\ Front(Target(c)) = pwd[c]
         /\ Len(Target(c)) = Len(pwd[c]) + 1 /\ Spot(c) = Target(c)
         /\ Within(Target(c), pwd[c]) /\ ~Slashed(req[c].name)
         /\ Mine(c, pwd[c]) => Mine(c, Target(c))
<1>1. pwd[c] \in Spelling /\ req[c].name \in Name
  BY InHand
<1>2. ~Slashed(req[c].name)
  BY DEF Slashed, Simple
<1>3. PICK u \in User \union Dots :
        pwd[c] \o req[c].name = Append(pwd[c], u) /\ (Simple(req[c].name) <=> u \in User)
  BY <1>1, <1>2, OnePart
<1>4. /\ Target(c) \in AnyPath /\ Target(c) # Root /\ Front(Target(c)) = pwd[c]
      /\ Len(Target(c)) = Len(pwd[c]) + 1
  BY <1>3, AppendOf DEF Target
<1>5. Within(Target(c), pwd[c])
  BY <1>4, FrontOf
<1>6. Spot(c) = Target(c)
  BY <1>4, LeadsTo DEF Spot
<1> QED BY <1>2, <1>4, <1>5, <1>6, WithinSame DEF Mine

(* A request that is not refused for a '/' has a name of one part, and its *)
(* target ends in dots if that part is not plain.                          *)
LEMMA TargetEnds ==
  ASSUME LocalsOK, NEW c \in Conn, ~Slashed(req[c].name)
  PROVE  Target(c) # Root /\ (Simple(req[c].name) \/ Last(Target(c)) \in Dots)
<1>1. pwd[c] \in Spelling /\ req[c].name \in Name
  BY InHand
<1>2. PICK u \in User \union Dots :
        /\ Target(c) # Root /\ Last(Target(c)) = u
        /\ (Simple(req[c].name) <=> u \in User)
  BY <1>1, OnePart DEF Target
<1> QED BY <1>2

(* Own of the model is Mine.                                               *)
LEMMA OwnIsMine ==
  ASSUME LocalsOK, NEW c \in Conn, NEW p \in AnyPath
  PROVE  /\ Own(c, p) <=> Mine(c, p)
         /\ Mine(c, p) <=> Within(p, Home(c))
<1>1. Home(c) \in AnyPath /\ Len(Home(c)) = 1 /\ Home(c)[1] = owner[c] /\ Home(c) # Root
  BY InHand
<1>2. Mine(c, p) <=> Within(p, Home(c))
  BY <1>1, Lengths DEF Mine, Within
<1>3. IsPrefix(Home(c), p) <=> Within(p, Home(c))
  <2>1. SubSeq(Home(c), 1, Len(Home(c))) = Home(c)
    BY <1>1, SubSeqFull DEF AnyPath
  <2>2. Within(p, Home(c)) => Home(c) = SubSeq(p, 1, Len(Home(c))) /\ Len(Home(c)) <= Len(p)
    BY <1>1, WithinSame
  <2>3. ASSUME Len(Home(c)) <= Len(p), Home(c) = SubSeq(p, 1, Len(Home(c)))
        PROVE  Within(p, Home(c))
    <3>1. 1 \in 0 .. Len(p)
      BY <1>1, <2>3, Lengths
    <3> QED BY <1>1, <2>3, <3>1, PrefixOf
  <2> QED BY <2>1, <2>2, <2>3 DEF IsPrefix
<1>4. Within(Home(c), Home(c))
  BY <1>1 DEF Within
<1> QED BY <1>2, <1>3, <1>4 DEF Own, Below, IsStrictPrefix

-----------------------------------------------------------------------------
(* Proceed and Walk as changes of what c has in hand.                      *)
Over == {"page", "done"}

(* Proceed empties c's hands, and ends the request if the stage says so.   *)
LEMMA ProceedBecomes ==
  ASSUME LocalsOK, NEW c \in Conn, NEW stage \in Stage, Proceed(c, stage)
  PROVE  Becomes(c, stage, IF stage \in Over THEN NoRequest(c) ELSE req[c],
                 "own", Nowhere, {}, Nowhere)
<1> DEFINE r == IF stage \in Over THEN NoRequest(c) ELSE req[c]
<1>1. /\ pc' = Set(pc, c, stage) /\ goal' = Set(goal, c, "own") /\ dir' = Set(dir, c, Nowhere)
      /\ todo' = Set(todo, c, {}) /\ file' = Set(file, c, Nowhere)
  BY DEF Proceed, Go
<1>2. req \in [Conn -> [op : Op, name : Name]] /\ r \in [op : Op, name : Name]
  BY InHand DEF LocalsOK, WorkOK
<1>3. req' = Set(req, c, r)
  <2>1. CASE stage \in Over
    BY <2>1 DEF Proceed, Over
  <2>2. CASE stage \notin Over
    <3>1. req' = req
      BY <2>2 DEF Proceed, Over
    <3> QED BY <1>2, <2>2, <3>1, SetSame
  <2> QED BY <2>1, <2>2
<1>4. "own" \in Goal /\ Nowhere \in Place /\ {} \in SUBSET Spelling
  BY DEF Goal, Place
<1> HIDE DEF r
<1>5. Becomes(c, stage, r, "own", Nowhere, {}, Nowhere)
  BY <1>1, <1>2, <1>3, <1>4, SetsBecome
<1> QED BY <1>5 DEF r

Start(c, g) == IF g \in {"own", "listed"} THEN Home(c) ELSE Root

(* Walk begins InDir, with the request it has.                             *)
LEMMA WalkBecomes ==
  ASSUME LocalsOK, NEW c \in Conn, NEW g \in Goal, Walk(c, g),
         NEW r \in [op : Op, name : Name], req' = Set(req, c, r), UNCHANGED file
  PROVE  Becomes(c, "opendir", r, g, Start(c, g), {}, file[c])
<1>1. /\ pc' = Set(pc, c, "opendir") /\ goal' = Set(goal, c, g) /\ todo' = Set(todo, c, {})
      /\ dir' = Set(dir, c, Start(c, g))
  BY DEF Walk, Go, Start
<1>2. file' = Set(file, c, file[c])
  BY DEF LocalsOK, WorkOK, Set
<1>3. Start(c, g) \in Place /\ file[c] \in Place /\ {} \in SUBSET Spelling
  BY InHand, Spelled DEF Start, Place
<1>4. "opendir" \in Stage
  BY DEF Stage
<1> QED BY <1>1, <1>2, <1>3, <1>4, SetsBecome

-----------------------------------------------------------------------------
(* What the history says after a step of c.                                *)
LEMMA HistoryOf ==
  ASSUME LocalsOK, NEW c \in Conn, History(c), \A e \in Conn \ {c} : SameWork(e)
  PROVE  /\ state' \in [Conn -> Past]
         /\ state'[c] = IF pc'[c] = "idle" THEN "shown" ELSE state[c]
         /\ \A e \in Conn \ {c} : Heeds(e)
         /\ leaked \subseteq leaked'
<1>1. \A d \in Conn : state'[d] =
        IF pc'[d] = "idle" THEN "shown"
        ELSE IF d \in Moved(c) THEN "moved"
        ELSE IF d # c /\ TakesAway /\ state[d] # "moved" THEN "disturbed"
        ELSE state[d]
  BY DEF History
<1>2. state' \in [Conn -> Past]
  <2>1. \A d \in Conn : state[d] \in Past
    BY DEF LocalsOK
  <2>2. \A d \in Conn : state'[d] \in Past
    BY <1>1, <2>1 DEF Past
  <2> QED BY <2>2 DEF History
<1>3. state'[c] = IF pc'[c] = "idle" THEN "shown" ELSE state[c]
  BY <1>1 DEF Moved
<1>4. \A e \in Conn \ {c} : Heeds(e)
  <2> SUFFICES ASSUME NEW e \in Conn \ {c}, pc[e] # "idle" PROVE Heeds(e)
    BY DEF Heeds
  <2>1. pc'[e] # "idle"
    BY DEF SameWork
  <2>2. state'[e] # "moved" => state[e] # "moved" /\ pwd'[e] = pwd[e]
    BY <1>1, <2>1 DEF Moved
  <2>3. state'[e] \in {"shown", "stale"} => state'[e] = state[e] /\ ~TakesAway
    BY <1>1, <2>1
  <2>4. ~TakesAway => shared \subseteq shared' /\ NothingGone
    BY DEF TakesAway, NothingGone
  <2> QED BY <2>2, <2>3, <2>4 DEF Heeds
<1> QED BY <1>2, <1>3, <1>4 DEF History

(* Where unshared bytes stand in a shared file after a step of c, they     *)
(* stood there before and not for c's upload, or c is uploading them, or   *)
(* they leaked.                                                            *)
LeakStep(c) ==
  \A p \in private' \intersect shared' :
    \/ p \in private \intersect shared /\ ~Uploading(c, p)
    \/ Uploading(c, p)' \/ p \in leaked'

(* It is enough to look at the bytes and the upload of the one who steps.  *)
LEMMA LeaksKeep ==
  ASSUME LocalsOK, Leaks, NEW c \in Conn, History(c), owner' = owner,
         \A e \in Conn \ {c} : SameWork(e), LeakStep(c)
  PROVE  Leaks'
<1> SUFFICES ASSUME NEW p \in private' \intersect shared'
             PROVE  p \in leaked' \/ \E d \in Conn : Uploading(d, p)'
  BY DEF Leaks
<1>1. CASE Uploading(c, p)' \/ p \in leaked'
  BY <1>1
<1>2. CASE p \in private \intersect shared /\ ~Uploading(c, p)
  <2>1. CASE p \in leaked
    BY <2>1, HistoryOf
  <2>2. CASE \E d \in Conn : Uploading(d, p)
    <3>1. PICK d \in Conn : Uploading(d, p)
      BY <2>2
    <3>2. d \in Conn \ {c}
      BY <1>2, <3>1
    <3>3. SameWork(d) /\ pc[d] = "chmod" /\ file[d] = p
      BY <3>1, <3>2 DEF Uploading
    <3>4. Strays(d) => Strays(d)'
      BY <3>2, <3>3, HistoryOf DEF Heeds, SameWork, Strays, Simple
    <3>5. Uploading(d, p)'
      BY <3>1, <3>3, <3>4 DEF Uploading, SameWork
    <3> QED BY <3>5
  <2> QED BY <1>2, <2>1, <2>2 DEF Leaks
<1> QED BY <1>1, <1>2 DEF LeakStep

(* A step that leaves the files alone and does not end an upload.          *)
LEMMA CalmLeaksNothing ==
  ASSUME NEW c \in Conn, UNCHANGED files, pc[c] # "chmod"
  PROVE  LeakStep(c)
BY DEF LeakStep, files, Uploading

-----------------------------------------------------------------------------
(* A step of c keeps the invariant if it does so at c, does to the tree    *)
(* what system calls do, and leaves the others' work alone.                *)
EndsWell(c) ==
  state[c] = "shown" => (pc[c] = "page" /\ pwd[c] = Root) \/ Kind(Home(c)) # "dir"

(* Then the invariant holds for everybody after it.                        *)
LEMMA StepKeeps ==
  ASSUME IInv, NEW c \in Conn, History(c), UNCHANGED <<owner, requests>>,
         pc' \in [Conn -> Stage], WorkOK', pwd' \in [Conn -> Spelling],
         \A e \in Conn \ {c} : SameWork(e),
         down' \in {c, NoConn}, down' = c => EndsWell(c)',
         FileStep, LeakStep(c), ConnOK(c)'
  PROVE  IInv'
<1>1. FilesOK' /\ DirsStay
  BY FilesKeep DEF IInv
<1>2. LocalsOK /\ FilesOK
  BY DEF IInv
<1>3. /\ state' \in [Conn -> Past] /\ \A e \in Conn \ {c} : Heeds(e)
  BY <1>2, HistoryOf
<1>4. LocalsOK'
  BY <1>2, <1>3 DEF LocalsOK, AnyPath, Stage, Past
<1>5. (\A e \in Conn : ConnOK(e))'
  <2>1. \A e \in Conn \ {c} : ConnOK(e)'
    BY <1>1, <1>2, <1>3, OthersKeep DEF IInv
  <2> QED BY <2>1
<1>6. Leaks'
  BY <1>2, LeaksKeep DEF IInv
<1>7. Ends'
  BY BoundAssumption DEF Ends, EndsWell
<1> QED BY <1>1, <1>4, <1>5, <1>6, <1>7 DEF IInv

(* The process ends at a step of c.                                        *)
LEMMA AbortKeeps ==
  ASSUME IInv, NEW c \in Conn, History(c), UNCHANGED <<owner, requests>>,
         pc[c] \notin {"idle", "chmod"}, Abort(c), EndsWell(c)
  PROVE  IInv'
<1>1. /\ down' = c /\ UNCHANGED <<files, pwd, pc, work, owner>> /\ LocalsOK
      /\ pc[c] # "idle"
  BY DEF Abort, IInv
<1>2. \A e \in Conn : SameWork(e)
  BY <1>1 DEF SameWork, work
<1>3. state'[c] = state[c]
  BY <1>1, <1>2, HistoryOf
<1>4. ConnOK(c)'
  <2>2. shared' = shared /\ kind' = kind
    BY <1>1 DEF files
  <2>4. Heeds(c)
    BY <1>1, <1>3, <2>2 DEF Heeds, NothingGone
  <2> QED BY <1>1, <1>2, <2>2, <2>4, OthersKeep DEF IInv, DirsStay
<1>5. EndsWell(c)'
  BY <1>1, <1>3 DEF EndsWell, Kind, Home, files, Root
<1>6. pc' \in [Conn -> Stage] /\ WorkOK' /\ pwd' \in [Conn -> Spelling]
  BY <1>1 DEF LocalsOK, WorkOK, work, Place, Spelling, Dots, Op, OwnOp, FormOp, Goal
<1>7. FileStep /\ LeakStep(c)
  BY <1>1, CalmLeaksNothing DEF FileStep
<1> QED BY <1>1, <1>2, <1>4, <1>5, <1>6, <1>7, StepKeeps

(* The request is over: the page or the answer is next.                    *)
LEMMA OverKeeps ==
  ASSUME IInv, NEW c \in Conn, History(c), UNCHANGED <<owner, requests, down>>,
         down = NoConn, NEW stage \in Over, Proceed(c, stage), pwd' \in [Conn -> Spelling],
         FileStep, LeakStep(c),
         Shown(c) => Kind(pwd[c])' = "dir", pc[c] # "idle"
  PROVE  IInv'
<1>1. stage \in Stage /\ stage \notin {"idle", "opendir", "look", "act", "chmod", "check", "copy",
                                       "descend", "empty", "stat", "list", "open", "forbidden"}
  BY DEF Over, Stage
<1>2. Becomes(c, stage, NoRequest(c), "own", Nowhere, {}, Nowhere)
  BY <1>1, ProceedBecomes DEF IInv
<1>3. /\ pc'[c] = stage /\ req'[c].op = "disk" /\ Simple(req[c].name)'
      /\ \A e \in Conn \ {c} : SameWork(e)
  <2>1. req'[c] = NoRequest(c) /\ pc'[c] = stage /\ \A e \in Conn \ {c} : SameWork(e)
    BY <1>2 DEF Becomes
  <2>2. Simple(NoRequest(c).name)
    BY InHand DEF IInv
  <2> QED BY <2>1, <2>2 DEF NoRequest, Simple
<1>4. state'[c] = state[c]
  BY <1>1, <1>3, HistoryOf DEF IInv
<1>5. ConnOK(c)'
  <2>1. Walking(c)' /\ Guarded(c)' /\ Deleting(c)' /\ Kept(c)'
    BY <1>1, <1>3 DEF Walking, Guarded, Deleting, Kept
  <2>2. Offered(c)'
    BY <1>3 DEF Offered, OwnOp
  <2>3. Promised(c)'
    BY <1>1, <1>3, <1>4, <2>2 DEF Promised, Shown, Seeks
  <2> QED BY <2>1, <2>3 DEF ConnOK
<1> QED BY <1>2, <1>5, StepKeeps, BoundAssumption DEF Becomes

-----------------------------------------------------------------------------
(* A step of c that nobody sees, and that goes on with the request.        *)
LEMMA CalmKeeps ==
  ASSUME IInv, NEW c \in Conn, History(c), UNCHANGED <<owner, requests>>, Calm, down = NoConn,
         pc[c] # "chmod", NEW stage \in Stage, stage # "idle",
         NEW r, NEW g, NEW d, NEW t, NEW f, Becomes(c, stage, r, g, d, t, f),
         state'[c] = state[c] => ConnOK(c)'
  PROVE  IInv'
<1>1. UNCHANGED files /\ pwd' = pwd /\ down' = NoConn /\ LocalsOK
  BY DEF Calm, IInv
<1>2. FileStep /\ LeakStep(c)
  BY <1>1, CalmLeaksNothing DEF FileStep
<1>3. state'[c] = state[c]
  BY <1>1, HistoryOf DEF Becomes
<1>4. pwd' \in [Conn -> Spelling]
  BY <1>1 DEF LocalsOK
<1> QED BY <1>1, <1>2, <1>3, <1>4, StepKeeps, BoundAssumption DEF Becomes

(* The offer stands while c's request and the files do.                    *)
LEMMA OfferStands ==
  ASSUME NEW c \in Conn, UNCHANGED <<files, pwd, owner>>, req'[c] = req[c]
  PROVE  /\ Offered(c)' <=> Offered(c)
         /\ Target(c)' = Target(c) /\ Kind(pwd[c])' = Kind(pwd[c])
         /\ Mine(c, pwd[c])' <=> Mine(c, pwd[c])
<1>1. Target(c)' = Target(c) /\ kind' = kind /\ shared' = shared /\ pwd' = pwd
  BY DEF Target, files
<1>2. Kind(Target(c))' = Kind(Target(c)) /\ Kind(pwd[c])' = Kind(pwd[c])
  BY <1>1 DEF Kind
<1>3. Mine(c, pwd[c])' <=> Mine(c, pwd[c])
  BY <1>1 DEF Mine, Root, AnyPath
<1>4. Offered(c)' <=> Offered(c)
  BY <1>1, <1>2, <1>3 DEF Offered
<1> QED BY <1>1, <1>2, <1>3, <1>4

(* What is left of a request after a step of c that nobody sees.           *)
LEMMA StillShown ==
  ASSUME NEW c \in Conn, UNCHANGED <<files, pwd, owner>>, req'[c] = req[c],
         state'[c] = state[c], pc[c] # "idle", Promised(c), Shown(c)'
  PROVE  /\ Shown(c) /\ Kind(pwd[c])' = "dir" /\ Kind(pwd[c]) = "dir"
         /\ Simple(req[c].name) /\ Simple(req[c].name)'
         /\ pwd[c] \in Path /\ pwd[c] \in AnyPath
         /\ pc[c] \notin {"descend", "empty", "forbidden"} => Offered(c) /\ Offered(c)'
<1>1. Shown(c)
  BY DEF Shown
<1>2. Kind(pwd[c]) = "dir" => pwd[c] \in Path /\ pwd[c] \in AnyPath
  BY PathType DEF Kind
<1> QED BY <1>1, <1>2, OfferStands DEF Promised, Simple

(* The request is refused, which of what the page shows can happen to its  *)
(* form for uploads only.                                                  *)
LEMMA RefusedKeeps ==
  ASSUME IInv, NEW c \in Conn, History(c), UNCHANGED <<owner, requests>>, Calm, down = NoConn,
         pc[c] \notin {"idle", "chmod"}, Proceed(c, "forbidden"),
         Shown(c) => req[c].op = "upload" /\ ~Mine(c, pwd[c])
  PROVE  IInv'
<1>1. LocalsOK /\ Promised(c) /\ "forbidden" \in Stage /\ UNCHANGED <<files, pwd, owner>>
  BY DEF IInv, ConnOK, Stage, Calm
<1>2. Becomes(c, "forbidden", req[c], "own", Nowhere, {}, Nowhere)
  BY <1>1, ProceedBecomes DEF Over
<1>3. pc'[c] = "forbidden" /\ req'[c] = req[c]
  BY <1>2 DEF Becomes
<1>4. ASSUME state'[c] = state[c] PROVE ConnOK(c)'
  <2>1. Walking(c)' /\ Guarded(c)' /\ Deleting(c)' /\ Kept(c)'
    BY <1>3 DEF Walking, Guarded, Deleting, Kept
  <2>2. Promised(c)'
    <3> SUFFICES ASSUME Shown(c)' PROVE Promised(c)'
      BY DEF Promised
    <3>1. Shown(c) /\ Kind(pwd[c])' = "dir" /\ Simple(req[c].name)'
      BY <1>1, <1>3, <1>4, StillShown
    <3>2. ~Mine(c, pwd[c])'
      BY <1>1, <1>3, <3>1, OfferStands
    <3> QED BY <1>3, <3>1, <3>2 DEF Promised, Seeks
  <2> QED BY <2>1, <2>2 DEF ConnOK
<1> QED BY <1>1, <1>2, <1>4, CalmKeeps

(* From a user's home the way leads to what is below it, and from the root *)
(* to everything.                                                          *)
LEMMA FromStart ==
  ASSUME LocalsOK, NEW c \in Conn, pwd[c] \in AnyPath
  PROVE  Within(pwd[c], Root) /\ (Mine(c, pwd[c]) => Within(pwd[c], Home(c)))
BY Lengths, OwnIsMine DEF Within

(* What the links of a page stand for.                                     *)
LEMMA LinksMean ==
  ASSUME LocalsOK, FilesOK, NEW c \in Conn, NEW op \in Op, NEW name \in Name,
         [op |-> op, name |-> name] \in Links(c)
  PROVE  LET t == pwd[c] \o name IN
         /\ Kind(pwd[c]) = "dir" /\ pwd[c] \in AnyPath /\ Simple(name)
         /\ op \in OwnOp \ {"upload"} => Mine(c, pwd[c])
         /\ op \in {"enter", "deleteDir"} => Kind(t) = "dir"
         /\ op \in {"download2copy", "copy"} => Kind(t) # "none" /\ t \in shared
         /\ op \in {"back", "mkdir"} => pwd[c] # Root
         /\ op = "preview" => Mine(c, pwd[c]) \/ t \in shared
<1> DEFINE d == pwd[c]
           t == pwd[c] \o name
           forms == {"disk", "upload"} \union (IF d = Root THEN {} ELSE {"back", "mkdir"})
           entry(p) ==
             IF Own(c, d)
               THEN {"share", "unshare"} \union
                    (IF kind[p] = "dir" THEN {"deleteDir", "enter"}
                     ELSE {"delete", "download", "preview"})
             ELSE IF kind[p] = "file"
               THEN IF p \in shared THEN {"download2copy", "copy", "preview"} ELSE {}
             ELSE IF p \in shared \/ p = Home(c) THEN {"enter"} ELSE {}
<1>2. Links(c) = IF d \notin AnyPath \/ Kind(d) # "dir" THEN {}
                 ELSE [op : forms, name : {<<u>> : u \in User}]
                        \union UNION {[op : entry(p), name : {<<Last(p)>>}] : p \in Children(d)}
  BY DEF Links, AnyPath
<1>3. Kind(d) = "dir" /\ d \in AnyPath
  BY <1>2
<1>1. d \in AnyPath /\ (Own(c, d) <=> Mine(c, d))
  BY <1>3, OwnIsMine
<1>7. ASSUME NEW u \in User PROVE Simple(<<u>>) /\ d \o <<u>> = Append(d, u)
  <2>1. Len(<<u>>) = 1 /\ <<u>>[1] = u
    OBVIOUS
  <2> QED BY <1>1, <2>1, AppendIsConcat DEF Simple, AnyPath
<1>4. CASE op \in forms /\ name \in {<<u>> : u \in User}
  <2>1. op \in {"disk", "back", "mkdir", "upload"} /\ (op \in {"back", "mkdir"} => d # Root)
    BY <1>4
  <2>2. Simple(name)
    BY <1>4, <1>7
  <2> QED BY <1>1, <1>3, <2>1, <2>2 DEF OwnOp
<1>5. CASE \E p \in Children(d) : op \in entry(p) /\ name = <<Last(p)>>
  <2>1. PICK p \in Children(d) : op \in entry(p) /\ name = <<Last(p)>>
    BY <1>5
  <2>2. p \in Path /\ p # Root /\ Front(p) = d /\ kind[p] # "none"
    BY <2>1 DEF Children
  <2>3. t = p /\ Simple(name)
    <3>1. Last(p) \in User /\ Append(d, Last(p)) = p
      BY <2>2, FrontOf, FrontAndLast, PathType
    <3> QED BY <1>7, <2>1, <3>1
  <2>4. Kind(t) = kind[p]
    BY <2>2, <2>3 DEF Kind
  <2>5. CASE Own(c, d)
    <3>1. /\ op \in {"share", "unshare", "deleteDir", "enter", "delete", "download", "preview"}
          /\ op \in {"deleteDir", "enter"} => kind[p] = "dir"
      BY <2>1, <2>5
    <3> QED BY <1>1, <1>3, <2>3, <2>4, <2>5, <3>1
  <2>6. CASE ~Own(c, d)
    <3>1. /\ op \in {"download2copy", "copy", "preview", "enter"}
          /\ op = "enter" => kind[p] # "file"
          /\ op # "enter" => p \in shared /\ kind[p] = "file"
      BY <2>1, <2>6
    <3>2. op = "enter" => kind[p] = "dir"
      <4>1. kind[p] \in {"none", "dir", "file"}
        BY <2>2 DEF FilesOK
      <4> QED BY <2>2, <3>1, <4>1
    <3> QED BY <1>1, <1>3, <2>3, <2>4, <3>1, <3>2 DEF OwnOp
  <2> QED BY <2>5, <2>6
<1>6. (op \in forms /\ name \in {<<u>> : u \in User}) \/ \E p \in Children(d) : op \in entry(p) /\ name = <<Last(p)>>
  <2> DEFINE link == [op |-> op, name |-> name]
  <2>1. link \in [op : forms, name : {<<u>> : u \in User}]
        \/ \E p \in Children(d) : link \in [op : entry(p), name : {<<Last(p)>>}]
    BY <1>2, <1>3
  <2> QED BY <2>1
<1> QED BY <1>4, <1>5, <1>6

-----------------------------------------------------------------------------
(* A request for any link begins: what the page shows of it is so.         *)
LEMMA ReceiveKeeps ==
  ASSUME IInv, NEW c \in Conn, NEW op \in Op, NEW name \in Name, requests < MaxRequests,
         Receive(c, op, name)
  PROVE  IInv'
<1> DEFINE r == [op |-> op, name |-> name]
           stage == IF op \in {"disk", "enter", "preview"} THEN "act" ELSE "opendir"
           root == op \in {"copy", "back", "mkdir"}
<1>1. LocalsOK /\ FilesOK /\ down = NoConn /\ pc[c] = "idle"
  BY DEF IInv, Receive, At
<1>2. /\ UNCHANGED <<files, pwd, down, file, owner, leaked>>
      /\ kind' = kind /\ shared' = shared /\ private' = private /\ pwd' = pwd
  BY DEF Receive, Calm, files
<1>3. /\ r \in [op : Op, name : Name] /\ req' = Set(req, c, r)
      /\ state' = Set(state, c, IF r \in Links(c) THEN "shown" ELSE "stale")
      /\ requests' = requests + 1 /\ requests < MaxRequests
  BY DEF Receive
<1> HIDE DEF r
<1>4. \E g \in Goal, t \in SUBSET Spelling, d \in Place :
        /\ Becomes(c, stage, r, g, d, t, file[c])
        /\ stage = "opendir" => g = (IF root THEN "root" ELSE "own") /\ t = {} /\ d = Start(c, g)
  <2>1. CASE op \in {"disk", "enter", "preview"}
    <3>1. pc' = Set(pc, c, "act") /\ UNCHANGED <<goal, dir, todo>>
      <4>1. Go(c, "act") /\ UNCHANGED <<goal, dir, todo>>
        BY <2>1, Zenon DEF Receive, OwnOp
      <4> QED BY <4>1 DEF Go
    <3>2. /\ goal' = Set(goal, c, goal[c]) /\ dir' = Set(dir, c, dir[c])
          /\ todo' = Set(todo, c, todo[c]) /\ file' = Set(file, c, file[c])
      BY <1>1, <1>2, <3>1, SetSame DEF LocalsOK, WorkOK, Set
    <3>3. /\ goal[c] \in Goal /\ dir[c] \in Place /\ todo[c] \in SUBSET Spelling /\ file[c] \in Place
          /\ "act" \in Stage
      BY <1>1, InHand DEF Stage
    <3>4. Becomes(c, "act", r, goal[c], dir[c], todo[c], file[c])
      BY <1>1, <1>3, <3>1, <3>2, <3>3, SetsBecome
    <3> QED BY <2>1, <3>3, <3>4
  <2>2. CASE op \in OwnOp \union {"download2copy"}
    <3>1. Walk(c, "own")
      BY <2>2 DEF Receive, OwnOp
    <3>2. Becomes(c, "opendir", r, "own", Start(c, "own"), {}, file[c])
      BY <1>1, <1>2, <1>3, <3>1, WalkBecomes DEF Goal
    <3>3. "own" \in Goal /\ Start(c, "own") \in Place /\ ~root /\ stage = "opendir"
      BY <1>1, <2>2, InHand DEF Goal, Start, Place, OwnOp
    <3> QED BY <3>2, <3>3
  <2>3. CASE root
    <3>1. Walk(c, "root")
      BY <2>3 DEF Receive, OwnOp
    <3>2. Becomes(c, "opendir", r, "root", Start(c, "root"), {}, file[c])
      BY <1>1, <1>2, <1>3, <3>1, WalkBecomes DEF Goal
    <3>3. "root" \in Goal /\ Start(c, "root") \in Place /\ stage = "opendir"
      BY <2>3, Spelled DEF Goal, Start, Place
    <3> QED BY <2>3, <3>2, <3>3
  <2>4. op \in {"disk", "enter", "preview"} \/ op \in OwnOp \union {"download2copy"} \/ root
    BY DEF Op, FormOp
  <2> HIDE DEF root, stage
  <2> QED BY <2>1, <2>2, <2>3, <2>4, Zenon
<1>5. PICK g \in Goal, t \in SUBSET Spelling, d \in Place :
        /\ Becomes(c, stage, r, g, d, t, file[c])
        /\ stage = "opendir" => g = (IF root THEN "root" ELSE "own") /\ t = {} /\ d = Start(c, g)
  BY <1>4
<1>6. /\ pc' \in [Conn -> Stage] /\ WorkOK' /\ pc'[c] = stage /\ req'[c] = r /\ goal'[c] = g
      /\ dir'[c] = d /\ todo'[c] = t /\ \A e \in Conn \ {c} : SameWork(e)
  BY <1>5 DEF Becomes
<1>7. /\ state' \in [Conn -> Past] /\ \A e \in Conn \ {c} : state'[e] = state[e]
      /\ state'[c] = IF r \in Links(c) THEN "shown" ELSE "stale"
  BY <1>1, <1>3 DEF LocalsOK, Past, Set
<1>8. FilesOK' /\ DirsStay /\ NothingGone
  BY <1>1, <1>2 DEF FilesOK, Root, DirsStay, NothingGone
<1>9. LocalsOK'
  <2>1. requests' \in 0 .. MaxRequests
    BY <1>1, <1>3, BoundAssumption DEF LocalsOK
  <2> QED BY <1>1, <1>2, <1>6, <1>7, <2>1 DEF LocalsOK, AnyPath, Stage, Past
<1>10. \A e \in Conn \ {c} : ConnOK(e)'
  <2> SUFFICES ASSUME NEW e \in Conn \ {c} PROVE ConnOK(e)'
    OBVIOUS
  <2>1. Heeds(e)
    BY <1>2, <1>7, <1>8 DEF Heeds
  <2> QED BY <1>1, <1>2, <1>6, <1>8, <2>1, OthersKeep DEF IInv
<1>11. r.op = op /\ r.name = name /\ stage \in {"act", "opendir"}
  BY DEF r
<1>12. Mine(c, pwd[c])' <=> Mine(c, pwd[c])
  BY <1>2 DEF Mine, Root, AnyPath
<1>13. ConnOK(c)'
  <2>1. Walking(c)'
    <3> SUFFICES ASSUME stage = "opendir" PROVE Walking(c)'
      BY <1>6, <1>11 DEF Walking
    <3>1. d \in AnyPath /\ dir'[c] = d /\ todo'[c] = {} /\ pc'[c] = "opendir"
      BY <1>1, <1>5, <1>6, InHand, Lengths DEF Start
    <3>2. goal'[c] = "own" => Mine(c, dir[c])'
      BY <1>1, <1>2, <1>5, <1>6, InHand DEF Start, Mine, Root, AnyPath
    <3>3. goal'[c] = "own" => req'[c].op \in OwnOp \union {"download2copy"}
      BY <1>5, <1>6, <1>11 DEF Op, FormOp
    <3>4. goal'[c] = "root" => req'[c].op \in {"download2copy", "copy", "back", "mkdir"}
      BY <1>5, <1>6, <1>11
    <3> QED BY <3>1, <3>2, <3>3, <3>4 DEF Walking, OwnOp
  <2>2. Guarded(c)' /\ Deleting(c)' /\ Kept(c)'
    BY <1>6, <1>11 DEF Guarded, Deleting, Kept, OwnOp
  <2>3. Promised(c)'
    <3> SUFFICES ASSUME Shown(c)' PROVE Promised(c)'
      BY DEF Promised
    <3>1. r \in Links(c)
      BY <1>7 DEF Shown
    <3>2. LET target == pwd[c] \o name IN
          /\ Kind(pwd[c]) = "dir" /\ pwd[c] \in AnyPath /\ Simple(name)
          /\ op \in OwnOp \ {"upload"} => Mine(c, pwd[c])
          /\ op \in {"enter", "deleteDir"} => Kind(target) = "dir"
          /\ op \in {"download2copy", "copy"} => Kind(target) # "none" /\ target \in shared
          /\ op \in {"back", "mkdir"} => pwd[c] # Root
          /\ op = "preview" => Mine(c, pwd[c]) \/ target \in shared
      BY <1>1, <3>1, LinksMean DEF r
    <3>3. Target(c)' = pwd[c] \o name /\ Kind(pwd[c])' = Kind(pwd[c]) /\ Simple(req[c].name)'
      BY <1>2, <1>6, <1>11, <3>2 DEF Target, Kind, Simple
    <3>4. Kind(Target(c))' = Kind(pwd[c] \o name)
      BY <1>2, <3>3 DEF Kind
    <3>5. Offered(c)'
      BY <1>2, <1>6, <1>11, <1>12, <3>2, <3>3, <3>4 DEF Offered
    <3>6. Seeks(c)' => OnWay(c)'
      <4> SUFFICES ASSUME Seeks(c)' PROVE OnWay(c)'
        OBVIOUS
      <4>1. stage = "opendir" /\ pc'[c] = "opendir" /\ dir'[c] = Start(c, g) /\ goal'[c] = g
        BY <1>5, <1>6, <1>11 DEF Seeks
      <4>2. CASE g = "own"
        <5>1. Mine(c, pwd[c]) /\ pwd[c] # Home(c)
          BY <1>2, <1>12, <4>1, <4>2 DEF Seeks, Home
        <5> QED BY <1>1, <1>2, <3>2, <4>1, <4>2, <5>1, FromStart DEF OnWay, Start, Within
      <4>3. CASE g = "root"
        <5>1. pwd[c] # Root
          BY <1>2, <4>1, <4>3 DEF Seeks, Root
        <5> QED BY <1>1, <1>2, <3>2, <4>1, <4>3, <5>1, FromStart DEF OnWay, Start, Within
      <4> QED BY <4>1, <4>2, <4>3 DEF Seeks
    <3>7. (pc[c] = "opendir" => Kind(dir[c]) = "dir" \/ dir[c] = Home(c))'
      <4> SUFFICES ASSUME stage = "opendir"
                   PROVE  Kind(dir[c])' = "dir" \/ dir'[c] = Home(c)'
        BY <1>6, <1>11
      <4>1. dir'[c] = Root \/ dir'[c] = Home(c)
        BY <1>5, <1>6 DEF Start
      <4>2. kind[Root] = "dir" /\ Root \in Path
        BY <1>1, PathType DEF FilesOK
      <4> QED BY <1>2, <4>1, <4>2 DEF Kind, Home
    <3>8. (pc[c] \in {"opendir", "look"} /\ goal[c] = "listed" => file[c] = pwd[c])'
      BY <1>5, <1>6, <1>11
    <3> QED BY <1>6, <1>11, <3>2, <3>3, <3>5, <3>6, <3>7, <3>8 DEF Promised
  <2> QED BY <2>1, <2>2, <2>3 DEF ConnOK
<1>14. Leaks'
  <2> SUFFICES ASSUME NEW p \in private \intersect shared
               PROVE  p \in leaked' \/ \E e \in Conn : Uploading(e, p)'
    BY <1>2 DEF Leaks
  <2>1. CASE p \in leaked
    BY <1>2, <2>1
  <2>2. ASSUME NEW e \in Conn, Uploading(e, p) PROVE Uploading(e, p)'
    <3>1. e \in Conn \ {c} /\ SameWork(e) /\ state'[e] = state[e]
      BY <1>1, <1>6, <1>7, <2>2 DEF Uploading
    <3> QED BY <1>2, <2>2, <3>1 DEF Uploading, SameWork, Strays, Simple
  <2> QED BY <2>1, <2>2 DEF Leaks, IInv
<1>15. Ends'
  BY <1>1, <1>2, BoundAssumption DEF Ends
<1> QED BY <1>8, <1>9, <1>10, <1>13, <1>14, <1>15 DEF IInv

-----------------------------------------------------------------------------
(* What is left alone is set to what it is.                                *)
LEMMA LeftAlone ==
  ASSUME LocalsOK, NEW c \in Conn
  PROVE  /\ pc = Set(pc, c, pc[c]) /\ req = Set(req, c, req[c]) /\ goal = Set(goal, c, goal[c])
         /\ dir = Set(dir, c, dir[c]) /\ todo = Set(todo, c, todo[c])
         /\ file = Set(file, c, file[c])
BY DEF LocalsOK, WorkOK, Set

(* The entries of a directory are just below it.                           *)
LEMMA ChildOf ==
  ASSUME NEW q \in AnyPath, NEW p \in Children(q)
  PROVE  /\ p \in Path /\ p \in AnyPath /\ p # Root /\ Front(p) = q /\ kind[p] # "none"
         /\ Within(p, q) /\ (q # Root => p[1] = q[1])
<1>1. p \in Path /\ p \in AnyPath /\ p # Root /\ Front(p) = q /\ kind[p] # "none"
  BY PathType DEF Children
<1>2. Within(p, q)
  BY <1>1, FrontOf
<1> QED BY <1>1, <1>2, WithinSame

(* From a directory above a place the way goes on over one of its entries. *)
LEMMA WayOn ==
  ASSUME FilesOK, NEW p \in AnyPath, Kind(p) = "dir", NEW q \in AnyPath, Within(p, q), p # q
  PROVE  kind[q] = "dir" /\ \E r \in Children(q) : Within(p, r)
<1>1. p \in Path /\ kind[p] = "dir"
  BY DEF Kind
<1>2. PICK n \in 0 .. Len(p) :
        /\ SubSeq(p, 1, n) \in AnyPath /\ SubSeq(p, 1, n) # Root
        /\ Front(SubSeq(p, 1, n)) = q /\ Within(p, SubSeq(p, 1, n))
  BY NextOnWay
<1>3. SubSeq(p, 1, n) \in Path
  BY <1>1, PathAssumption
<1>4. kind[SubSeq(p, 1, n)] # "none"
  <2>1. CASE n = Len(p)
    <3>1. SubSeq(p, 1, n) = p
      BY <2>1, SubSeqFull DEF AnyPath
    <3> QED BY <1>1, <3>1
  <2>2. CASE n \in 0 .. Len(p) - 1
    BY <1>1, <2>2 DEF FilesOK
  <2>3. Len(p) \in Nat
    BY Lengths
  <2> QED BY <2>1, <2>2, <2>3
<1>5. kind[q] = "dir"
  <2>1. q = SubSeq(p, 1, Len(q)) /\ Len(q) <= Len(p) /\ Len(q) # Len(p)
    BY WithinSame
  <2>2. Len(q) \in 0 .. Len(p) - 1
    BY <2>1, Lengths
  <2> QED BY <1>1, <2>1, <2>2 DEF FilesOK
<1> QED BY <1>2, <1>3, <1>4, <1>5 DEF Children

(* InDir opens a directory: the names it has join those not yet looked at. *)
LEMMA OpendirKeeps ==
  ASSUME IInv, NEW c \in Conn, History(c), UNCHANGED <<owner, requests>>, Opendir(c)
  PROVE  IInv'
<1>1. LocalsOK /\ FilesOK /\ ConnOK(c) /\ down = NoConn /\ pc[c] = "opendir"
  BY DEF IInv, Opendir, At
<1>2. dir[c] \in AnyPath
  BY <1>1 DEF ConnOK, Walking
<1>3. CASE Kind(dir[c]) # "dir"
  <2>1. Abort(c)
    BY <1>3 DEF Opendir
  <2>2. EndsWell(c)
    BY <1>1, <1>3 DEF EndsWell, ConnOK, Promised, Shown
  <2> QED BY <1>1, <2>1, <2>2, AbortKeeps
<1>4. CASE Kind(dir[c]) = "dir"
  <2> DEFINE t == todo[c] \union Children(dir[c])
  <2>1. /\ pc' = Set(pc, c, "look") /\ todo' = Set(todo, c, t)
        /\ Calm /\ UNCHANGED <<req, goal, dir, file>>
    BY <1>4 DEF Opendir, Go
  <2>2. t \in SUBSET Path /\ t \in SUBSET Spelling
    BY <1>1, PathType, Spelled DEF Children, ConnOK, Walking
  <2> HIDE DEF t
  <2>3. Becomes(c, "look", req[c], goal[c], dir[c], t, file[c])
    BY <1>1, <2>1, <2>2, InHand, LeftAlone, SetsBecome DEF Stage
  <2>4. /\ UNCHANGED <<files, pwd, owner>> /\ kind' = kind /\ pwd' = pwd
        /\ pc'[c] = "look" /\ req'[c] = req[c] /\ goal'[c] = goal[c] /\ todo'[c] = t /\ file'[c] = file[c]
    BY <2>1, <2>3 DEF Becomes, Calm, files
  <2>5. ASSUME state'[c] = state[c] PROVE ConnOK(c)'
    <3>1. Walking(c)'
      <4>1. goal[c] = "own" => \A p \in t : Mine(c, p)
        BY <1>1, <1>2, ChildOf DEF t, ConnOK, Walking, Mine
      <4>2. (goal[c] = "own" => \A p \in todo[c] : Mine(c, p))'
        BY <2>4, <4>1 DEF Mine, Root, AnyPath
      <4> QED BY <1>1, <2>2, <2>4, <4>2 DEF Walking, ConnOK, OwnOp
    <3>2. Guarded(c)' /\ Deleting(c)' /\ Kept(c)'
      BY <2>4 DEF Guarded, Deleting, Kept
    <3>3. Promised(c)'
      <4> SUFFICES ASSUME Shown(c)' PROVE Promised(c)'
        BY DEF Promised
      <4>1. /\ Shown(c) /\ Kind(pwd[c])' = "dir" /\ Kind(pwd[c]) = "dir" /\ pwd[c] \in AnyPath
            /\ Simple(req[c].name)' /\ Offered(c)'
        BY <1>1, <2>4, <2>5, StillShown DEF ConnOK
      <4>2. Seeks(c)' => OnWay(c)'
        <5> SUFFICES ASSUME Seeks(c)' PROVE \E q \in t : Within(pwd[c], q)
          BY <2>4 DEF OnWay, Within
        <5>1. Seeks(c)
          BY <1>1, <2>4 DEF Seeks, Mine, Root, AnyPath, Home
        <5>2. CASE \E q \in todo[c] : Within(pwd[c], q)
          BY <5>2 DEF t
        <5>3. CASE Within(pwd[c], dir[c]) /\ dir[c] # pwd[c]
          BY <1>1, <1>2, <4>1, <5>3, WayOn DEF t
        <5> QED BY <1>1, <4>1, <5>1, <5>2, <5>3 DEF ConnOK, Promised, OnWay
      <4>3. (pc[c] \in {"opendir", "look"} /\ goal[c] = "listed" => file[c] = pwd[c])'
        BY <1>1, <2>4, <4>1 DEF ConnOK, Promised
      <4> QED BY <2>4, <4>1, <4>2, <4>3 DEF Promised
    <3> QED BY <3>1, <3>2, <3>3 DEF ConnOK
  <2> QED BY <1>1, <2>1, <2>3, <2>5, CalmKeeps DEF Stage
<1> QED BY <1>3, <1>4

(* InDir answers, and the handler goes on: with the request in a place     *)
(* that is the user's own or reached from the root, or refuses it.         *)
LEMMA FoundKeeps ==
  ASSUME IInv, NEW c \in Conn, History(c), UNCHANGED <<owner, requests>>,
         At(c, "look"), Calm, NEW yes \in BOOLEAN, Found(c, yes),
         yes => pwd[c] \in todo[c], ~yes /\ Shown(c) => ~Seeks(c)
  PROVE  IInv'
<1> DEFINE op == req[c].op
           own == yes \/ pwd[c] = Home(c)
           in == yes \/ (op \in {"download2copy", "copy"} /\ pwd[c] = Root)
<1>1. /\ LocalsOK /\ FilesOK /\ ConnOK(c) /\ down = NoConn /\ pc[c] = "look"
      /\ UNCHANGED <<files, pwd, owner>> /\ kind' = kind /\ pwd' = pwd /\ down' = down
  BY DEF IInv, At, Calm, files
<1>2. /\ goal[c] = "own" => op \in OwnOp \union {"download2copy"}
      /\ goal[c] = "own" /\ own => Mine(c, pwd[c])
      /\ goal[c] = "root" => op \in {"download2copy", "copy", "back", "mkdir"}
      /\ goal[c] = "root" /\ in => pwd[c] \in AnyPath
  BY <1>1, InHand, PathType, Lengths DEF ConnOK, Walking, Mine
<1>3. Shown(c) => Kind(pwd[c]) = "dir" /\ Offered(c) /\ pwd[c] \in AnyPath
  BY <1>1, PathType DEF ConnOK, Promised, Kind
<1>4. CASE goal[c] = "own" /\ ~own /\ op = "download2copy"
  <2>1. Walk(c, "root") /\ UNCHANGED <<req, file>>
    BY <1>4 DEF Found, InOwn
  <2>2. Becomes(c, "opendir", req[c], "root", Root, {}, file[c])
    <3>1. "root" \in Goal /\ Start(c, "root") = Root
      BY DEF Goal, Start
    <3> QED BY <1>1, <2>1, <3>1, InHand, LeftAlone, WalkBecomes
  <2>3. /\ pc'[c] = "opendir" /\ req'[c] = req[c] /\ goal'[c] = "root" /\ dir'[c] = Root
        /\ todo'[c] = {}
    BY <2>2 DEF Becomes
  <2>4. ASSUME state'[c] = state[c] PROVE ConnOK(c)'
    <3>1. Walking(c)' /\ Guarded(c)' /\ Deleting(c)' /\ Kept(c)'
      BY <1>4, <2>3, PathType DEF Walking, Guarded, Deleting, Kept
    <3>2. Promised(c)'
      <4> SUFFICES ASSUME Shown(c)' PROVE Promised(c)'
        BY DEF Promised
      <4>1. Shown(c) /\ Kind(pwd[c])' = "dir" /\ Simple(req[c].name)' /\ Offered(c)'
        BY <1>1, <2>3, <2>4, StillShown DEF ConnOK
      <4>2. Seeks(c)' => OnWay(c)'
        BY <1>1, <1>3, <2>3, <4>1, FromStart DEF Seeks, OnWay, Root, Within
      <4>3. Kind(dir[c])' = "dir"
        BY <1>1, <2>3, PathType DEF Kind, FilesOK
      <4> QED BY <2>3, <4>1, <4>2, <4>3 DEF Promised
    <3> QED BY <3>1, <3>2 DEF ConnOK
  <2> QED BY <1>1, <2>2, <2>4, CalmKeeps DEF Stage
<1>5. ASSUME NEW stage \in {"act", "check", "list"}, Proceed(c, stage),
             stage = "act" /\ op \in OwnOp \union {"download2copy"} => goal[c] = "own" /\ own,
             stage = "check" => op = "download2copy" /\ pwd[c] \in AnyPath
      PROVE  IInv'
  <2>2. stage \in Stage /\ stage \notin Over /\ stage # "idle"
    BY DEF Stage, Over
  <2>3. Becomes(c, stage, req[c], "own", Nowhere, {}, Nowhere)
    BY <1>1, <1>5, <2>2, ProceedBecomes
  <2>4. pc'[c] = stage /\ req'[c] = req[c] /\ todo'[c] = {}
    BY <2>3 DEF Becomes
  <2>5. ASSUME state'[c] = state[c] PROVE ConnOK(c)'
    <3>1. Walking(c)' /\ Deleting(c)' /\ Kept(c)'
      BY <2>4 DEF Walking, Deleting, Kept
    <3>2. Guarded(c)'
      <4>1. Mine(c, pwd[c])' <=> Mine(c, pwd[c])
        BY <1>1, <2>4, OfferStands
      <4>2. stage = "act" /\ op \in OwnOp \union {"download2copy"} => Mine(c, pwd[c])
        BY <1>2, <1>5 DEF OwnOp
      <4> QED BY <1>1, <1>5, <2>4, <4>1, <4>2 DEF Guarded, OwnOp, AnyPath
    <3>3. Promised(c)'
      <4> SUFFICES ASSUME Shown(c)' PROVE Promised(c)'
        BY DEF Promised
      <4>1. Kind(pwd[c])' = "dir" /\ Simple(req[c].name)' /\ Offered(c)'
        BY <1>1, <2>4, <2>5, StillShown DEF ConnOK
      <4> QED BY <2>4, <4>1 DEF Promised, Seeks
    <3> QED BY <3>1, <3>2, <3>3 DEF ConnOK
  <2> QED BY <1>1, <2>2, <2>3, <2>5, CalmKeeps
<1>6. CASE goal[c] = "listed"
  <2> DEFINE t == Children(file[c])
  <2>1. /\ pc' = Set(pc, c, "stat") /\ todo' = Set(todo, c, t) /\ UNCHANGED <<req, goal, dir, file>>
    BY <1>6 DEF Found, Go
  <2>2. t \in SUBSET Path /\ t \in SUBSET Spelling
    BY PathType, Spelled DEF Children
  <2>3. Shown(c) => \A p \in t : p # Root /\ Front(p) = pwd[c] /\ kind[p] # "none"
    BY <1>1, <1>3, <1>6, ChildOf DEF ConnOK, Promised
  <2> HIDE DEF t
  <2>4. Becomes(c, "stat", req[c], goal[c], dir[c], t, file[c])
    BY <1>1, <2>1, <2>2, InHand, LeftAlone, SetsBecome DEF Stage
  <2>5. pc'[c] = "stat" /\ req'[c] = req[c] /\ todo'[c] = t
    BY <2>4 DEF Becomes
  <2>6. ASSUME state'[c] = state[c] PROVE ConnOK(c)'
    <3>1. Walking(c)' /\ Deleting(c)' /\ Kept(c)' /\ Guarded(c)'
      BY <2>2, <2>5 DEF Walking, Deleting, Kept, Guarded
    <3>2. Promised(c)'
      <4> SUFFICES ASSUME Shown(c)' PROVE Promised(c)'
        BY DEF Promised
      <4>1. Shown(c) /\ Kind(pwd[c])' = "dir" /\ Simple(req[c].name)' /\ Offered(c)'
        BY <1>1, <2>5, <2>6, StillShown DEF ConnOK
      <4> QED BY <1>1, <2>3, <2>5, <4>1 DEF Promised, Seeks, Root
    <3> QED BY <3>1, <3>2 DEF ConnOK
  <2> QED BY <1>1, <2>4, <2>6, CalmKeeps DEF Stage
<1>7. ASSUME \/ goal[c] = "own" /\ ~own /\ op # "download2copy"
             \/ goal[c] = "root" /\ ~in
      PROVE  IInv'
  <2>1. Proceed(c, "forbidden")
    BY <1>7 DEF Found, InOwn
  <2>2. Shown(c) => op = "upload" /\ ~Mine(c, pwd[c])
    <3> SUFFICES ASSUME Shown(c), op # "upload" \/ Mine(c, pwd[c]) PROVE FALSE
      OBVIOUS
    <3>1. CASE goal[c] = "own" /\ ~own /\ op # "download2copy"
      BY <1>1, <1>2, <1>3, <3>1 DEF Offered, Seeks
    <3>2. CASE goal[c] = "root" /\ ~in
      BY <1>1, <1>2, <1>3, <3>2 DEF Offered, Seeks
    <3> QED BY <1>7, <3>1, <3>2
  <2> QED BY <1>1, <2>1, <2>2, RefusedKeeps
<1>8. goal[c] \in {"own", "root", "page", "listed"}
  BY <1>1, InHand DEF Goal
<1>9. CASE goal[c] = "own" /\ own
  <2>1. Proceed(c, "act")
    BY <1>9 DEF Found, InOwn
  <2> QED BY <1>5, <1>9, <2>1
<1>10. CASE goal[c] = "root" /\ in
  <2>1. Proceed(c, IF op = "download2copy" THEN "check" ELSE "act")
    BY <1>10 DEF Found
  <2>2. op \in OwnOp \union {"download2copy"} => op = "download2copy"
    BY <1>2, <1>10 DEF OwnOp
  <2> QED BY <1>2, <1>5, <1>10, <2>1, <2>2
<1>11. CASE goal[c] = "page"
  <2>1. Proceed(c, "list")
    BY <1>11 DEF Found
  <2> QED BY <1>5, <2>1
<1> QED BY <1>4, <1>6, <1>7, <1>8, <1>9, <1>10, <1>11

(* InDir looks at the next name: it descends, or has its answer.           *)
LEMMA LookKeeps ==
  ASSUME IInv, NEW c \in Conn, History(c), UNCHANGED <<owner, requests>>, Look(c)
  PROVE  IInv'
<1>1. /\ LocalsOK /\ FilesOK /\ ConnOK(c) /\ down = NoConn /\ pc[c] = "look" /\ At(c, "look") /\ Calm
      /\ UNCHANGED <<files, pwd, owner>> /\ kind' = kind /\ pwd' = pwd
  BY DEF IInv, Look, At, Calm, files
<1>2. CASE pwd[c] \in todo[c] /\ Found(c, TRUE)
  BY <1>1, <1>2, FoundKeeps
<1>3. ASSUME NEW p \in todo[c] \ {pwd[c]}, kind[p] = "dir", Go(c, "opendir"), dir' = Set(dir, c, p),
             todo' = Set(todo, c, todo[c] \ {p}), UNCHANGED <<req, goal, file>>
      PROVE  IInv'
  <2> DEFINE t == todo[c] \ {p}
  <2>1. /\ t \in SUBSET Path /\ t \in SUBSET Spelling
        /\ p \in Path /\ p \in AnyPath /\ p \in Place
    BY <1>1, PathType, Spelled DEF Place, ConnOK, Walking
  <2>2. pc' = Set(pc, c, "opendir") /\ todo' = Set(todo, c, t)
    BY <1>3 DEF Go
  <2>3. Becomes(c, "opendir", req[c], goal[c], p, t, file[c])
    <3> HIDE DEF t
    <3> QED BY <1>1, <1>3, <2>1, <2>2, InHand, LeftAlone, SetsBecome DEF Stage
  <2>4. /\ pc'[c] = "opendir" /\ req'[c] = req[c] /\ goal'[c] = goal[c] /\ dir'[c] = p
        /\ todo'[c] = t /\ file'[c] = file[c]
    BY <2>3 DEF Becomes
  <2>5. ASSUME state'[c] = state[c] PROVE ConnOK(c)'
    <3>1. Walking(c)'
      BY <1>1, <2>1, <2>4 DEF ConnOK, Walking, Mine, Root, AnyPath, OwnOp
    <3>2. Guarded(c)' /\ Deleting(c)' /\ Kept(c)'
      BY <2>4 DEF Guarded, Deleting, Kept
    <3>3. Promised(c)'
      <4> SUFFICES ASSUME Shown(c)' PROVE Promised(c)'
        BY DEF Promised
      <4>1. Shown(c) /\ Kind(pwd[c])' = "dir" /\ Simple(req[c].name)' /\ Offered(c)'
        BY <1>1, <2>4, <2>5, StillShown DEF ConnOK
      <4>2. Seeks(c)' => OnWay(c)'
        <5> SUFFICES ASSUME Seeks(c)' PROVE OnWay(c)'
          OBVIOUS
        <5>1. Seeks(c)
          BY <1>1, <2>4 DEF Seeks, Mine, Root, AnyPath, Home
        <5>2. PICK q \in todo[c] : Within(pwd[c], q)
          BY <1>1, <4>1, <5>1 DEF ConnOK, Promised, OnWay
        <5>3. CASE q = p
          BY <1>1, <1>3, <2>4, <5>2, <5>3 DEF OnWay, Within
        <5>4. CASE q # p
          BY <1>1, <2>4, <5>2, <5>4 DEF OnWay, Within
        <5> QED BY <5>3, <5>4
      <4>3. Kind(dir[c])' = "dir"
        BY <1>1, <1>3, <2>1, <2>4 DEF Kind
      <4>4. (pc[c] \in {"opendir", "look"} /\ goal[c] = "listed" => file[c] = pwd[c])'
        BY <1>1, <2>4, <4>1 DEF ConnOK, Promised
      <4> QED BY <2>4, <4>1, <4>2, <4>3, <4>4 DEF Promised
    <3> QED BY <3>1, <3>2, <3>3 DEF ConnOK
  <2> HIDE DEF t
  <2> QED BY <1>1, <2>3, <2>5, CalmKeeps DEF Stage
<1>4. CASE pwd[c] \notin todo[c] /\ (\A p \in todo[c] : kind[p] # "dir") /\ Found(c, FALSE)
  <2>1. ~(Shown(c) /\ Seeks(c))
    <3> SUFFICES ASSUME Shown(c), Seeks(c) PROVE FALSE
      OBVIOUS
    <3>1. Kind(pwd[c]) = "dir" /\ OnWay(c) /\ pwd[c] \in AnyPath
      BY <1>1, PathType DEF ConnOK, Promised, Kind
    <3>2. PICK q \in todo[c] : Within(pwd[c], q)
      BY <1>1, <3>1 DEF OnWay
    <3>3. q \in AnyPath /\ q # pwd[c]
      BY <1>1, <1>4, <3>2, PathType DEF ConnOK, Walking
    <3> QED BY <1>1, <1>4, <3>1, <3>2, <3>3, WayOn
  <2> QED BY <1>1, <1>4, <2>1, FoundKeeps
<1> QED BY <1>2, <1>3, <1>4 DEF Look

-----------------------------------------------------------------------------
(* A handler that is done in one step: what it did to the tree, and that   *)
(* it left no unshared bytes in a shared file.                             *)
LEMMA HandlerKeeps ==
  ASSUME IInv, NEW c \in Conn, History(c), UNCHANGED <<owner, requests>>,
         down = NoConn, pc[c] # "idle", Proceed(c, "page"), UNCHANGED <<pwd, down>>,
         FileStep, LeakStep(c),
         Kind(pwd[c]) = "dir" => kind'[pwd[c]] = "dir" \/ ~Shown(c)
  PROVE  IInv'
<1>1. LocalsOK /\ ConnOK(c) /\ pwd' = pwd
  BY DEF IInv
<1>2. Shown(c) => Kind(pwd[c])' = "dir"
  BY <1>1 DEF ConnOK, Promised, Kind
<1>3. "page" \in Over /\ pwd' \in [Conn -> Spelling]
  BY <1>1 DEF Over, LocalsOK
<1> QED BY <1>1, <1>2, <1>3, OverKeeps

(* chmod: the file at p is not shared with unshared bytes afterwards.      *)
LEMMA ModeLeaks ==
  ASSUME FilesOK, NEW p, NEW x \in BOOLEAN, SetMode(p, x)
  PROVE  kind' = kind /\ \A q \in private' \intersect shared' : q \in private \intersect shared /\ q # p
<1>1. kind' = kind
  BY DEF SetMode
<1>2. CASE Kind(p) = "none"
  BY <1>2 DEF SetMode, Kind, FilesOK
<1>3. CASE Kind(p) # "none" /\ ~x
  BY <1>3 DEF SetMode
<1>4. CASE Kind(p) # "none" /\ x
  <2>1. shared' = shared \union {p} /\ p \notin private'
    BY <1>4 DEF SetMode, Kind, FilesOK
  <2>2. private' \subseteq private
    BY <1>4 DEF SetMode
  <2> QED BY <1>1, <2>1, <2>2
<1> QED BY <1>1, <1>2, <1>3, <1>4

(* /share, /unshare, and the chmod after an upload.                        *)
LEMMA ModeKeeps ==
  ASSUME IInv, NEW c \in Conn, History(c), UNCHANGED <<owner, requests>>,
         down = NoConn, pc[c] # "idle", Proceed(c, "page"), UNCHANGED <<pwd, down>>,
         NEW x \in BOOLEAN, SetMode(Spot(c), x)
  PROVE  IInv'
<1>1. LocalsOK /\ FilesOK
  BY DEF IInv
<1>2. FileStep
  BY <1>1, InHand DEF FileStep
<1>3. kind' = kind /\ LeakStep(c)
  <2>1. /\ kind' = kind
        /\ \A q \in private' \intersect shared' : q \in private \intersect shared /\ q # Spot(c)
    BY <1>1, ModeLeaks
  <2>2. pc[c] = "chmod" /\ Spot(c) # file[c] => file[c] \in leaked'
    BY DEF History
  <2> QED BY <2>1, <2>2 DEF LeakStep, Uploading
<1> QED BY <1>2, <1>3, HandlerKeeps DEF Kind

(* What is removed takes its mode and bytes along.                         *)
LEMMA VanishLeaks ==
  ASSUME NEW c \in Conn, NEW p, Vanish(p), pc[c] # "chmod"
  PROVE  LeakStep(c)
BY DEF Vanish, LeakStep, Uploading

(* Where there is room is a path in a directory.                           *)
LEMMA RoomMeans ==
  ASSUME FilesOK, NEW t, Room(t)
  PROVE  /\ t \in Path /\ t # Root /\ t \in Place
         /\ kind[t] \in {"none", "file"} /\ kind[Front(t)] = "dir"
<1>1. t \in Path /\ kind[t] # "dir" /\ Kind(Front(t)) = "dir" /\ t \in Place
  BY PathType, Spelled DEF Room, Kind, Place
<1> QED BY <1>1 DEF FilesOK, Kind

(* remove(3) takes a file or an empty directory, or nothing.               *)
LEMMA UnnameMeans ==
  ASSUME NEW p, Unname(p)
  PROVE  UNCHANGED files \/ (Resolve(p) \in Path /\ Removes(Resolve(p)))
BY DEF Unname, Kind, Removes

(* /upload writes: the bytes are unshared until the mode is.               *)
LEMMA UploadKeeps ==
  ASSUME IInv, NEW c \in Conn, History(c), UNCHANGED <<owner, requests>>, Upload(c)
  PROVE  IInv'
<1>t. PICK t : t = Spot(c)
  OBVIOUS
<1>f. PICK f : f = IF Room(t) THEN t ELSE file[c]
  OBVIOUS
<1>1. /\ LocalsOK /\ FilesOK /\ ConnOK(c) /\ down = NoConn /\ pc[c] = "act" /\ req[c].op = "upload"
      /\ pwd' = pwd /\ down' = down /\ pc' = Set(pc, c, "chmod") /\ UNCHANGED <<req, goal, dir, todo>>
  BY DEF IInv, Upload, Doing, At, Go
<1>6. \/ Room(t) /\ Puts(t, "file") /\ private' = private \union {t} /\ UNCHANGED shared
         /\ file' = Set(file, c, t)
      \/ ~Room(t) /\ UNCHANGED <<files, file>>
  <2>1. CASE Room(t)
    <3>1. /\ kind' = Set(kind, t, "file") /\ private' = private \union {t} /\ shared' = shared
          /\ file' = Set(file, c, t)
      BY <1>t, <2>1 DEF Upload
    <3> QED BY <1>1, <2>1, <3>1, RoomMeans DEF Puts
  <2>2. CASE ~Room(t)
    BY <1>t, <2>2 DEF Upload
  <2> QED BY <2>1, <2>2
<1>2. Becomes(c, "chmod", req[c], goal[c], dir[c], todo[c], f)
  <2>1. f \in Place
    BY <1>f, <1>1, RoomMeans, InHand
  <2>2. file' = Set(file, c, f)
    BY <1>f, <1>1, <1>6, LeftAlone
  <2> QED BY <1>1, <2>1, <2>2, InHand, LeftAlone, SetsBecome DEF Stage
<1>3. /\ pc'[c] = "chmod" /\ req'[c] = req[c] /\ file'[c] = f /\ \A e \in Conn \ {c} : SameWork(e)
      /\ state'[c] = state[c]
  BY <1>1, <1>2, HistoryOf DEF Becomes
<1>4. /\ state[c] # "moved" => Mine(c, pwd[c])
      /\ ~Strays(c) => Mine(c, t)
  <2>1. state[c] # "moved" => Mine(c, pwd[c])
    BY <1>1 DEF ConnOK, Guarded, OwnOp
  <2> QED BY <1>t, <1>1, <2>1, TargetOf DEF Strays, Mine
<1>7. FileStep /\ DirsStay /\ NothingGone
  <2>1. CASE UNCHANGED files
    BY <1>1, <2>1 DEF FileStep, DirsStay, NothingGone, files, FilesOK
  <2>2. CASE Room(t) /\ Puts(t, "file")
    BY <1>1, <2>2, RoomMeans, PutKeeps DEF FileStep
  <2> QED BY <1>6, <2>1, <2>2
<1>8. Room(t) => Uploading(c, t)'
  <2>1. owner[c] = t[1] \/ Strays(c)
    BY <1>4 DEF Mine
  <2>2. Strays(c) => Strays(c)'
    BY <1>3 DEF Strays, Simple
  <2> QED BY <1>f, <1>3, <2>1, <2>2 DEF Uploading
<1>9. LeakStep(c)
  <2>1. CASE UNCHANGED files
    BY <1>1, <2>1, CalmLeaksNothing
  <2>2. CASE Room(t) /\ private' = private \union {t} /\ UNCHANGED shared
    <3> SUFFICES ASSUME NEW p \in private' \intersect shared', p # t
                 PROVE  p \in private \intersect shared /\ ~Uploading(c, p)
      BY <1>8, <2>2 DEF LeakStep
    <3> QED BY <1>1, <2>2 DEF Uploading
  <2> QED BY <1>6, <2>1, <2>2
<1>10. ConnOK(c)'
  <2>1. Walking(c)' /\ Deleting(c)' /\ Kept(c)'
    BY <1>3 DEF Walking, Deleting, Kept
  <2>2. Mine(c, pwd[c])' <=> Mine(c, pwd[c])
    BY <1>1 DEF Mine, Root, AnyPath
  <2>3. Guarded(c)'
    BY <1>3, <1>4, <2>2 DEF Guarded
  <2>4. Promised(c)'
    <3> SUFFICES ASSUME Shown(c)' PROVE Promised(c)'
      BY DEF Promised
    <3>1. Shown(c) /\ Kind(pwd[c]) = "dir" /\ Simple(req[c].name)'
      BY <1>1, <1>3 DEF Shown, ConnOK, Promised, Simple
    <3>2. Kind(pwd[c])' = "dir"
      BY <1>1, <1>7, <3>1, KindKept DEF Kind
    <3>3. Offered(c)'
      BY <1>1, <1>3 DEF Offered
    <3> QED BY <1>3, <3>1, <3>2, <3>3 DEF Promised, Seeks
  <2> QED BY <2>1, <2>3, <2>4 DEF ConnOK
<1>11. pwd' \in [Conn -> Spelling]
  BY <1>1 DEF LocalsOK
<1> QED BY <1>1, <1>2, <1>7, <1>9, <1>10, <1>11, StepKeeps, BoundAssumption DEF Becomes

(* The chmod after an upload, of /share and of /unshare changes no kind.   *)
LEMMA UploadChmodKeeps ==
  ASSUME IInv, NEW c \in Conn, History(c), UNCHANGED <<owner, requests>>, UploadChmod(c)
  PROVE  IInv'
BY ModeKeeps DEF UploadChmod, At

(* What a request names gets S_IXOTH.                                      *)
LEMMA ShareKeeps ==
  ASSUME IInv, NEW c \in Conn, History(c), UNCHANGED <<owner, requests>>, Share(c)
  PROVE  IInv'
BY ModeKeeps DEF Share, Doing, At

(* What it names loses S_IXOTH.                                            *)
LEMMA UnshareKeeps ==
  ASSUME IInv, NEW c \in Conn, History(c), UNCHANGED <<owner, requests>>, Unshare(c)
  PROVE  IInv'
BY ModeKeeps DEF Unshare, Doing, At

(* /delete takes away the thing it names, not the directory of the page.   *)
LEMMA DeleteKeeps ==
  ASSUME IInv, NEW c \in Conn, History(c), UNCHANGED <<owner, requests>>, Delete(c)
  PROVE  IInv'
<1> DEFINE t == Target(c)
<1>1. /\ LocalsOK /\ FilesOK /\ ConnOK(c) /\ down = NoConn /\ pc[c] = "act" /\ UNCHANGED <<pwd, down>>
      /\ Proceed(c, "page") /\ Unname(t)
  BY DEF IInv, Delete, Doing, At
<1> HIDE DEF t
<1>2. Shown(c) => Resolve(t) # pwd[c]
  <2> SUFFICES ASSUME Shown(c) PROVE Resolve(t) # pwd[c]
    OBVIOUS
  <2>1. pwd[c] \in AnyPath /\ Simple(req[c].name)
    BY <1>1, PathType DEF ConnOK, Promised, Kind
  <2>2. Resolve(t) \in AnyPath /\ Len(Resolve(t)) = Len(pwd[c]) + 1
    BY <1>1, <2>1, TargetOf, LeadsTo DEF t
  <2>3. Len(pwd[c]) \in Nat
    BY <2>1, Lengths
  <2> QED BY <2>2, <2>3
<1>4. CASE UNCHANGED files
  <2>1. FileStep /\ LeakStep(c) /\ kind' = kind
    BY <1>1, <1>4, CalmLeaksNothing DEF FileStep, files
  <2> QED BY <1>1, <2>1, HandlerKeeps DEF Kind
<1>5. CASE Resolve(t) \in Path /\ Removes(Resolve(t))
  <2>1. FileStep /\ LeakStep(c)
    BY <1>1, <1>5, VanishLeaks DEF FileStep, Removes
  <2>2. Kind(pwd[c]) = "dir" => kind'[pwd[c]] = "dir" \/ ~Shown(c)
    BY <1>1, <1>2, <1>5 DEF Removes, Vanish, Set, Kind, FilesOK
  <2> QED BY <1>1, <2>1, <2>2, HandlerKeeps
<1> QED BY <1>1, <1>4, <1>5, UnnameMeans

(* /mkdir                                                                  *)
LEMMA MkdirKeeps ==
  ASSUME IInv, NEW c \in Conn, History(c), UNCHANGED <<owner, requests>>, Mkdir(c)
  PROVE  IInv'
<1> DEFINE t == Spot(c)
<1>1. /\ LocalsOK /\ FilesOK /\ down = NoConn /\ pc[c] = "act" /\ UNCHANGED <<pwd, down>>
      /\ Proceed(c, "page") /\ shared' = shared /\ private' = private
  BY DEF IInv, Mkdir, Doing, At
<1>3. LeakStep(c)
  BY <1>1 DEF LeakStep, Uploading
<1> HIDE DEF t
<1>4. CASE Room(t) /\ Kind(t) = "none"
  <2>1. kind' = Set(kind, t, "dir")
    BY <1>4 DEF Mkdir, t
  <2>2. t \in Path /\ t # Root /\ kind[t] = "none" /\ kind[Front(t)] = "dir"
    BY <1>1, <1>4, RoomMeans DEF Kind
  <2>3. Puts(t, "dir")
    BY <1>1, <2>1, <2>2 DEF Puts
  <2>4. FileStep /\ DirsStay /\ NothingGone
    BY <1>1, <2>2, <2>3, PutKeeps DEF FileStep
  <2>5. Kind(pwd[c]) = "dir" => kind'[pwd[c]] = "dir"
    BY <2>4 DEF Kind, DirsStay, NothingGone
  <2> QED BY <1>1, <1>3, <2>4, <2>5, HandlerKeeps
<1>5. CASE ~(Room(t) /\ Kind(t) = "none")
  <2>1. kind' = kind
    BY <1>5 DEF Mkdir, t
  <2>2. FileStep
    BY <1>1, <2>1 DEF FileStep, files
  <2> QED BY <1>1, <1>3, <2>1, <2>2, HandlerKeeps DEF Kind
<1> QED BY <1>4, <1>5

-----------------------------------------------------------------------------
(* /deleteDir begins at the directory it names.                            *)
LEMMA DeleteDirKeeps ==
  ASSUME IInv, NEW c \in Conn, History(c), UNCHANGED <<owner, requests>>, DeleteDir(c)
  PROVE  IInv'
<1>t. PICK t : t = Target(c)
  OBVIOUS
<1>1. /\ LocalsOK /\ FilesOK /\ ConnOK(c) /\ down = NoConn /\ pc[c] = "act" /\ req[c].op = "deleteDir"
      /\ Calm /\ UNCHANGED <<files, pwd, owner>> /\ kind' = kind /\ pwd' = pwd
  BY DEF IInv, DeleteDir, Doing, At, Calm, files
<1>2. /\ t \in Spelling /\ t \in Place /\ todo[c] = {}
      /\ ~Strays(c) =>
           /\ t \in AnyPath /\ t # Root /\ Front(t) = pwd[c] /\ Within(t, t)
           /\ Mine(c, pwd[c])
  <2>1. todo[c] = {} /\ (state[c] # "moved" => Mine(c, pwd[c]))
    BY <1>1 DEF ConnOK, Guarded, OwnOp
  <2>2. ASSUME ~Strays(c)
        PROVE  t \in AnyPath /\ t # Root /\ Front(t) = pwd[c] /\ Within(t, t)
    <3>1. pwd[c] \in AnyPath /\ Simple(req[c].name)
      BY <2>1, <2>2 DEF Strays, Mine
    <3>2. t \in AnyPath /\ t # Root /\ Front(t) = pwd[c]
      BY <1>t, <1>1, <3>1, TargetOf
    <3>3. Within(t, t)
      BY <3>2, Lengths DEF Within
    <3> QED BY <3>2, <3>3
  <2>3. t \in Spelling /\ t \in Place
    BY <1>t, <1>1, InHand DEF Place
  <2> QED BY <2>1, <2>2, <2>3 DEF Strays
<1>3. /\ pc' = Set(pc, c, "descend") /\ dir' = Set(dir, c, t) /\ file' = Set(file, c, t)
      /\ UNCHANGED <<req, goal, todo>>
  BY <1>t DEF DeleteDir, Go
<1>4. Becomes(c, "descend", req[c], goal[c], t, todo[c], t)
  BY <1>1, <1>2, <1>3, InHand, LeftAlone, SetsBecome DEF Stage
<1>5. pc'[c] = "descend" /\ req'[c] = req[c] /\ dir'[c] = t /\ file'[c] = t /\ todo'[c] = {}
  BY <1>2, <1>4 DEF Becomes
<1>6. ASSUME state'[c] = state[c] PROVE ConnOK(c)'
  <2>1. Walking(c)' /\ Guarded(c)' /\ Kept(c)'
    BY <1>5 DEF Walking, Guarded, Kept
  <2>2. Mine(c, pwd[c])' <=> Mine(c, pwd[c])
    BY <1>1 DEF Mine, Root, AnyPath
  <2>3. Deleting(c)'
    <3>1. Strays(c) => Strays(c)'
      BY <1>5, <1>6 DEF Strays, Simple
    <3> QED BY <1>1, <1>2, <1>5, <2>2, <3>1 DEF Deleting, AnyPath, Spelling, Dots, Within, Root
  <2>4. Promised(c)'
    <3> SUFFICES ASSUME Shown(c)' PROVE Promised(c)'
      BY DEF Promised
    <3>1. Shown(c) /\ Kind(pwd[c])' = "dir" /\ Simple(req[c].name)' /\ Offered(c)
      BY <1>1, <1>5, <1>6, StillShown DEF ConnOK
    <3>2. Kind(dir[c])' = "dir"
      BY <1>t, <1>1, <1>5, <3>1 DEF Offered, Kind
    <3> QED BY <1>5, <3>1, <3>2 DEF Promised, Seeks
  <2> QED BY <2>1, <2>3, <2>4 DEF ConnOK
<1> QED BY <1>1, <1>4, <1>6, CalmKeeps DEF Stage

(* The entries of a directory are spelled with its path.                   *)
LEMMA EntriesOf ==
  ASSUME NEW p \in Spelling
  PROVE  /\ Entries(p) \subseteq Spelling
         /\ p \in AnyPath => \A e \in Entries(p) : e \in AnyPath /\ Within(e, p)
<1> SUFFICES ASSUME NEW q \in Children(Resolve(p))
             PROVE  LET e == Append(p, Last(q)) IN
                    e \in Spelling /\ (p \in AnyPath => e \in AnyPath /\ Within(e, p))
  BY DEF Entries
<1>1. Last(q) \in User
  BY PathType, FrontOf DEF Children
<1>2. Append(p, Last(q)) \in Spelling
  BY <1>1, AppendProperties DEF Spelling
<1>3. ASSUME p \in AnyPath PROVE Append(p, Last(q)) \in AnyPath /\ Within(Append(p, Last(q)), p)
  <2> DEFINE e == Append(p, Last(q))
  <2>1. e \in AnyPath /\ e # Root /\ Front(e) = p
    BY <1>1, <1>3, AppendOf
  <2> HIDE DEF e
  <2>2. Within(e, p)
    BY <2>1, FrontOf
  <2> QED BY <2>1, <2>2 DEF e
<1> QED BY <1>2, <1>3

(* DeleteDir opens a directory: its entries are below it.                  *)
LEMMA DescendKeeps ==
  ASSUME IInv, NEW c \in Conn, History(c), UNCHANGED <<owner, requests>>, Descend(c)
  PROVE  IInv'
<1>1. LocalsOK /\ FilesOK /\ ConnOK(c) /\ down = NoConn /\ pc[c] = "descend"
  BY DEF IInv, Descend, At
<1>2. /\ dir[c] \in Spelling
      /\ ~Strays(c) =>
           /\ dir[c] \in AnyPath /\ file[c] \in AnyPath /\ file[c] # Root
           /\ Within(dir[c], file[c]) /\ \A p \in todo[c] : p \in AnyPath /\ Within(p, file[c])
           /\ Mine(c, pwd[c]) /\ Front(file[c]) = pwd[c]
  BY <1>1 DEF ConnOK, Deleting
<1>3. CASE Kind(Resolve(dir[c])) # "dir"
  <2>1. Abort(c)
    BY <1>3 DEF Descend
  <2>2. Kind(dir[c]) # "dir"
    BY <1>3, LeadsTo, PathType DEF Kind
  <2>3. EndsWell(c)
    BY <1>1, <2>2 DEF EndsWell, ConnOK, Promised, Shown
  <2> QED BY <1>1, <2>1, <2>3, AbortKeeps
<1>4. CASE Kind(Resolve(dir[c])) = "dir"
  <2> DEFINE t == todo[c] \union Entries(dir[c])
  <2>1. /\ pc' = Set(pc, c, "empty") /\ todo' = Set(todo, c, t)
        /\ Calm /\ UNCHANGED <<req, goal, dir, file>>
    BY <1>4 DEF Descend, Go
  <2>2. t \in SUBSET Spelling
    BY <1>1, <1>2, InHand, EntriesOf
  <2>3. ~Strays(c) => \A p \in t : p \in AnyPath /\ Within(p, file[c])
    <3> SUFFICES ASSUME ~Strays(c), NEW p \in Entries(dir[c]) PROVE p \in AnyPath /\ Within(p, file[c])
      BY <1>2
    <3>1. p \in AnyPath /\ Within(p, dir[c])
      BY <1>2, EntriesOf
    <3> QED BY <1>2, <3>1, WithinOrder
  <2> HIDE DEF t
  <2>4. Becomes(c, "empty", req[c], goal[c], dir[c], t, file[c])
    BY <1>1, <2>1, <2>2, InHand, LeftAlone, SetsBecome DEF Stage
  <2>5. /\ UNCHANGED <<files, pwd, owner>> /\ pwd' = pwd
        /\ pc'[c] = "empty" /\ req'[c] = req[c] /\ dir'[c] = dir[c] /\ todo'[c] = t /\ file'[c] = file[c]
    BY <2>1, <2>4 DEF Becomes, Calm
  <2>6. ASSUME state'[c] = state[c] PROVE ConnOK(c)'
    <3>1. Walking(c)' /\ Guarded(c)' /\ Kept(c)'
      BY <2>5 DEF Walking, Guarded, Kept
    <3>2. Deleting(c)'
      <4>1. Strays(c) => Strays(c)'
        BY <2>5, <2>6 DEF Strays, Simple
      <4> QED BY <1>2, <2>3, <2>5, <4>1 DEF Deleting, Mine, Root, AnyPath, Spelling, Dots, Within
    <3>3. Promised(c)'
      <4> SUFFICES ASSUME Shown(c)' PROVE Promised(c)'
        BY DEF Promised
      <4>1. Kind(pwd[c])' = "dir" /\ Simple(req[c].name)'
        BY <1>1, <2>5, <2>6, StillShown DEF ConnOK
      <4> QED BY <2>5, <4>1 DEF Promised, Seeks
    <3> QED BY <3>1, <3>2, <3>3 DEF ConnOK
  <2> QED BY <1>1, <2>1, <2>4, <2>6, CalmKeeps DEF Stage
<1> QED BY <1>3, <1>4

(* A step inside DeleteDir: what it removes is in the directory named, and *)
(* what is in hand afterwards, too, unless the request strays.             *)
LEMMA InsideKeeps ==
  ASSUME IInv, NEW c \in Conn, History(c), UNCHANGED <<owner, requests>>,
         pc[c] = "empty", down = NoConn, UNCHANGED <<pwd, down>>,
         NEW stage \in {"descend", "empty"}, NEW d \in Spelling, NEW t \in SUBSET todo[c],
         Becomes(c, stage, req[c], goal[c], d, t, file[c]),
         ~Strays(c) => d \in AnyPath /\ Within(d, file[c]),
         Shown(c) /\ stage = "descend" => Kind(d)' = "dir",
         UNCHANGED files \/ \E p \in Path : Removes(p) /\ (~Strays(c) => Within(p, file[c]))
  PROVE  IInv'
<1>1. LocalsOK /\ FilesOK /\ ConnOK(c) /\ pwd' = pwd
  BY DEF IInv
<1>2. ~Strays(c) =>
        /\ file[c] \in AnyPath /\ file[c] # Root /\ \A p \in todo[c] : p \in AnyPath /\ Within(p, file[c])
        /\ Mine(c, pwd[c]) /\ Front(file[c]) = pwd[c] /\ pwd[c] \in AnyPath
  BY <1>1 DEF ConnOK, Deleting, Mine
<1>3. /\ pc'[c] = stage /\ req'[c] = req[c] /\ dir'[c] = d /\ todo'[c] = t /\ file'[c] = file[c]
      /\ \A e \in Conn \ {c} : SameWork(e)
  BY DEF Becomes
<1>4. state'[c] = state[c]
  BY <1>1, <1>3, HistoryOf
<1>5. FileStep /\ LeakStep(c)
  <2>1. CASE UNCHANGED files
    BY <2>1, CalmLeaksNothing DEF FileStep
  <2>2. ASSUME NEW p \in Path, Removes(p) PROVE FileStep /\ LeakStep(c)
    BY <2>2, VanishLeaks DEF FileStep, Removes
  <2> QED BY <2>1, <2>2
<1>6. Kind(pwd[c]) = "dir" /\ ~Strays(c) => kind'[pwd[c]] = "dir"
  <2>1. CASE UNCHANGED files
    BY <2>1 DEF files, Kind
  <2>2. ASSUME NEW p \in Path, Within(p, file[c]), Removes(p), ~Strays(c), Kind(pwd[c]) = "dir"
        PROVE  kind'[pwd[c]] = "dir"
    <3>1. p \in AnyPath /\ Len(file[c]) <= Len(p) /\ Len(file[c]) = Len(pwd[c]) + 1
      BY <1>1, <1>2, <2>2, FrontOf, WithinSame, PathType
    <3>2. p # pwd[c]
      BY <1>1, <1>2, <2>2, <3>1, Lengths
    <3> QED BY <1>1, <2>2, <3>2 DEF Removes, Vanish, Set, Kind, FilesOK
  <2> QED BY <2>1, <2>2
<1>7. ConnOK(c)'
  <2>1. Walking(c)' /\ Guarded(c)' /\ Kept(c)'
    BY <1>3 DEF Walking, Guarded, Kept
  <2>2. Deleting(c)'
    <3>1. Strays(c) => Strays(c)'
      BY <1>3, <1>4 DEF Strays, Simple
    <3> QED BY <1>1, <1>2, <1>3, <3>1 DEF Deleting, Mine, Root, AnyPath, Spelling, Dots, Within
  <2>3. Promised(c)'
    <3> SUFFICES ASSUME Shown(c)' PROVE Promised(c)'
      BY DEF Promised
    <3>1. Shown(c) /\ Kind(pwd[c]) = "dir" /\ ~Strays(c) /\ Simple(req[c].name)'
      BY <1>1, <1>3, <1>4 DEF Shown, ConnOK, Promised, Strays, Simple
    <3>2. Kind(pwd[c])' = "dir"
      BY <1>1, <1>6, <3>1 DEF Kind
    <3> QED BY <1>3, <3>1, <3>2 DEF Promised, Seeks
  <2> QED BY <2>1, <2>2, <2>3 DEF ConnOK
<1>8. pwd' \in [Conn -> Spelling]
  BY <1>1 DEF LocalsOK
<1> QED BY <1>3, <1>5, <1>7, <1>8, StepKeeps, BoundAssumption DEF Becomes

(* DeleteDir takes an entry of the innermost directory.                    *)
LEMMA UnlinkKeeps ==
  ASSUME IInv, NEW c \in Conn, History(c), UNCHANGED <<owner, requests>>, Unlink(c)
  PROVE  IInv'
<1>1. /\ LocalsOK /\ FilesOK /\ ConnOK(c) /\ pc[c] = "empty" /\ down = NoConn /\ UNCHANGED <<pwd, down>>
      /\ UNCHANGED <<req, goal, file>>
  BY DEF IInv, Unlink, At
<1>2. PICK p \in todo[c] :
        /\ todo' = Set(todo, c, todo[c] \ {p})
        /\ IF Kind(Resolve(p)) = "dir" THEN Go(c, "descend") /\ dir' = Set(dir, c, p)
           ELSE UNCHANGED <<pc, dir>>
        /\ IF Kind(Resolve(p)) = "file" THEN Vanish(Resolve(p)) ELSE UNCHANGED files
  BY DEF Unlink
<1>3. /\ p \in Spelling /\ p \in Place /\ dir[c] \in Spelling
      /\ ~Strays(c) =>
           /\ p \in AnyPath /\ Within(p, file[c]) /\ Resolve(p) = p
           /\ dir[c] \in AnyPath /\ Within(dir[c], file[c])
  <2>1. p \in Spelling /\ p \in Place /\ dir[c] \in Spelling
    BY <1>1, InHand DEF ConnOK, Deleting, Place
  <2> QED BY <1>1, <2>1, LeadsTo DEF ConnOK, Deleting
<1>4. UNCHANGED files \/ \E q \in Path : Removes(q) /\ (~Strays(c) => Within(q, file[c]))
  <2>1. CASE Kind(Resolve(p)) = "file"
    <3>1. Resolve(p) \in Path /\ Removes(Resolve(p))
      BY <1>1, <1>2, <2>1 DEF Removes, Kind, FilesOK
    <3> QED BY <1>3, <3>1
  <2>2. CASE Kind(Resolve(p)) # "file"
    BY <1>2, <2>2
  <2> QED BY <2>1, <2>2
<1> DEFINE t == todo[c] \ {p}
<1>5. t \in SUBSET todo[c] /\ t \in SUBSET Spelling
  BY <1>1, InHand
<1>6. CASE Kind(Resolve(p)) = "dir"
  <2>1. pc' = Set(pc, c, "descend") /\ dir' = Set(dir, c, p) /\ todo' = Set(todo, c, t) /\ kind' = kind
    BY <1>2, <1>6 DEF Go, files
  <2>2. Shown(c) => Kind(p)' = "dir"
    <3>1. Shown(c) => ~Strays(c)
      BY <1>1 DEF Shown, ConnOK, Promised, Strays
    <3> QED BY <1>3, <1>6, <2>1, <3>1 DEF Kind
  <2> HIDE DEF t
  <2>3. Becomes(c, "descend", req[c], goal[c], p, t, file[c])
    BY <1>1, <1>3, <1>5, <2>1, InHand, LeftAlone, SetsBecome DEF Stage
  <2> QED BY <1>1, <1>3, <1>4, <1>5, <2>2, <2>3, InsideKeeps
<1>7. CASE Kind(Resolve(p)) # "dir"
  <2>1. UNCHANGED <<pc, dir>> /\ todo' = Set(todo, c, t)
    BY <1>2, <1>7
  <2> HIDE DEF t
  <2>2. Becomes(c, "empty", req[c], goal[c], dir[c], t, file[c])
    BY <1>1, <1>5, <2>1, InHand, LeftAlone, SetsBecome DEF Stage
  <2> QED BY <1>1, <1>3, <1>4, <1>5, <2>2, InsideKeeps
<1> QED BY <1>6, <1>7

(* DeleteDir removes a directory, and is done or goes up one.              *)
LEMMA RmdirKeeps ==
  ASSUME IInv, NEW c \in Conn, History(c), UNCHANGED <<owner, requests>>, Rmdir(c)
  PROVE  IInv'
<1>1. /\ LocalsOK /\ FilesOK /\ ConnOK(c) /\ pc[c] = "empty" /\ down = NoConn /\ UNCHANGED <<pwd, down>>
  BY DEF IInv, Rmdir, At
<1>2. /\ dir[c] \in Spelling
      /\ ~Strays(c) =>
           /\ dir[c] \in AnyPath /\ file[c] \in AnyPath /\ file[c] # Root /\ Within(dir[c], file[c])
           /\ Front(file[c]) = pwd[c] /\ pwd[c] \in AnyPath /\ Resolve(dir[c]) = dir[c]
  BY <1>1, LeadsTo DEF ConnOK, Deleting, Mine
<1>3. UNCHANGED files \/ (Resolve(dir[c]) \in Path /\ Removes(Resolve(dir[c])))
  BY UnnameMeans DEF Rmdir
<1>4. CASE dir[c] = file[c]
  <2>1. Proceed(c, "page")
    BY <1>4 DEF Rmdir
  <2>2. FileStep /\ LeakStep(c)
    BY <1>1, <1>3, CalmLeaksNothing, VanishLeaks DEF FileStep, Removes
  <2>3. Kind(pwd[c]) = "dir" => kind'[pwd[c]] = "dir" \/ ~Shown(c)
    <3>1. CASE UNCHANGED files
      BY <3>1 DEF files, Kind
    <3>2. ASSUME Removes(Resolve(dir[c])), Shown(c), Kind(pwd[c]) = "dir" PROVE kind'[pwd[c]] = "dir"
      <4>1. ~Strays(c)
        BY <1>1, <3>2 DEF Shown, ConnOK, Promised, Strays
      <4>2. Removes(dir[c]) /\ Len(dir[c]) = Len(pwd[c]) + 1
        BY <1>2, <1>4, <3>2, <4>1, FrontOf
      <4>3. dir[c] # pwd[c]
        BY <1>2, <4>1, <4>2, Lengths
      <4> QED BY <1>1, <3>2, <4>2, <4>3 DEF Removes, Vanish, Set, Kind, FilesOK
    <3> QED BY <1>3, <3>1, <3>2
  <2> QED BY <1>1, <2>1, <2>2, <2>3, HandlerKeeps
<1>5. CASE dir[c] # file[c]
  <2>1. dir' = Set(dir, c, Front(dir[c])) /\ UNCHANGED <<pc, req, goal, todo, file>>
    BY <1>5 DEF Rmdir
  <2>2. /\ Front(dir[c]) \in Spelling /\ Front(dir[c]) \in Place
        /\ ~Strays(c) => Front(dir[c]) \in AnyPath /\ Within(Front(dir[c]), file[c])
    BY <1>2, <1>5, FrontSpelled, WithinFront DEF Place
  <2>3. Becomes(c, "empty", req[c], goal[c], Front(dir[c]), todo[c], file[c])
    BY <1>1, <2>1, <2>2, InHand, LeftAlone, SetsBecome DEF Stage
  <2>4. UNCHANGED files \/ \E p \in Path : Removes(p) /\ (~Strays(c) => Within(p, file[c]))
    BY <1>2, <1>3
  <2> QED BY <1>1, <2>2, <2>3, <2>4, InsideKeeps
<1> QED BY <1>4, <1>5

-----------------------------------------------------------------------------
(* A handler that refuses a '/' does not refuse what the page shows.       *)
LEMMA RefuseKeeps ==
  ASSUME IInv, NEW c \in Conn, History(c), UNCHANGED <<owner, requests>>, Refuse(c)
  PROVE  IInv'
<1>1. /\ LocalsOK /\ FilesOK /\ ConnOK(c) /\ down = NoConn /\ pc[c] = "act" /\ Calm /\ Refused(c)
  BY DEF IInv, Refuse, At
<1>2. ~Shown(c)
  <2>1. Shown(c) => Simple(req[c].name)
    BY <1>1 DEF ConnOK, Promised
  <2>2. Slashed(req[c].name)
    BY <1>1 DEF Refused
  <2> DEFINE n == Len(req[c].name)
  <2>3. (Shown(c) => n = 1) /\ n > 1
    BY <2>1, <2>2 DEF Slashed, Simple
  <2> HIDE DEF n
  <2> QED BY <2>3
<1>3. CASE req[c].op = "download2copy"
  <2>1. Walk(c, "root") /\ UNCHANGED <<req, file>>
    BY <1>3 DEF Refuse
  <2>2. Becomes(c, "opendir", req[c], "root", Root, {}, file[c])
    <3>1. "root" \in Goal /\ Start(c, "root") = Root
      BY DEF Goal, Start
    <3> QED BY <1>1, <2>1, <3>1, InHand, LeftAlone, WalkBecomes
  <2>3. /\ pc'[c] = "opendir" /\ req'[c] = req[c] /\ goal'[c] = "root" /\ dir'[c] = Root
        /\ todo'[c] = {}
    BY <2>2 DEF Becomes
  <2>4. ASSUME state'[c] = state[c] PROVE ConnOK(c)'
    <3>1. Walking(c)' /\ Guarded(c)' /\ Deleting(c)' /\ Kept(c)'
      BY <1>3, <2>3, Lengths DEF Walking, Guarded, Deleting, Kept, AnyPath, Root
    <3>2. Promised(c)'
      BY <1>1, <1>2, <2>3, <2>4 DEF Promised, Shown
    <3> QED BY <3>1, <3>2 DEF ConnOK
  <2> QED BY <1>1, <2>2, <2>4, CalmKeeps DEF Stage
<1>4. CASE req[c].op # "download2copy"
  <2>1. Proceed(c, "forbidden")
    BY <1>4 DEF Refuse
  <2> QED BY <1>1, <1>2, <2>1, RefusedKeeps
<1> QED BY <1>3, <1>4

(* /disk, and the handlers that open a file to be sent, change nothing.    *)
LEMMA DiskKeeps ==
  ASSUME IInv, NEW c \in Conn, History(c), UNCHANGED <<owner, requests>>, Disk(c)
  PROVE  IInv'
<1>1. /\ down = NoConn /\ pc[c] = "act" /\ Proceed(c, "page") /\ UNCHANGED <<files, pwd, down>>
  BY DEF Disk, Doing, At, Calm
<1>2. FileStep /\ LeakStep(c) /\ kind' = kind
  BY <1>1, CalmLeaksNothing DEF FileStep, files
<1> QED BY <1>1, <1>2, HandlerKeeps DEF Kind

(* Neither do /download, /preview and the last step of /download2copy.     *)
LEMMA OpenKeeps ==
  ASSUME IInv, NEW c \in Conn, History(c), UNCHANGED <<owner, requests>>, Open(c)
  PROVE  IInv'
<1>1. /\ LocalsOK /\ ConnOK(c) /\ down = NoConn /\ pc[c] \in {"act", "open"} /\ Proceed(c, "done")
      /\ UNCHANGED <<files, pwd, down>>
  BY DEF IInv, Open, Doing, At, Calm
<1>2. FileStep /\ LeakStep(c)
  BY <1>1, CalmLeaksNothing DEF FileStep
<1>3. Shown(c) => Kind(pwd[c])' = "dir"
  BY <1>1 DEF ConnOK, Promised, Kind, files
<1>4. "done" \in Over /\ pwd' \in [Conn -> Spelling]
  BY <1>1 DEF Over, LocalsOK
<1> QED BY <1>1, <1>2, <1>3, <1>4, OverKeeps

(* /enter goes to a directory that the page shows to be there.             *)
LEMMA EnterKeeps ==
  ASSUME IInv, NEW c \in Conn, History(c), UNCHANGED <<owner, requests>>, Enter(c)
  PROVE  IInv'
<1>1. /\ LocalsOK /\ ConnOK(c) /\ down = NoConn /\ pc[c] = "act" /\ req[c].op = "enter"
      /\ Proceed(c, "page") /\ UNCHANGED <<files, down>> /\ pwd' = Set(pwd, c, Target(c)) /\ kind' = kind
  BY DEF IInv, Enter, Doing, At, files
<1>2. pwd' \in [Conn -> Spelling] /\ pwd'[c] = Target(c)
  BY <1>1, InHand DEF LocalsOK, Set
<1>3. FileStep /\ LeakStep(c) /\ "page" \in Over
  BY <1>1, CalmLeaksNothing DEF FileStep, Over
<1>4. Shown(c) => Kind(pwd[c])' = "dir"
  BY <1>1, <1>2 DEF ConnOK, Promised, Offered, Kind
<1> QED BY <1>1, <1>2, <1>3, <1>4, OverKeeps

(* /back goes to the directory that pwd_ is in, unless that is the root.   *)
LEMMA BackKeeps ==
  ASSUME IInv, NEW c \in Conn, History(c), UNCHANGED <<owner, requests>>, Back(c)
  PROVE  IInv'
<1>1. /\ LocalsOK /\ FilesOK /\ ConnOK(c) /\ down = NoConn /\ pc[c] = "act" /\ req[c].op = "back"
      /\ pwd[c] \in Spelling
  BY InHand DEF IInv, Back, Doing, At
<1>2. CASE pwd[c] = Root
  <2>1. Abort(c)
    BY <1>2 DEF Back
  <2>2. EndsWell(c)
    BY <1>1, <1>2 DEF EndsWell, ConnOK, Promised, Shown, Offered
  <2> QED BY <1>1, <2>1, <2>2, AbortKeeps
<1>3. CASE pwd[c] # Root
  <2>1. Proceed(c, "page") /\ UNCHANGED <<files, down>> /\ pwd' = Set(pwd, c, Front(pwd[c])) /\ kind' = kind
    BY <1>3 DEF Back, files
  <2>2. pwd' \in [Conn -> Spelling] /\ pwd'[c] = Front(pwd[c])
    BY <1>1, <2>1, FrontSpelled DEF LocalsOK, Set
  <2>3. FileStep /\ LeakStep(c) /\ "page" \in Over
    BY <1>1, <2>1, CalmLeaksNothing DEF FileStep, Over
  <2>4. Kind(pwd[c]) = "dir" => Kind(Front(pwd[c])) = "dir"
    <3> SUFFICES ASSUME Kind(pwd[c]) = "dir" PROVE Kind(Front(pwd[c])) = "dir"
      OBVIOUS
    <3>4. pwd[c] \in AnyPath
      BY PathType DEF Kind
    <3>1. Front(pwd[c]) \in AnyPath /\ Within(pwd[c], Front(pwd[c])) /\ pwd[c] # Front(pwd[c])
      <4>1. Len(pwd[c]) = Len(Front(pwd[c])) + 1 /\ Front(pwd[c]) \in AnyPath
            /\ Within(pwd[c], Front(pwd[c]))
        BY <3>4, <1>3, FrontOf
      <4>2. Len(Front(pwd[c])) \in Nat
        BY <4>1, Lengths
      <4> QED BY <4>1, <4>2
    <3>2. kind[Front(pwd[c])] = "dir"
      BY <1>1, <3>4, <3>1, WayOn
    <3>3. Front(pwd[c]) \in Path
      <4>1. pwd[c] \in Path
        BY DEF Kind
      <4>2. Front(pwd[c]) = SubSeq(pwd[c], 1, Len(pwd[c]) - 1)
        BY <3>4, <1>3, FrontOf
      <4>3. Len(pwd[c]) - 1 \in 0 .. Len(pwd[c])
        BY <3>4, <1>3, Lengths
      <4> QED BY <4>1, <4>2, <4>3, PathAssumption
    <3> QED BY <3>2, <3>3 DEF Kind
  <2>5. Shown(c) => Kind(pwd[c])' = "dir"
    BY <1>1, <2>1, <2>2, <2>4 DEF ConnOK, Promised, Kind
  <2> QED BY <1>1, <2>1, <2>2, <2>3, <2>5, OverKeeps
<1> QED BY <1>2, <1>3

(* /download2copy looks for the file and at its mode.                      *)
LEMMA CheckKeeps ==
  ASSUME IInv, NEW c \in Conn, History(c), UNCHANGED <<owner, requests>>, Check(c)
  PROVE  IInv'
<1>1. /\ LocalsOK /\ ConnOK(c) /\ down = NoConn /\ pc[c] = "check" /\ req[c].op = "download2copy"
      /\ state[c] # "moved" => pwd[c] \in AnyPath
  BY DEF IInv, Check, At, ConnOK, Guarded
<1>2. Shown(c) =>
        /\ Kind(pwd[c]) = "dir" /\ Kind(Spot(c)) # "none" /\ Spot(c) \in shared
        /\ ~Slashed(req[c].name)
  <2> SUFFICES ASSUME Shown(c)
               PROVE  /\ Kind(pwd[c]) = "dir" /\ Kind(Spot(c)) # "none" /\ Spot(c) \in shared
                      /\ ~Slashed(req[c].name)
    OBVIOUS
  <2>1. /\ Kind(pwd[c]) = "dir" /\ Kind(Target(c)) # "none" /\ Target(c) \in shared
        /\ Simple(req[c].name) /\ pwd[c] \in AnyPath
    BY <1>1 DEF ConnOK, Promised, Offered, Shown
  <2> QED BY <1>1, <2>1, TargetOf
<1>3. CASE Refused(c)
  <2>1. Proceed(c, "forbidden") /\ Calm
    BY <1>3 DEF Check
  <2> QED BY <1>1, <1>2, <1>3, <2>1, RefusedKeeps DEF Refused
<1>4. CASE ~Refused(c) /\ Kind(Spot(c)) = "none"
  <2>1. Abort(c)
    BY <1>4 DEF Check
  <2>2. EndsWell(c)
    BY <1>1, <1>2, <1>4 DEF EndsWell, Shown
  <2> QED BY <1>1, <2>1, <2>2, AbortKeeps
<1>5. CASE ~Refused(c) /\ Kind(Spot(c)) # "none" /\ Spot(c) \notin shared
  <2>1. Proceed(c, "forbidden") /\ Calm
    BY <1>5 DEF Check, Sharable
  <2> QED BY <1>1, <1>2, <1>5, <2>1, RefusedKeeps
<1>6. CASE ~Refused(c) /\ Kind(Spot(c)) # "none" /\ Spot(c) \in shared
  <2>1. Proceed(c, "open") /\ Calm /\ UNCHANGED <<files, pwd, owner>> /\ shared' = shared
    BY <1>6 DEF Check, Calm, Sharable, files
  <2>2. Becomes(c, "open", req[c], "own", Nowhere, {}, Nowhere)
    BY <1>1, <2>1, ProceedBecomes DEF Stage, Over
  <2>3. pc'[c] = "open" /\ req'[c] = req[c]
    BY <2>2 DEF Becomes
  <2>4. ASSUME state'[c] = state[c] PROVE ConnOK(c)'
    <3>1. Walking(c)' /\ Guarded(c)' /\ Deleting(c)'
      BY <2>3 DEF Walking, Guarded, Deleting
    <3>2. Kept(c)'
      <4>1. Target(c)' = Target(c)
        BY <2>1, <2>3 DEF Target
      <4>2. ~Slashed(req[c].name)
        BY <1>1, <1>6 DEF Refused
      <4>3. state[c] # "moved" => Target(c) \in shared \/ Last(Target(c)) \in Dots
        BY <1>1, <1>6, <4>2, TargetOf, TargetEnds
      <4> QED BY <2>1, <2>3, <2>4, <4>1, <4>3 DEF Kept, Dots
    <3>3. Promised(c)'
      <4> SUFFICES ASSUME Shown(c)' PROVE Promised(c)'
        BY DEF Promised
      <4>1. Kind(pwd[c])' = "dir" /\ Simple(req[c].name)' /\ Offered(c)'
        BY <1>1, <2>1, <2>3, <2>4, StillShown DEF ConnOK
      <4> QED BY <2>3, <4>1 DEF Promised, Seeks
    <3> QED BY <3>1, <3>2, <3>3 DEF ConnOK
  <2> QED BY <1>1, <2>1, <2>2, <2>4, CalmKeeps DEF Stage
<1> QED BY <1>3, <1>4, <1>5, <1>6

(* /copy does the same.                                                    *)
LEMMA CopyKeeps ==
  ASSUME IInv, NEW c \in Conn, History(c), UNCHANGED <<owner, requests>>, Copy(c)
  PROVE  IInv'
<1>t. PICK t : t = Spot(c)
  OBVIOUS
<1>1. /\ LocalsOK /\ ConnOK(c) /\ down = NoConn /\ pc[c] = "act" /\ req[c].op = "copy"
      /\ t \in Place
  BY <1>t, InHand DEF IInv, Copy, Doing, At
<1>2. Shown(c) => Kind(pwd[c]) = "dir" /\ Kind(t) # "none" /\ t \in shared
  <2> SUFFICES ASSUME Shown(c) PROVE Kind(pwd[c]) = "dir" /\ Kind(t) # "none" /\ t \in shared
    OBVIOUS
  <2>1. /\ Kind(pwd[c]) = "dir" /\ Kind(Target(c)) # "none" /\ Target(c) \in shared
        /\ Simple(req[c].name) /\ pwd[c] \in AnyPath
    BY <1>1, PathType DEF ConnOK, Promised, Offered, Kind
  <2> QED BY <1>t, <1>1, <2>1, TargetOf
<1>3. CASE Kind(t) = "none"
  <2>1. Abort(c)
    BY <1>t, <1>3 DEF Copy
  <2>2. EndsWell(c)
    BY <1>1, <1>2, <1>3 DEF EndsWell, Shown
  <2> QED BY <1>1, <2>1, <2>2, AbortKeeps
<1>4. CASE Kind(t) # "none" /\ t \notin shared
  <2>1. Proceed(c, "forbidden") /\ Calm
    BY <1>t, <1>4 DEF Copy, Sharable
  <2> QED BY <1>1, <1>2, <1>4, <2>1, RefusedKeeps
<1>5. CASE Kind(t) # "none" /\ t \in shared
  <2>1. /\ pc' = Set(pc, c, "copy") /\ file' = Set(file, c, t) /\ Calm /\ UNCHANGED <<req, goal, dir, todo>>
        /\ UNCHANGED <<files, pwd, owner>> /\ shared' = shared
    BY <1>t, <1>5 DEF Copy, Calm, Sharable, files, Go
  <2>2. Becomes(c, "copy", req[c], goal[c], dir[c], todo[c], t)
    BY <1>1, <2>1, InHand, LeftAlone, SetsBecome DEF Stage
  <2>3. pc'[c] = "copy" /\ req'[c] = req[c] /\ file'[c] = t
    BY <2>2 DEF Becomes
  <2>4. ASSUME state'[c] = state[c] PROVE ConnOK(c)'
    <3>1. Walking(c)' /\ Guarded(c)' /\ Deleting(c)' /\ Kept(c)'
      BY <1>1, <1>5, <2>1, <2>3 DEF Walking, Guarded, Deleting, Kept, AnyPath, Root
    <3>2. Promised(c)'
      <4> SUFFICES ASSUME Shown(c)' PROVE Promised(c)'
        BY DEF Promised
      <4>1. Kind(pwd[c])' = "dir" /\ Simple(req[c].name)' /\ Offered(c)'
        BY <1>1, <2>1, <2>3, <2>4, StillShown DEF ConnOK
      <4> QED BY <2>3, <4>1 DEF Promised, Seeks
    <3> QED BY <3>1, <3>2 DEF ConnOK
  <2> QED BY <1>1, <2>1, <2>2, <2>4, CalmKeeps DEF Stage
<1> QED BY <1>3, <1>4, <1>5

(* CopyFile puts a file into the user's home, which then has the bytes.    *)
LEMMA CopyFileKeeps ==
  ASSUME IInv, NEW c \in Conn, History(c), UNCHANGED <<owner, requests>>, CopyFile(c)
  PROVE  IInv'
<1> DEFINE t == Copied(c)
<1>1. /\ LocalsOK /\ FilesOK /\ ConnOK(c) /\ down = NoConn /\ pc[c] = "copy" /\ Proceed(c, "page")
      /\ UNCHANGED <<pwd, down>>
  BY DEF IInv, CopyFile, At
<1>3. file[c] \in private => t \in leaked'
  BY <1>1 DEF History
<1> HIDE DEF t
<1>4. CASE ~Room(t)
  <2>1. UNCHANGED files
    BY <1>4 DEF CopyFile, t
  <2>2. FileStep /\ LeakStep(c) /\ kind' = kind
    BY <1>1, <2>1, CalmLeaksNothing DEF FileStep, files
  <2> QED BY <1>1, <2>2, HandlerKeeps DEF Kind
<1>5. CASE Room(t)
  <2>1. /\ kind' = Set(kind, t, "file") /\ shared' = shared
        /\ private' = IF file[c] \in private \ {t} THEN private \union {t} ELSE private \ {t}
    BY <1>5 DEF CopyFile, t
  <2>2. t \in Path /\ t # Root /\ kind[t] \in {"none", "file"} /\ kind[Front(t)] = "dir"
    BY <1>1, <1>5, RoomMeans
  <2>3. Puts(t, "file")
    BY <2>1, <2>2 DEF Puts
  <2>4. FileStep /\ DirsStay /\ NothingGone
    BY <1>1, <2>2, <2>3, PutKeeps DEF FileStep
  <2>5. LeakStep(c)
    <3> SUFFICES ASSUME NEW p \in private' \intersect shared', p \notin leaked'
                 PROVE  p \in private \intersect shared /\ ~Uploading(c, p)
      BY DEF LeakStep
    <3>1. p # t
      BY <1>3, <2>1
    <3> QED BY <1>1, <2>1, <3>1 DEF Uploading
  <2>6. Kind(pwd[c]) = "dir" => kind'[pwd[c]] = "dir"
    BY <2>4 DEF Kind, DirsStay, NothingGone
  <2> QED BY <1>1, <2>4, <2>5, <2>6, HandlerKeeps
<1> QED BY <1>4, <1>5

-----------------------------------------------------------------------------
(* The page is to be made: pwd_ is cut, and InDir asked.                   *)
LEMMA PageKeeps ==
  ASSUME IInv, NEW c \in Conn, History(c), UNCHANGED <<owner, requests>>, Page(c)
  PROVE  IInv'
<1>1. /\ LocalsOK /\ FilesOK /\ ConnOK(c) /\ down = NoConn /\ pc[c] = "page"
  BY DEF IInv, Page, At
<1>2. CASE pwd[c] = Root /\ RootLength < 10
  <2>1. Abort(c) /\ EndsWell(c)
    BY <1>1, <1>2 DEF Page, EndsWell
  <2> QED BY <1>1, <2>1, AbortKeeps
<1>3. CASE ~(pwd[c] = Root /\ RootLength < 10)
  <2>1. Walk(c, "page") /\ Calm /\ UNCHANGED <<req, file>> /\ UNCHANGED <<files, pwd, owner>> /\ kind' = kind
    BY <1>3 DEF Page, Calm, files
  <2>2. Becomes(c, "opendir", req[c], "page", Root, {}, file[c])
    <3>1. "page" \in Goal /\ Start(c, "page") = Root
      BY DEF Goal, Start
    <3> QED BY <1>1, <2>1, <3>1, InHand, LeftAlone, WalkBecomes
  <2>3. pc'[c] = "opendir" /\ req'[c] = req[c] /\ goal'[c] = "page" /\ dir'[c] = Root /\ todo'[c] = {}
    BY <2>2 DEF Becomes
  <2>4. ASSUME state'[c] = state[c] PROVE ConnOK(c)'
    <3>1. Walking(c)' /\ Guarded(c)' /\ Deleting(c)' /\ Kept(c)'
      BY <2>3, Lengths DEF Walking, Guarded, Deleting, Kept, AnyPath, Root
    <3>2. Promised(c)'
      <4> SUFFICES ASSUME Shown(c)' PROVE Promised(c)'
        BY DEF Promised
      <4>1. Kind(pwd[c])' = "dir" /\ Simple(req[c].name)' /\ Offered(c)'
        BY <1>1, <2>1, <2>3, <2>4, StillShown DEF ConnOK
      <4>2. Kind(dir[c])' = "dir"
        BY <1>1, <2>1, <2>3, PathType DEF Kind, FilesOK
      <4> QED BY <2>3, <4>1, <4>2 DEF Promised, Seeks
    <3> QED BY <3>1, <3>2 DEF ConnOK
  <2> QED BY <1>1, <2>1, <2>2, <2>4, CalmKeeps DEF Stage
<1> QED BY <1>2, <1>3

(* IteratorDir opens pwd_, and asks InDir from the home.                   *)
LEMMA ListKeeps ==
  ASSUME IInv, NEW c \in Conn, History(c), UNCHANGED <<owner, requests>>, List(c)
  PROVE  IInv'
<1>1. /\ LocalsOK /\ FilesOK /\ ConnOK(c) /\ down = NoConn /\ pc[c] = "list"
  BY DEF IInv, List, At
<1>4. Kind(pwd[c]) = "dir" => Resolve(pwd[c]) = pwd[c]
  BY LeadsTo, PathType DEF Kind
<1>2. CASE Kind(Resolve(pwd[c])) # "dir"
  <2>1. Abort(c)
    BY <1>2 DEF List
  <2>2. EndsWell(c)
    BY <1>1, <1>2, <1>4 DEF EndsWell, ConnOK, Promised, Shown
  <2> QED BY <1>1, <2>1, <2>2, AbortKeeps
<1>3. CASE Kind(Resolve(pwd[c])) = "dir"
  <2> DEFINE f == Resolve(pwd[c])
  <2>1. /\ pc' = Set(pc, c, "opendir") /\ goal' = Set(goal, c, "listed") /\ dir' = Set(dir, c, Home(c))
        /\ file' = Set(file, c, f) /\ Calm /\ UNCHANGED <<req, todo>>
        /\ UNCHANGED <<files, pwd, owner>> /\ pwd' = pwd
    BY <1>3 DEF List, Calm, Go
  <2>2. "listed" \in Goal /\ Home(c) \in Place /\ f \in Place /\ Home(c) \in AnyPath /\ todo[c] = {}
    BY <1>1, InHand, LeadsTo, Spelled DEF Goal, Place, ConnOK, Walking
  <2> HIDE DEF f
  <2>3. Becomes(c, "opendir", req[c], "listed", Home(c), todo[c], f)
    BY <1>1, <2>1, <2>2, InHand, LeftAlone, SetsBecome DEF Stage
  <2>4. /\ pc'[c] = "opendir" /\ req'[c] = req[c] /\ goal'[c] = "listed" /\ dir'[c] = Home(c)
        /\ file'[c] = f /\ todo'[c] = {}
    BY <2>2, <2>3 DEF Becomes
  <2>5. ASSUME state'[c] = state[c] PROVE ConnOK(c)'
    <3>1. Walking(c)' /\ Guarded(c)' /\ Deleting(c)' /\ Kept(c)'
      BY <2>2, <2>4 DEF Walking, Guarded, Deleting, Kept, AnyPath
    <3>2. Promised(c)'
      <4> SUFFICES ASSUME Shown(c)' PROVE Promised(c)'
        BY DEF Promised
      <4>1. Kind(pwd[c]) = "dir" /\ Kind(pwd[c])' = "dir" /\ Simple(req[c].name)' /\ Offered(c)'
        BY <1>1, <2>1, <2>4, <2>5, StillShown DEF ConnOK
      <4>2. Home(c)' = Home(c)
        BY DEF Home
      <4> QED BY <1>4, <2>1, <2>4, <4>1, <4>2 DEF Promised, Seeks, f
    <3> QED BY <3>1, <3>2 DEF ConnOK
  <2> QED BY <1>1, <2>1, <2>3, <2>5, CalmKeeps DEF Stage
<1> QED BY <1>2, <1>3

(* IteratorDir asks for the mode of an entry, which is there if nothing    *)
(* was taken away.                                                         *)
LEMMA StatKeeps ==
  ASSUME IInv, NEW c \in Conn, History(c), UNCHANGED <<owner, requests>>, Stat(c)
  PROVE  IInv'
<1>1. /\ LocalsOK /\ FilesOK /\ ConnOK(c) /\ down = NoConn /\ pc[c] = "stat" /\ todo[c] \subseteq Path /\ todo[c] \subseteq Spelling
  BY PathType, Spelled DEF IInv, Stat, At, ConnOK, Walking
<1>2. CASE todo[c] = {}
  <2>1. Proceed(c, "done") /\ UNCHANGED <<files, pwd, down>>
    BY <1>2 DEF Stat, Calm
  <2>2. FileStep /\ LeakStep(c) /\ "done" \in Over /\ pwd' \in [Conn -> Spelling]
    BY <1>1, <2>1, CalmLeaksNothing DEF FileStep, Over, LocalsOK
  <2>3. Shown(c) => Kind(pwd[c])' = "dir"
    BY <1>1, <2>1 DEF ConnOK, Promised, Kind, files
  <2> QED BY <1>1, <2>1, <2>2, <2>3, OverKeeps
<1>3. ASSUME NEW p \in todo[c], Kind(Resolve(Append(pwd[c], Last(p)))) = "none", Abort(c) PROVE IInv'
  <2>1. EndsWell(c)
    <3> SUFFICES ASSUME Shown(c) PROVE FALSE
      BY <1>1 DEF EndsWell, Shown
    <3>1. p # Root /\ Front(p) = pwd[c] /\ kind[p] # "none"
      BY <1>1 DEF ConnOK, Promised
    <3>2. Append(pwd[c], Last(p)) = p /\ p \in Path /\ Resolve(p) = p
      BY <1>1, <3>1, FrontAndLast, PathType, LeadsTo
    <3> QED BY <1>3, <3>1, <3>2 DEF Kind
  <2> QED BY <1>1, <1>3, <2>1, AbortKeeps
<1>4. ASSUME NEW p \in todo[c], todo' = Set(todo, c, todo[c] \ {p}), Calm,
             UNCHANGED <<pc, req, goal, dir, file>>
      PROVE  IInv'
  <2> DEFINE t == todo[c] \ {p}
  <2>1. t \in SUBSET Path /\ t \in SUBSET Spelling /\ t \subseteq todo[c] /\ UNCHANGED <<files, pwd, owner>> /\ kind' = kind /\ pwd' = pwd
    BY <1>1, <1>4 DEF Calm, files
  <2> HIDE DEF t
  <2>2. todo' = Set(todo, c, t)
    BY <1>4 DEF t
  <2>3. Becomes(c, "stat", req[c], goal[c], dir[c], t, file[c])
    BY <1>1, <1>4, <2>1, <2>2, InHand, LeftAlone, SetsBecome DEF Stage
  <2>4. pc'[c] = "stat" /\ req'[c] = req[c] /\ todo'[c] = t
    BY <2>3 DEF Becomes
  <2>5. ASSUME state'[c] = state[c] PROVE ConnOK(c)'
    <3>1. Walking(c)' /\ Guarded(c)' /\ Deleting(c)' /\ Kept(c)'
      BY <2>1, <2>4 DEF Walking, Guarded, Deleting, Kept
    <3>2. Promised(c)'
      <4> SUFFICES ASSUME Shown(c)' PROVE Promised(c)'
        BY DEF Promised
      <4>1. Shown(c) /\ Kind(pwd[c])' = "dir" /\ Simple(req[c].name)' /\ Offered(c)'
        BY <1>1, <2>1, <2>4, <2>5, StillShown DEF ConnOK
      <4>2. \A q \in t : q # Root /\ Front(q) = pwd[c] /\ kind[q] # "none"
        BY <1>1, <2>1, <4>1 DEF ConnOK, Promised
      <4> QED BY <2>1, <2>4, <4>1, <4>2 DEF Promised, Seeks, Root
    <3> QED BY <3>1, <3>2 DEF ConnOK
  <2> QED BY <1>1, <1>4, <2>3, <2>5, CalmKeeps DEF Stage
<1> QED BY <1>2, <1>3, <1>4 DEF Stat

(* The answer is sent, and pwd_ copied.                                    *)
LEMMA FinishKeeps ==
  ASSUME IInv, NEW c \in Conn, History(c), UNCHANGED <<owner, requests>>, Finish(c)
  PROVE  IInv'
<1>1. /\ LocalsOK /\ down = NoConn /\ pc[c] # "chmod" /\ pc' = Set(pc, c, "idle") /\ UNCHANGED <<goal, dir, todo, file>>
      /\ req' = Set(req, c, NoRequest(c))
      /\ UNCHANGED files /\ down' = down
      /\ pwd' = [d \in Conn |-> IF owner[d] = owner[c] THEN pwd[c] ELSE pwd[d]]
  BY DEF IInv, Finish, At, Go
<1>2. /\ pc' \in [Conn -> Stage] /\ pc'[c] = "idle" /\ WorkOK'
      /\ \A e \in Conn \ {c} : SameWork(e)
  <2>1. Becomes(c, "idle", NoRequest(c), goal[c], dir[c], todo[c], file[c])
    BY <1>1, InHand, LeftAlone, SetsBecome DEF Stage
  <2> QED BY <2>1 DEF Becomes
<1>3. pwd' \in [Conn -> Spelling]
  BY <1>1 DEF LocalsOK
<1>4. FileStep /\ LeakStep(c)
  BY <1>1, CalmLeaksNothing DEF FileStep
<1>5. ConnOK(c)'
  BY <1>2 DEF ConnOK, Walking, Guarded, Deleting, Promised, Shown, Kept
<1> QED BY <1>1, <1>2, <1>3, <1>4, <1>5, StepKeeps, BoundAssumption

-----------------------------------------------------------------------------
(* The links of what there is at the start: no request has begun.          *)
LEMMA InitHolds ==
  ASSUME Init
  PROVE  IInv
<1>1. PICK t \in Tree :
        /\ kind = [p \in Path |-> IF p \in DOMAIN t THEN t[p].kind ELSE "none"]
        /\ shared = {p \in DOMAIN t : t[p].shared}
  BY DEF Init
<1>2. /\ Root \in DOMAIN t /\ t[Root].kind = "dir" /\ DOMAIN t \subseteq Path
      /\ \A p \in DOMAIN t :
           /\ t[p].kind \in {"dir", "file"}
           /\ \A n \in 0 .. Len(p) - 1 : SubSeq(p, 1, n) \in DOMAIN t /\ t[SubSeq(p, 1, n)].kind = "dir"
  BY TreeAssumption DEF Root
<1>3. FilesOK
  <2>1. kind \in [Path -> {"none", "dir", "file"}] /\ kind[Root] = "dir"
    BY <1>1, <1>2, PathType
  <2>2. \A p \in Path : kind[p] # "none" => \A n \in 0 .. Len(p) - 1 : kind[SubSeq(p, 1, n)] = "dir"
    BY <1>1, <1>2
  <2>3. shared \subseteq {p \in Path : kind[p] # "none"}
    BY <1>1, <1>2
  <2>4. private \subseteq {p \in Path : kind[p] = "file"}
    BY DEF Init
  <2> QED BY <2>1, <2>2, <2>3, <2>4 DEF FilesOK
<1>4. owner \in [Conn -> User] /\ pwd \in [Conn -> Spelling] /\ pc = [c \in Conn |-> "idle"]
  BY PathType, Spelled DEF Init
<1>5. WorkOK
  <2>1. \A c \in Conn : NoRequest(c) \in [op : Op, name : Name]
    BY <1>4, NameAssumption DEF NoRequest, Op, FormOp
  <2>2. req \in [Conn -> [op : Op, name : Name]]
    BY <2>1 DEF Init
  <2> QED BY <2>2 DEF Init, WorkOK, Goal, Place
<1>6. LocalsOK
  BY <1>4, <1>5, BoundAssumption DEF Init, LocalsOK, Stage, Past
<1>7. \A c \in Conn : ConnOK(c)
  BY <1>4 DEF ConnOK, Walking, Guarded, Deleting, Promised, Shown, Kept
<1>8. Leaks /\ Ends
  BY BoundAssumption DEF Init, Leaks, Ends
<1> QED BY <1>3, <1>6, <1>7, <1>8 DEF IInv

(* Every step keeps the invariant.                                         *)
LEMMA NextKeeps ==
  ASSUME IInv, [Next]_vars
  PROVE  IInv'
<1>1. CASE UNCHANGED vars
  BY <1>1 DEF vars, files, work, IInv, FilesOK, LocalsOK, WorkOK, ConnOK, Walking, Guarded, Deleting,
              Promised, Shown, Kept, Seeks, OnWay, Offered, Leaks, Ends, Uploading, Target, Kind, Home,
              Mine, Root, AnyPath, Spelling, Dots, Within, Place, Strays, Simple, Op, OwnOp, FormOp, Goal, Stage, Past
<1>2. ASSUME NEW c \in Conn, NEW op \in Op, NEW name \in Name, requests < MaxRequests,
             Receive(c, op, name)
      PROVE  IInv'
  BY <1>2, ReceiveKeeps
<1>3. ASSUME NEW c \in Conn, Step(c), History(c), UNCHANGED <<owner, requests>>
      PROVE  IInv'
  <2>1. CASE Opendir(c) \/ Look(c) \/ Refuse(c) \/ Page(c) \/ List(c) \/ Stat(c) \/ Finish(c)
    BY <1>3, <2>1, OpendirKeeps, LookKeeps, RefuseKeeps, PageKeeps, ListKeeps, StatKeeps, FinishKeeps
  <2>2. CASE Upload(c) \/ UploadChmod(c) \/ Share(c) \/ Unshare(c) \/ Delete(c)
    BY <1>3, <2>2, UploadKeeps, UploadChmodKeeps, ShareKeeps, UnshareKeeps, DeleteKeeps
  <2>3. CASE DeleteDir(c) \/ Descend(c) \/ Unlink(c) \/ Rmdir(c)
    BY <1>3, <2>3, DeleteDirKeeps, DescendKeeps, UnlinkKeeps, RmdirKeeps
  <2>4. CASE Mkdir(c) \/ Disk(c) \/ Enter(c) \/ Back(c)
    BY <1>3, <2>4, MkdirKeeps, DiskKeeps, EnterKeeps, BackKeeps
  <2>5. CASE Check(c) \/ Open(c) \/ Copy(c) \/ CopyFile(c)
    BY <1>3, <2>5, CheckKeeps, OpenKeeps, CopyKeeps, CopyFileKeeps
  <2> QED BY <1>3, <2>1, <2>2, <2>3, <2>4, <2>5 DEF Step
<1> QED BY <1>1, <1>2, <1>3 DEF Next

(* The inductive invariant: the tree is whole, InDir has a way left to     *)
(* where pwd_ is, what a handler's guard has found out stays so while the  *)
(* page's links do, and only an upload leaves unshared bytes in a shared   *)
(* file.                                                                   *)
THEOREM Invariance == Spec => []IInv
<1>1. Init => IInv
  BY InitHolds
<1>2. IInv /\ [Next]_vars => IInv'
  BY NextKeeps
<1> QED BY <1>1, <1>2, PTL DEF Spec

-----------------------------------------------------------------------------
(* The types follow.                                                       *)
LEMMA TypesHold ==
  ASSUME IInv
  PROVE  TypeOK
<1>1. \A p \in Path \ {Root} : kind[p] # "none" => kind[Front(p)] = "dir"
  <2> SUFFICES ASSUME NEW p \in Path \ {Root}, kind[p] # "none" PROVE kind[Front(p)] = "dir"
    OBVIOUS
  <2>1. Front(p) = SubSeq(p, 1, Len(p) - 1) /\ Len(p) \in Nat \ {0}
    BY PathType, FrontOf, Lengths
  <2>2. Len(p) - 1 \in 0 .. Len(p) - 1
    BY <2>1
  <2> QED BY <2>1, <2>2 DEF IInv, FilesOK
<1>2. FilesOK /\ LocalsOK
  BY DEF IInv
<1>3. \A c \in Conn :
       /\ goal[c] \in {"own", "root", "page", "listed"}
       /\ pc[c] \in {"idle", "opendir", "look", "act", "check", "open", "copy", "descend",
                     "empty", "chmod", "page", "list", "stat", "done", "forbidden"}
       /\ req[c] \in [op : Op, name : Name]
       /\ state[c] \in {"shown", "stale", "disturbed", "moved"}
  BY <1>2, InHand DEF Goal, Stage, Past
<1> QED BY <1>1, <1>2, <1>3 DEF TypeOK, FilesOK, LocalsOK

(* A link of the page as it is now does what it says, whatever others add  *)
(* meanwhile, but for the form for uploads where it is not the user's: for *)
(* any tree, any users and any number of requests.                         *)
(* (Utils.h:116, 126, 176, 207; HTTPConnection.cpp:263, 324, 352.)         *)
THEOREM LinksAlwaysHold == Spec => []LinksHold
<1>1. IInv => LinksHold
  <2> SUFFICES ASSUME IInv PROVE LinksHold
    OBVIOUS
  <2>1. ASSUME NEW c \in Conn, state[c] = "shown", pc[c] = "forbidden"
        PROVE  req[c].op = "upload" /\ ~Own(c, pwd[c])
    <3>1. req[c].op = "upload" /\ ~Mine(c, pwd[c]) /\ pwd[c] \in AnyPath /\ LocalsOK
      BY <2>1, PathType DEF IInv, ConnOK, Promised, Shown, Kind
    <3> QED BY <3>1, OwnIsMine
  <2>2. \A c \in Conn : state[c] = "shown" /\ down = c =>
          (pc[c] = "page" /\ pwd[c] = Root) \/ Kind(Home(c)) # "dir"
    BY DEF IInv, Ends
  <2> QED BY <2>1, <2>2, TypesHold DEF LinksHold
<1> QED BY <1>1, Invariance, PTL

-----------------------------------------------------------------------------
(* A step of a connection leaves the others' stage and entries.            *)
LEMMA OthersAlone ==
  ASSUME LocalsOK, NEW c \in Conn, Step(c), NEW e \in Conn \ {c}
  PROVE  pc'[e] = pc[e] /\ todo'[e] = todo[e]
<1> DEFINE Alone == pc'[e] = pc[e] /\ todo'[e] = todo[e]
<1>1. \A s : Proceed(c, s) => Alone
  BY DEF Proceed, Go, Set, LocalsOK, WorkOK
<1>2. \A g : Walk(c, g) => Alone
  BY DEF Walk, Go, Set, LocalsOK, WorkOK
<1>3. Abort(c) => Alone
  BY DEF Abort, work
<1>4. ASSUME NEW s, Go(c, s), NEW t, todo' = Set(todo, c, t) \/ UNCHANGED todo PROVE Alone
  BY <1>4 DEF Go, Set, LocalsOK, WorkOK
<1>5. ASSUME NEW t, pc' = pc, todo' = Set(todo, c, t) \/ UNCHANGED todo PROVE Alone
  BY <1>5 DEF Set, LocalsOK, WorkOK
<1>6. \A yes : Found(c, yes) => Alone
  <2> SUFFICES ASSUME NEW yes, Found(c, yes) PROVE Alone
    OBVIOUS
  <2>1. (\E g : Walk(c, g)) \/ (\E s : Proceed(c, s)) \/ (\E s, t : Go(c, s) /\ todo' = Set(todo, c, t))
    BY DEF Found
  <2> HIDE DEF Alone
  <2> QED BY <1>1, <1>2, <1>4, <2>1
<1>7. Opendir(c) \/ Descend(c) => Alone
  <2> HIDE DEF Alone
  <2> QED BY <1>3, <1>4 DEF Opendir, Descend
<1>8. Look(c) => Alone
  <2> HIDE DEF Alone
  <2> QED BY <1>4, <1>6 DEF Look
<1>9. UploadChmod(c) \/ Share(c) \/ Unshare(c) \/ Delete(c) \/ Mkdir(c) \/ Disk(c)
        \/ Enter(c) \/ Open(c) \/ CopyFile(c) => Alone
  <2> HIDE DEF Alone
  <2> QED BY <1>1 DEF UploadChmod, Share, Unshare, Delete, Mkdir, Disk, Enter, Open, CopyFile
<1>10. Back(c) \/ Check(c) => Alone
  <2> HIDE DEF Alone
  <2> QED BY <1>1, <1>3 DEF Back, Check
<1>17. Refuse(c) => Alone
  <2> HIDE DEF Alone
  <2> QED BY <1>1, <1>2 DEF Refuse
<1>18. Upload(c) => Alone
  <2> HIDE DEF Alone
  <2> QED BY <1>4 DEF Upload
<1>11. DeleteDir(c) \/ Copy(c) => Alone
  <2> HIDE DEF Alone
  <2> QED BY <1>1, <1>3, <1>4 DEF DeleteDir, Copy
<1>12. Unlink(c) => Alone
  <2> HIDE DEF Alone
  <2> QED BY <1>4, <1>5 DEF Unlink
<1>13. Rmdir(c) => Alone
  <2> HIDE DEF Alone
  <2> QED BY <1>1, <1>5 DEF Rmdir
<1>14. Page(c) \/ List(c) \/ Stat(c) => Alone
  <2> HIDE DEF Alone
  <2> QED BY <1>1, <1>2, <1>3, <1>4, <1>5 DEF Page, List, Stat
<1>15. Finish(c) => Alone
  BY DEF Finish, Go, Set, LocalsOK, WorkOK, work
<1> HIDE DEF Alone
<1>16. Alone
  BY <1>7, <1>8, <1>9, <1>10, <1>11, <1>12, <1>13, <1>14, <1>15, <1>17, <1>18 DEF Step
<1> QED BY <1>16 DEF Alone

(* What a step of c changes in the tree: a file or directory of c's user,  *)
(* or a new directory, unless the request strays.                          *)
LEMMA ChangesOwn ==
  ASSUME IInv, NEW c \in Conn, Step(c), NEW p \in Path,
         kind'[p] # kind[p] \/ ~(p \in shared' <=> p \in shared)
  PROVE  \/ p # Root /\ p[1] = owner[c]
         \/ req[c].op = "mkdir" /\ kind[p] = "none" /\ kind'[p] = "dir"
         \/ Strays(c)
<1> SUFFICES ASSUME ~Strays(c)
             PROVE  \/ Mine(c, p)
                    \/ req[c].op = "mkdir" /\ kind[p] = "none" /\ kind'[p] = "dir"
  BY DEF Mine
<1>1. FilesOK /\ LocalsOK /\ ConnOK(c) /\ state[c] # "moved" /\ Simple(req[c].name)
  BY DEF IInv, Strays
<1>2. ~UNCHANGED <<kind, shared>>
  OBVIOUS
<1>3. ASSUME NEW t, Vanish(t) \/ (\E x \in BOOLEAN : SetMode(t, x)) \/ (kind' = Set(kind, t, "file") /\ shared' = shared)
      PROVE  p = t
  BY <1>1, <1>3 DEF Vanish, SetMode, Set, FilesOK
<1>5. CASE Upload(c) \/ UploadChmod(c) \/ Share(c) \/ Unshare(c) \/ Delete(c)
  <2>1. Mine(c, pwd[c])
    BY <1>1, <1>5 DEF Upload, UploadChmod, Share, Unshare, Delete, Doing, At, ConnOK, Guarded, OwnOp
  <2>2. Mine(c, Target(c)) /\ Spot(c) = Target(c) /\ Resolve(Target(c)) = Target(c)
    BY <1>1, <2>1, TargetOf DEF Mine, Spot
  <2>3. p = Target(c)
    <3>1. Upload(c) => p = Target(c)
      BY <1>2, <1>3, <2>2 DEF Upload, files
    <3>2. Delete(c) => p = Target(c)
      BY <1>2, <1>3, <2>2 DEF Delete, Unname, files
    <3>3. UploadChmod(c) \/ Share(c) \/ Unshare(c) => p = Target(c)
      BY <1>3, <2>2 DEF UploadChmod, Share, Unshare
    <3> QED BY <1>5, <3>1, <3>2, <3>3
  <2> QED BY <2>2, <2>3
<1>6. CASE Unlink(c) \/ Rmdir(c)
  <2>1. /\ file[c] \in AnyPath /\ file[c] # Root /\ dir[c] \in AnyPath /\ Within(dir[c], file[c])
        /\ \A q \in todo[c] : q \in AnyPath /\ Within(q, file[c])
        /\ Mine(c, pwd[c]) /\ Front(file[c]) = pwd[c]
    BY <1>1, <1>6 DEF Unlink, Rmdir, At, ConnOK, Deleting
  <2>2. file[c][1] = owner[c]
    <3>1. Within(file[c], pwd[c]) /\ pwd[c] \in AnyPath
      BY <2>1, FrontOf DEF Mine
    <3> QED BY <2>1, <3>1, WithinSame DEF Mine
  <2>3. p = dir[c] \/ p \in todo[c]
    <3>1. Unlink(c) => p \in todo[c]
      <4> SUFFICES ASSUME Unlink(c) PROVE p \in todo[c]
        OBVIOUS
      <4>1. PICK q \in todo[c] :
              IF Kind(Resolve(q)) = "file" THEN Vanish(Resolve(q)) ELSE UNCHANGED files
        BY DEF Unlink
      <4>2. Resolve(q) = q
        BY <2>1, LeadsTo
      <4> QED BY <1>2, <1>3, <4>1, <4>2 DEF files
    <3>2. Rmdir(c) => p = dir[c]
      <4>1. Resolve(dir[c]) = dir[c]
        BY <2>1, LeadsTo
      <4> QED BY <1>2, <1>3, <4>1 DEF Rmdir, Unname, files
    <3> QED BY <1>6, <3>1, <3>2
  <2>4. p \in AnyPath /\ Within(p, file[c])
    BY <2>1, <2>3
  <2> QED BY <2>1, <2>2, <2>4, WithinSame DEF Mine
<1>7. CASE Mkdir(c)
  BY <1>1, <1>7 DEF Mkdir, Doing, Set, FilesOK, Kind, Room
<1>8. CASE CopyFile(c)
  <2>1. Home(c) \in AnyPath /\ Len(Home(c)) = 1 /\ Home(c)[1] = owner[c] /\ Home(c) \in Spelling
        /\ req[c].name \in Name /\ ~Slashed(req[c].name)
    BY <1>1, InHand, Spelled DEF Slashed, Simple
  <2>2. PICK u \in User : Home(c) \o req[c].name = Append(Home(c), u)
    BY <1>1, <2>1, OnePart
  <2>3. Append(Home(c), u) \in AnyPath /\ Append(Home(c), u)[1] = owner[c] /\ Append(Home(c), u) # Root
    <3> DEFINE h == Home(c)
    <3>1. h \in AnyPath /\ Len(h) = 1 /\ h[1] = owner[c]
      BY <2>1
    <3> HIDE DEF h
    <3>2. /\ Append(h, u) \in AnyPath /\ Append(h, u) # Root
          /\ \A i \in 1 .. Len(h) : Append(h, u)[i] = h[i]
      BY <3>1, AppendOf
    <3>3. 1 \in 1 .. Len(h)
      BY <3>1
    <3> QED BY <3>1, <3>2, <3>3 DEF h
  <2>4. Copied(c) = Append(Home(c), u)
    BY <2>2, <2>3, LeadsTo DEF Copied
  <2>5. p = Copied(c)
    BY <1>2, <1>3, <1>8 DEF CopyFile, files
  <2> QED BY <2>3, <2>4, <2>5 DEF Mine
<1>9. Opendir(c) \/ Look(c) \/ Refuse(c) \/ DeleteDir(c) \/ Descend(c) \/ Disk(c) \/ Enter(c) \/ Back(c)
        \/ Check(c) \/ Open(c) \/ Copy(c) \/ Page(c) \/ List(c) \/ Stat(c) \/ Finish(c) => FALSE
  BY <1>2 DEF Opendir, Look, Refuse, DeleteDir, Descend, Disk, Enter, Back, Check, Open, Copy, Page, List,
              Stat, Finish, Calm, Abort, files
<1> QED BY <1>5, <1>6, <1>7, <1>8, <1>9 DEF Step

(* A user's files are changed by the user's own requests only, for any     *)
(* tree and any number of requests, unless the request strays.             *)
THEOREM OwnersAlone == Spec => OwnersOnly
<1>1. IInv /\ [Next]_vars =>
        [\A c \in Conn, p \in Path :
           /\ <<pc[c], todo[c]>> # <<pc[c], todo[c]>>'
           /\ <<kind[p], p \in shared>> # <<kind[p], p \in shared>>'
           => \/ p # Root /\ p[1] = owner[c]
              \/ req[c].op = "mkdir" /\ kind[p] = "none" /\ kind'[p] = "dir"
              \/ Strays(c)]_vars
  <2> SUFFICES ASSUME IInv, Next, NEW c \in Conn, NEW p \in Path,
                      <<pc[c], todo[c]>> # <<pc[c], todo[c]>>',
                      <<kind[p], p \in shared>> # <<kind[p], p \in shared>>'
               PROVE  \/ p # Root /\ p[1] = owner[c]
                      \/ req[c].op = "mkdir" /\ kind[p] = "none" /\ kind'[p] = "dir"
                      \/ Strays(c)
    BY DEF vars
  <2>1. kind'[p] # kind[p] \/ ~(p \in shared' <=> p \in shared)
    OBVIOUS
  <2>2. ASSUME NEW d \in Conn, NEW op \in Op, NEW name \in Name, Receive(d, op, name) PROVE FALSE
    BY <2>1, <2>2 DEF Receive, Calm, files
  <2>3. PICK d \in Conn : Step(d)
    BY <2>2 DEF Next
  <2>4. d = c
    BY <2>3, OthersAlone DEF IInv
  <2> QED BY <2>1, <2>3, <2>4, ChangesOwn
<1> QED BY <1>1, Invariance, PTL DEF Spec, OwnersOnly

(* A request takes from others what is shared, unless the bytes are just   *)
(* being uploaded or have leaked: for any tree and any number of requests. *)
THEOREM TakesShared == Spec => TakesWhatIsShared
<1> DEFINE Takes ==
      \A c \in Conn :
       /\ pc[c] \in {"act", "open", "copy"} /\ pc'[c] \in {"done", "page"}
       /\ req[c].op \in {"download", "download2copy", "copy", "preview"}
       /\ state[c] \notin {"disturbed", "moved"} /\ (req[c].op = "preview" => state[c] = "shown")
       => LET p == IF pc[c] = "copy" THEN file[c] ELSE Spot(c)
          IN p \in private /\ p[1] # owner[c] =>
               p \in leaked \/ \E d \in Conn : Uploading(d, p)
<1>1. IInv /\ [Next]_vars => [Takes]_vars
  <2> SUFFICES ASSUME IInv, Next, NEW c \in Conn,
                      pc[c] \in {"act", "open", "copy"}, pc'[c] \in {"done", "page"},
                      req[c].op \in {"download", "download2copy", "copy", "preview"},
                      state[c] \notin {"disturbed", "moved"}, req[c].op = "preview" => state[c] = "shown",
                      NEW p, p = (IF pc[c] = "copy" THEN file[c] ELSE Spot(c)),
                      p \in private, p[1] # owner[c]
               PROVE  p \in leaked \/ \E d \in Conn : Uploading(d, p)
    BY DEF vars
  <2>1. LocalsOK /\ ConnOK(c) /\ state[c] \in {"shown", "stale"}
    BY InHand DEF IInv, Past
  <2>2. pc[c] = "act" => req[c].op # "copy" /\ ~Refused(c)
    <3> SUFFICES ASSUME pc[c] = "act", req[c].op = "copy" \/ Refused(c) PROVE FALSE
      OBVIOUS
    <3>1. ASSUME NEW d \in Conn, NEW op \in Op, NEW name \in Name, Receive(d, op, name) PROVE FALSE
      <4>1. pc' = Set(pc, d, "act") \/ pc' = Set(pc, d, "opendir")
        BY <3>1 DEF Receive, Go, Walk, Op, FormOp
      <4> QED BY <2>1, <4>1 DEF Set, LocalsOK
    <3>2. PICK d \in Conn : Step(d)
      BY <3>1 DEF Next
    <3>3. d = c
      BY <2>1, <3>2, OthersAlone
    <3>4. Copy(c) \/ Refuse(c)
      BY <3>2, <3>3 DEF Step, Opendir, Look, Upload, UploadChmod, Share, Unshare, Delete, DeleteDir,
           Descend, Unlink, Rmdir, Mkdir, Disk, Enter, Back, Check, Open, CopyFile, Page, List, Stat,
           Finish, Doing, At
    <3>5. \/ pc' = Set(pc, c, "forbidden") \/ pc' = Set(pc, c, "opendir")
          \/ pc' = Set(pc, c, "copy") \/ pc' = pc
      BY <3>4 DEF Copy, Refuse, Abort, Proceed, Walk, Go
    <3> QED BY <2>1, <3>5 DEF Set, LocalsOK
  <2>3. p \in shared
    <3>1. CASE pc[c] = "copy"
      BY <2>1, <3>1 DEF ConnOK, Kept
    <3>2. ASSUME pc[c] \in {"act", "open"} PROVE Last(Target(c)) \notin Dots
      <4>1. p = Spot(c) /\ Kind(p) = "file"
        BY <3>2 DEF IInv, FilesOK, Kind
      <4> QED BY <2>1, <4>1, LeadsTo, InHand DEF Spot
    <3>3. CASE pc[c] = "open"
      <4>1. Target(c) \in shared
        BY <2>1, <3>2, <3>3 DEF ConnOK, Kept
      <4>2. Target(c) \in AnyPath
        BY <4>1, PathType DEF IInv, FilesOK
      <4> QED BY <3>3, <4>1, <4>2, LeadsTo DEF Spot
    <3>4. CASE pc[c] = "act"
      <4>1. Simple(req[c].name)
        <5>1. CASE req[c].op = "preview"
          BY <2>1, <3>4, <5>1 DEF ConnOK, Promised, Shown
        <5>2. CASE req[c].op # "preview"
          <6>1. ~Slashed(req[c].name)
            BY <2>2, <3>4, <5>2 DEF Refused
          <6> QED BY <2>1, <3>2, <3>4, <6>1, TargetEnds
        <5> QED BY <5>1, <5>2
      <4>2. Mine(c, pwd[c]) => FALSE
        BY <2>1, <3>4, <4>1, TargetOf DEF Mine
      <4>3. req[c].op = "preview"
        BY <2>1, <2>2, <3>4, <4>2 DEF ConnOK, Guarded, OwnOp
      <4>4. Target(c) \in shared /\ pwd[c] \in AnyPath
        BY <2>1, <3>4, <4>2, <4>3, PathType DEF ConnOK, Promised, Shown, Offered, Kind
      <4> QED BY <2>1, <3>4, <4>1, <4>4, TargetOf
    <3> QED BY <3>1, <3>3, <3>4
  <2> QED BY <2>3 DEF IInv, Leaks
<1> QED BY <1>1, Invariance, PTL DEF Spec, TakesWhatIsShared

(* LinksHold excuses what happens when a user's home is gone.  A home goes *)
(* only by a request that strays: under which pwd_ was moved, or that has  *)
(* a name that is no name of an entry.                                     *)
THEOREM HomesMostlyStay == Spec => HomesStay
<1> DEFINE Stay == \A u \in User : kind[<<u>>] = "dir" /\ kind'[<<u>>] # "dir" =>
                     \E c \in Conn : Strays(c) /\ <<pc[c], dir[c]>>' # <<pc[c], dir[c]>>
<1>1. IInv /\ [Next]_vars => [Stay]_vars
  <2> SUFFICES ASSUME IInv, Next, NEW u \in User, kind[<<u>>] = "dir", kind'[<<u>>] # "dir"
               PROVE  \E c \in Conn : Strays(c) /\ <<pc[c], dir[c]>>' # <<pc[c], dir[c]>>
    BY DEF vars
  <2> DEFINE h == <<u>>
  <2>1. h \in Path /\ h \in AnyPath /\ Len(h) = 1 /\ h # Root
    BY PathAssumption DEF AnyPath, Root
  <2>2. Front(h) = Root
    <3>1. Len(h) = Len(Front(h)) + 1 /\ Front(h) \in AnyPath
      BY <2>1, FrontOf
    <3> DEFINE n == Len(Front(h))
    <3>2. n \in Nat /\ (Front(h) = Root <=> n = 0) /\ 1 = n + 1
      BY <2>1, <3>1, Lengths
    <3> HIDE DEF n
    <3> QED BY <3>2
  <2> HIDE DEF h
  <2>3. ASSUME NEW d \in Conn, NEW op \in Op, NEW name \in Name, Receive(d, op, name) PROVE FALSE
    BY <2>3 DEF Receive, Calm, files
  <2>4. PICK c \in Conn : Step(c)
    BY <2>3 DEF Next
  <2>5. FilesOK /\ LocalsOK /\ ConnOK(c) /\ kind[h] = "dir" /\ kind'[h] # "dir"
    BY DEF IInv, h
  <2>6. ~UNCHANGED kind
    BY <2>5
  <2>7. ~Mine(c, Root)
    BY DEF Mine
  <2>8. CASE Delete(c)
    <3>1. h = Spot(c)
      <4>1. Removes(Spot(c))
        BY <2>6, <2>8, UnnameMeans DEF Delete, Spot, files
      <4> QED BY <2>1, <2>5, <4>1 DEF Removes, Vanish, Set, FilesOK
    <3>2. Strays(c)
      <4> SUFFICES ASSUME ~Strays(c) PROVE FALSE
        OBVIOUS
      <4>1. Mine(c, pwd[c]) /\ Simple(req[c].name)
        BY <2>5, <2>8 DEF Delete, Doing, At, ConnOK, Guarded, OwnOp, Strays
      <4>2. pwd[c] \in AnyPath /\ Front(Target(c)) = pwd[c] /\ Spot(c) = Target(c)
        BY <2>5, <4>1, TargetOf DEF Mine
      <4> QED BY <2>2, <2>7, <3>1, <4>1, <4>2
    <3>3. pc[c] = "act" /\ pc'[c] = "page"
      BY <2>5, <2>8 DEF Delete, Doing, At, Proceed, Go, Set, LocalsOK
    <3> QED BY <3>2, <3>3
  <2>9. CASE Rmdir(c)
    <3>1. h = Resolve(dir[c]) /\ pc[c] = "empty"
      <4>1. Removes(Resolve(dir[c])) /\ pc[c] = "empty"
        BY <2>6, <2>9, UnnameMeans DEF Rmdir, At, files
      <4> QED BY <2>1, <2>5, <4>1 DEF Removes, Vanish, Set, FilesOK
    <3>2. Strays(c)
      <4> SUFFICES ASSUME ~Strays(c) PROVE FALSE
        OBVIOUS
      <4>1. /\ dir[c] \in AnyPath /\ file[c] \in AnyPath /\ file[c] # Root /\ Within(dir[c], file[c])
            /\ Mine(c, pwd[c]) /\ Front(file[c]) = pwd[c]
        BY <2>5, <3>1 DEF ConnOK, Deleting
      <4>2. h = dir[c]
        BY <3>1, <4>1, LeadsTo
      <4>3. file[c] = h
        <5>1. Len(file[c]) <= 1 /\ Len(file[c]) # 0 /\ Len(file[c]) \in Nat
          BY <2>1, <4>1, <4>2, WithinSame, Lengths
        <5> QED BY <2>1, <4>1, <4>2, <5>1, WithinSame
      <4> QED BY <2>2, <2>7, <4>1, <4>3
    <3>3. dir[c] # Root /\ dir[c] \in Spelling
      BY <2>1, <2>5, <3>1, LeadsTo, Spelled DEF ConnOK, Deleting
    <3>4. pc'[c] = "page" \/ dir'[c] = Front(dir[c])
      BY <2>5, <2>9 DEF Rmdir, Proceed, Go, Set, LocalsOK, WorkOK
    <3> QED BY <3>1, <3>2, <3>3, <3>4, FrontSpelled
  <2>10. Unlink(c) => FALSE
    <3> SUFFICES ASSUME Unlink(c) PROVE FALSE
      OBVIOUS
    <3>1. PICK q : IF Kind(Resolve(q)) = "file" THEN Vanish(Resolve(q)) ELSE UNCHANGED files
      BY DEF Unlink
    <3> QED BY <2>1, <2>5, <2>6, <3>1 DEF Vanish, Set, FilesOK, Kind, files
  <2>11. Upload(c) \/ CopyFile(c) \/ Mkdir(c) => FALSE
    <3>1. ASSUME NEW t, NEW k \in {"file", "dir"}, kind' = Set(kind, t, k), Room(t) PROVE k = "file" /\ t = h
      BY <2>1, <2>5, <3>1 DEF Set, FilesOK
    <3>2. ASSUME NEW t, kind' = Set(kind, t, "file"), Room(t) PROVE FALSE
      BY <2>5, <3>1, <3>2 DEF Room, Kind
    <3>3. Upload(c) => FALSE
      BY <2>6, <3>2 DEF Upload, files
    <3>4. CopyFile(c) => FALSE
      BY <2>6, <3>2 DEF CopyFile, files
    <3>5. Mkdir(c) => FALSE
      BY <2>6, <3>1 DEF Mkdir
    <3> QED BY <3>3, <3>4, <3>5
  <2>12. UploadChmod(c) \/ Share(c) \/ Unshare(c) => FALSE
    BY <2>6 DEF UploadChmod, Share, Unshare, SetMode
  <2>13. Opendir(c) \/ Look(c) \/ Refuse(c) \/ DeleteDir(c) \/ Descend(c) \/ Disk(c) \/ Enter(c)
           \/ Back(c) \/ Check(c) \/ Open(c) \/ Copy(c) \/ Page(c) \/ List(c) \/ Stat(c) \/ Finish(c)
           => FALSE
    BY <2>6 DEF Opendir, Look, Refuse, DeleteDir, Descend, Disk, Enter, Back, Check, Open, Copy, Page, List,
                Stat, Finish, Calm, Abort, files
  <2> QED BY <2>4, <2>8, <2>9, <2>10, <2>11, <2>12, <2>13 DEF Step
<1> QED BY <1>1, Invariance, PTL DEF Spec, HomesStay
=============================================================================
