-------------------------- MODULE ConnectionProofs --------------------------
(***************************************************************************)
(* Proofs about one connection, in and out.                                *)
(*                                                                         *)
(* Module HttpParser, for all requests, sizes of lines and of the buffer,  *)
(* and all ways to cut a request into pieces: a request is read as it was  *)
(* sent, and the parser waits only for what is still on its way.           *)
(*                                                                         *)
(* Module ResponseWriter, for all sizes of headers, pages and files: its   *)
(* invariants, and that the client sees the stream of answers of module    *)
(* ByteStream.                                                             *)
(***************************************************************************)
EXTENDS HttpParser, ResponseWriter, SequenceTheorems, WellFoundedInduction, TLAPS

-----------------------------------------------------------------------------
(* A set of natural numbers that has zero and is closed under successors   *)
(* has them all: induction in a form without an operator.                  *)
LEMMA Induction ==
  ASSUME NEW S, 0 \in S, \A n \in Nat : n \in S => n + 1 \in S
  PROVE  Nat \subseteq S
<1> DEFINE R == OpToRel(<, Nat)
           T == Nat \ S
<1>1. SUFFICES ASSUME T # {} PROVE FALSE
  OBVIOUS
<1>2. \E x \in T : \A y \in T : ~ (<<y, x>> \in R)
  <2>1. IsWellFoundedOn(R, Nat) /\ T \subseteq Nat
    BY NatLessThanWellFounded
  <2> HIDE DEF R, T
  <2> QED BY <2>1, <1>1, WFMin
<1>3. PICK x \in T : \A y \in T : ~ (<<y, x>> \in R)
  BY <1>2
<1>4. x # 0 /\ x - 1 \in Nat
  OBVIOUS
<1>5. <<x - 1, x>> \in R
  BY <1>4 DEF OpToRel
<1>6. x - 1 \notin T
  BY <1>3, <1>5
<1> QED BY <1>4, <1>6

(* The least of some natural numbers is one of them.                       *)
LEMMA LeastIsOne ==
  ASSUME NEW S \in SUBSET Nat, S # {}
  PROVE  Min(S) \in S /\ \A i \in S : Min(S) <= i
<1> DEFINE R == OpToRel(<, Nat)
<1>1. \E x \in S : \A y \in S : ~ (<<y, x>> \in R)
  <2>1. IsWellFoundedOn(R, Nat)
    BY NatLessThanWellFounded
  <2> HIDE DEF R
  <2> QED BY <2>1, WFMin
<1>2. PICK x \in S : \A y \in S : ~ (<<y, x>> \in R)
  BY <1>1
<1>3. \A y \in S : x <= y
  <2> SUFFICES ASSUME NEW y \in S, y < x PROVE FALSE
    OBVIOUS
  <2>1. <<y, x>> \in R
    BY DEF OpToRel
  <2> QED BY <2>1, <1>2
<1> QED BY <1>3 DEF Min

-----------------------------------------------------------------------------
(* The lines of a request.                                                 *)
Name   == Method \union Header \union {"filename", "boundary", "trailer"}
Symbol == {CR, LF} \union Name \union Data

(* Every line but an empty one has a text, none of whose bytes ends a      *)
(* line.                                                                   *)
LEMMA SizeType ==
  ASSUME NEW name \in Name
  PROVE  Size(name) \in Nat \ {0} /\ name # CR /\ name # LF
<1>1. CASE name \in Method \union Header \union {"filename"}
  <2>1. name # "boundary" /\ name # "trailer"
    BY <1>1 DEF Method, Header
  <2>2. TextSize[name] \in Nat \ {0}
    BY <1>1, SizeAssumption
  <2>3. Size(name) = TextSize[name]
    BY <2>1 DEF Size
  <2>4. name # CR /\ name # LF
    BY <1>1 DEF Method, Header, CR, LF
  <2> QED BY <2>2, <2>3, <2>4
<1>2. CASE name \in {"boundary", "trailer"}
  <2>1. Size("boundary") = 2 + BoundarySize /\ Size("trailer") = 2 + BoundarySize + 2
    BY DEF Size
  <2>2. Size("boundary") \in Nat \ {0} /\ Size("trailer") \in Nat \ {0}
    BY <2>1, SizeAssumption
  <2> QED BY <1>2, <2>2 DEF CR, LF
<1> QED BY <1>1, <1>2 DEF Name

(* A function on the first numbers is a sequence.                          *)
LEMMA FunctionIsSeq ==
  ASSUME NEW S, NEW n \in Nat, NEW f \in [1 .. n -> S]
  PROVE  f \in Seq(S) /\ Len(f) = n
<1>1. f \in Seq(S)
  BY SeqDef
<1>2. Len(f) \in Nat /\ 1 .. Len(f) = 1 .. n
  BY <1>1, LenProperties
<1> DEFINE m == Len(f)
<1>3. m \in Nat /\ 1 .. m = 1 .. n
  BY <1>2
<1> HIDE DEF m
<1>4. m = n
  <2>1. m > n => m \in 1 .. m /\ m \notin 1 .. n
    BY <1>3
  <2>2. n > m => n \in 1 .. n /\ n \notin 1 .. m
    BY <1>3
  <2> QED BY <1>3, <2>1, <2>2
<1> QED BY <1>1, <1>4 DEF m

(* What stands where when two sequences are joined.                        *)
LEMMA Joined ==
  ASSUME NEW S, NEW a \in Seq(S), NEW b \in Seq(S)
  PROVE  /\ a \o b \in Seq(S) /\ Len(a \o b) = Len(a) + Len(b)
         /\ Len(a) \in Nat /\ Len(b) \in Nat
         /\ \A i \in 1 .. Len(a) : (a \o b)[i] = a[i]
         /\ \A i \in 1 .. Len(b) : (a \o b)[Len(a) + i] = b[i]
<1> DEFINE c == a \o b
           m == Len(a)
           n == Len(b)
<1>1. c \in Seq(S) /\ Len(c) = m + n /\ m \in Nat /\ n \in Nat
  BY ConcatProperties, LenProperties
<1>2. \A i \in 1 .. m + n : c[i] = IF i <= m THEN a[i] ELSE b[i - m]
  BY ConcatProperties
<1> HIDE DEF c, m, n
<1>3. \A i \in 1 .. m : c[i] = a[i]
  BY <1>1, <1>2
<1>4. \A i \in 1 .. n : c[m + i] = b[i]
  <2> SUFFICES ASSUME NEW i \in 1 .. n PROVE c[m + i] = b[i]
    OBVIOUS
  <2> DEFINE k == m + i
  <2>1. k \in 1 .. m + n /\ ~(k <= m) /\ k - m = i
    BY <1>1
  <2> HIDE DEF k
  <2>2. c[k] = b[i]
    BY <2>1, <1>2
  <2> QED BY <2>2 DEF k
<1> QED BY <1>1, <1>3, <1>4 DEF c, m, n

(* At s of b stand z bytes of a text, and a line end.                      *)
TextAt(b, s, z, name) ==
  /\ s + z + 2 <= Len(b) /\ \A i \in 1 .. z : b[s + i] = name
  /\ b[s + z + 1] = CR /\ b[s + z + 2] = LF

(* What stands in a sequence stands where it was when something is put     *)
(* behind it, and further back when something is put before it.            *)
LEMMA TextMoves ==
  ASSUME NEW a \in Seq(Symbol), NEW b \in Seq(Symbol), NEW s \in Nat, NEW z \in Nat, NEW name
  PROVE  /\ TextAt(a, s, z, name) => TextAt(a \o b, s, z, name)
         /\ TextAt(b, s, z, name) => TextAt(a \o b, Len(a) + s, z, name)
<1> DEFINE c == a \o b
           m == Len(a)
           n == Len(b)
<1>1. /\ Len(c) = m + n /\ m \in Nat /\ n \in Nat
      /\ \A i \in 1 .. m : c[i] = a[i]
      /\ \A i \in 1 .. n : c[m + i] = b[i]
  BY Joined
<1> HIDE DEF c, m, n
<1>2. ASSUME TextAt(a, s, z, name) PROVE TextAt(c, s, z, name)
  <2>1. s + z + 2 <= m
    BY <1>2 DEF TextAt, m
  <2>2. \A i \in 1 .. s + z + 2 : c[i] = a[i]
    BY <1>1, <2>1
  <2>3. /\ \A i \in 1 .. z : s + i \in 1 .. s + z + 2
        /\ s + z + 1 \in 1 .. s + z + 2 /\ s + z + 2 \in 1 .. s + z + 2
    OBVIOUS
  <2>4. \A i \in 1 .. z : c[s + i] = a[s + i]
    BY <2>2, <2>3
  <2>5. c[s + z + 1] = a[s + z + 1] /\ c[s + z + 2] = a[s + z + 2]
    BY <2>2, <2>3
  <2>6. s + z + 2 <= Len(c)
    BY <1>1, <2>1
  <2> QED BY <1>2, <2>4, <2>5, <2>6 DEF TextAt
<1>3. ASSUME TextAt(b, s, z, name) PROVE TextAt(c, m + s, z, name)
  <2>1. s + z + 2 <= n
    BY <1>3 DEF TextAt, n
  <2>2. \A i \in 1 .. s + z + 2 : c[m + i] = b[i]
    BY <1>1, <2>1
  <2>3. /\ \A i \in 1 .. z : c[(m + s) + i] = b[s + i]
        /\ c[(m + s) + z + 1] = b[s + z + 1] /\ c[(m + s) + z + 2] = b[s + z + 2]
    <3>1. \A i \in 1 .. z : s + i \in 1 .. s + z + 2 /\ m + (s + i) = (m + s) + i
      BY <1>1
    <3>2. /\ s + z + 1 \in 1 .. s + z + 2 /\ m + (s + z + 1) = (m + s) + z + 1
          /\ s + z + 2 \in 1 .. s + z + 2 /\ m + (s + z + 2) = (m + s) + z + 2
      BY <1>1
    <3> QED BY <2>2, <3>1, <3>2
  <2>4. (m + s) + z + 2 <= Len(c)
    BY <1>1, <2>1
  <2> QED BY <1>3, <2>3, <2>4 DEF TextAt
<1> QED BY <1>2, <1>3 DEF c, m

(* A line is its text and its end.                                         *)
LEMMA LineIs ==
  ASSUME NEW name \in Name
  PROVE  Line(name) \in Seq(Symbol) /\ Len(Line(name)) = Size(name) + 2
         /\ TextAt(Line(name), 0, Size(name), name)
<1> DEFINE z == Size(name)
           a == TextOf(name)
           b == <<CR, LF>>
<1>1. z \in Nat \ {0} /\ name \in Symbol
  BY SizeType DEF Symbol
<1>2. a \in Seq(Symbol) /\ Len(a) = z /\ \A i \in 1 .. z : a[i] = name
  <2>1. a \in [1 .. z -> Symbol]
    BY <1>1 DEF TextOf
  <2> QED BY <1>1, <2>1, FunctionIsSeq DEF TextOf
<1>3. b \in Seq(Symbol) /\ Len(b) = 2 /\ b[1] = CR /\ b[2] = LF
  <2>1. CR \in Symbol /\ LF \in Symbol
    BY DEF Symbol
  <2> QED BY <2>1, FunctionIsSeq
<1> HIDE DEF z, a, b
<1>4. /\ a \o b \in Seq(Symbol) /\ Len(a \o b) = z + 2
      /\ \A i \in 1 .. z : (a \o b)[i] = a[i]
      /\ \A i \in 1 .. 2 : (a \o b)[z + i] = b[i]
  <2>1. a \in Seq(Symbol) /\ b \in Seq(Symbol)
    BY <1>2, <1>3
  <2>2. /\ a \o b \in Seq(Symbol) /\ Len(a \o b) = Len(a) + Len(b)
        /\ \A i \in 1 .. Len(a) : (a \o b)[i] = a[i]
        /\ \A i \in 1 .. Len(b) : (a \o b)[Len(a) + i] = b[i]
    BY <2>1, Joined
  <2> QED BY <2>2, <1>2, <1>3
<1> DEFINE c == a \o b
<1>5. Line(name) = c
  BY DEF Line, a, b
<1> HIDE DEF c
<1>6. /\ \A i \in 1 .. z : c[0 + i] = name
      /\ c[0 + z + 1] = CR /\ c[0 + z + 2] = LF /\ 0 + z + 2 <= Len(c)
  <2>1. \A i \in 1 .. z : 0 + i = i /\ c[i] = name
    BY <1>1, <1>2, <1>4 DEF c
  <2>2. c[z + 1] = CR /\ c[z + 2] = LF
    BY <1>1, <1>3, <1>4 DEF c
  <2>3. 0 + z + 1 = z + 1 /\ 0 + z + 2 = z + 2 /\ Len(c) = z + 2
    BY <1>1, <1>4 DEF c
  <2> QED BY <1>1, <2>1, <2>2, <2>3
<1> QED BY <1>4, <1>5, <1>6 DEF TextAt, z, c

(* The recursion of FirstLines has a solution.                             *)
LEMMA FirstLinesDefined ==
  ASSUME NEW names \in Seq(Name)
  PROVE  FirstLines(names) =
           [i \in 0 .. Len(names) |-> IF i = 0 THEN <<>> ELSE FirstLines(names)[i - 1] \o Line(names[i])]
<1> DEFINE Row(g, i) == IF i = 0 THEN <<>> ELSE g[i - 1] \o Line(names[i])
           S == {k \in Nat : \E g : g = [i \in 0 .. k |-> Row(g, i)]}
<1>1. 0 \in S
  <2> DEFINE g == [i \in 0 .. 0 |-> <<>>]
  <2>1. g = [i \in 0 .. 0 |-> Row(g, i)]
    OBVIOUS
  <2> QED BY <2>1
<1>2. \A k \in Nat : k \in S => k + 1 \in S
  <2> SUFFICES ASSUME NEW k \in Nat, NEW g, g = [i \in 0 .. k |-> Row(g, i)]
               PROVE  k + 1 \in S
    OBVIOUS
  <2> DEFINE h == [i \in 0 .. k + 1 |-> IF i <= k THEN g[i] ELSE g[k] \o Line(names[k + 1])]
  <2>1. \A i \in 0 .. k + 1 : h[i] = Row(h, i)
    <3> SUFFICES ASSUME NEW i \in 0 .. k + 1 PROVE h[i] = Row(h, i)
      OBVIOUS
    <3>1. CASE i = 0
      BY <3>1
    <3>2. CASE i \in 1 .. k
      <4>1. i \in 0 .. k /\ i - 1 \in 0 .. k + 1 /\ i - 1 <= k /\ i # 0
        BY <3>2
      <4>2. g[i] = Row(g, i)
        BY <4>1
      <4>3. h[i] = g[i] /\ h[i - 1] = g[i - 1]
        BY <4>1
      <4> QED BY <4>1, <4>2, <4>3
    <3>3. CASE i = k + 1
      <4>1. h[i] = g[k] \o Line(names[k + 1]) /\ h[k] = g[k] /\ i - 1 = k /\ i # 0
        BY <3>3
      <4> QED BY <3>3, <4>1
    <3> QED BY <3>1, <3>2, <3>3
  <2>2. h = [i \in 0 .. k + 1 |-> Row(h, i)]
    BY <2>1
  <2> QED BY <2>2
<1>3. Nat \subseteq S
  <2> HIDE DEF S
  <2> QED BY <1>1, <1>2, Induction
<1>4. PICK g : g = [i \in 0 .. Len(names) |-> Row(g, i)]
  BY <1>3, LenProperties
<1> QED BY <1>4 DEF FirstLines

-----------------------------------------------------------------------------
(* The first lines, one by one.                                            *)
LEMMA FirstLinesAre ==
  ASSUME NEW names \in Seq(Name)
  PROVE  /\ FirstLines(names)[0] = <<>> /\ Len(names) \in Nat
         /\ \A j \in 1 .. Len(names) :
              names[j] \in Name /\ FirstLines(names)[j] = FirstLines(names)[j - 1] \o Line(names[j])
         /\ \A j \in 0 .. Len(names) : FirstLines(names)[j] \in Seq(Symbol)
<1> DEFINE f == FirstLines(names)
           n == Len(names)
<1>1. f = [i \in 0 .. n |-> IF i = 0 THEN <<>> ELSE f[i - 1] \o Line(names[i])]
  BY FirstLinesDefined
<1>2. n \in Nat /\ \A j \in 1 .. n : names[j] \in Name
  BY LenProperties, ElementOfSeq
<1> HIDE DEF f, n
<1>3. f[0] = <<>> /\ \A j \in 1 .. n : f[j] = f[j - 1] \o Line(names[j])
  <2>1. \A i \in 0 .. n : f[i] = IF i = 0 THEN <<>> ELSE f[i - 1] \o Line(names[i])
    BY <1>1
  <2>2. 0 \in 0 .. n /\ \A j \in 1 .. n : j \in 0 .. n /\ j # 0
    BY <1>2
  <2> QED BY <2>1, <2>2
<1> DEFINE S == {j \in Nat : j <= n => f[j] \in Seq(Symbol)}
<1>4. 0 \in S
  BY <1>3, EmptySeq
<1>5. \A j \in Nat : j \in S => j + 1 \in S
  <2> SUFFICES ASSUME NEW j \in Nat, j \in S, j + 1 <= n PROVE f[j + 1] \in Seq(Symbol)
    OBVIOUS
  <2>1. f[j] \in Seq(Symbol) /\ j + 1 \in 1 .. n /\ (j + 1) - 1 = j
    BY <1>2
  <2>2. Line(names[j + 1]) \in Seq(Symbol)
    BY <1>2, <2>1, LineIs
  <2>3. f[j + 1] = f[j] \o Line(names[j + 1])
    BY <1>3, <2>1
  <2> QED BY <2>1, <2>2, <2>3, ConcatProperties
<1>6. Nat \subseteq S
  <2> HIDE DEF S
  <2> QED BY <1>4, <1>5, Induction
<1>7. \A j \in 0 .. n : f[j] \in Seq(Symbol)
  BY <1>2, <1>6
<1> QED BY <1>2, <1>3, <1>7 DEF f, n

(* Where the line after the first j begins.                                *)
Start(names, j) == Len(FirstLines(names)[j])

(* Each line begins two bytes after the text of the one before it.         *)
LEMMA StartIs ==
  ASSUME NEW names \in Seq(Name)
  PROVE  /\ Start(names, 0) = 0
         /\ \A j \in 0 .. Len(names) : Start(names, j) \in Nat
         /\ \A j \in 1 .. Len(names) : Start(names, j) = Start(names, j - 1) + Size(names[j]) + 2
<1> DEFINE n == Len(names)
           f == FirstLines(names)
<1>1. /\ f[0] = <<>> /\ n \in Nat
      /\ \A j \in 1 .. n : names[j] \in Name /\ f[j] = f[j - 1] \o Line(names[j])
      /\ \A j \in 0 .. n : f[j] \in Seq(Symbol)
  BY FirstLinesAre
<1> HIDE DEF n, f
<1>2. \A j \in 0 .. n : Len(f[j]) \in Nat
  BY <1>1, LenProperties
<1>3. \A j \in 1 .. n : Len(f[j]) = Len(f[j - 1]) + Size(names[j]) + 2
  <2> SUFFICES ASSUME NEW j \in 1 .. n PROVE Len(f[j]) = Len(f[j - 1]) + Size(names[j]) + 2
    OBVIOUS
  <2> DEFINE a == f[j - 1]
             b == Line(names[j])
             k == Len(a)
             z == Size(names[j])
  <2>1. a \in Seq(Symbol) /\ b \in Seq(Symbol) /\ Len(b) = z + 2 /\ z \in Nat /\ f[j] = a \o b
    <3>1. n \in Nat
      BY <1>1
    <3>2. j - 1 \in 0 .. n
      BY <3>1
    <3>3. names[j] \in Name
      BY <1>1
    <3> QED BY <1>1, <3>2, <3>3, LineIs, SizeType
  <2> HIDE DEF a, b, z
  <2>2. Len(f[j]) = k + Len(b) /\ k \in Nat
    <3>1. Len(a \o b) = Len(a) + Len(b) /\ Len(a) \in Nat
      BY <2>1, Joined
    <3> QED BY <2>1, <3>1
  <2> HIDE DEF k
  <2>3. Len(f[j]) = k + z + 2
    <3>1. Len(f[j]) = k + (z + 2)
      BY <2>1, <2>2
    <3>2. k + (z + 2) = k + z + 2
      BY <2>1, <2>2
    <3> QED BY <3>1, <3>2
  <2> QED BY <2>3 DEF a, k, z
<1>4. Len(<<>>) = 0
  BY EmptySeq
<1> QED BY <1>1, <1>2, <1>3, <1>4 DEF Start, n, f

(* A line stands where the lines before it end.                            *)
LEMMA LinesHave ==
  ASSUME NEW names \in Seq(Name)
  PROVE  /\ Lines(names) \in Seq(Symbol) /\ Len(Lines(names)) = Start(names, Len(names))
         /\ \A j \in 1 .. Len(names) :
              TextAt(Lines(names), Start(names, j - 1), Size(names[j]), names[j])
<1> DEFINE n == Len(names)
           f == FirstLines(names)
<1>1. /\ n \in Nat /\ \A j \in 1 .. n : names[j] \in Name /\ f[j] = f[j - 1] \o Line(names[j])
      /\ \A j \in 0 .. n : f[j] \in Seq(Symbol)
  BY FirstLinesAre
<1>2. /\ \A j \in 0 .. n : Start(names, j) \in Nat /\ Start(names, j) = Len(f[j])
      /\ Lines(names) = f[n]
  BY StartIs DEF Start, Lines
<1> HIDE DEF n, f
<1> SUFFICES ASSUME NEW j \in 1 .. n
             PROVE  TextAt(f[n], Start(names, j - 1), Size(names[j]), names[j])
  BY <1>1, <1>2 DEF n
<1> DEFINE s == Start(names, j - 1)
           z == Size(names[j])
           S == {i \in Nat : j + i <= n => TextAt(f[j + i], s, z, names[j])}
<1>3. s \in Nat /\ z \in Nat /\ s = Len(f[j - 1]) /\ names[j] \in Name /\ f[j - 1] \in Seq(Symbol)
  <2>1. j - 1 \in 0 .. n
    BY <1>1
  <2> QED BY <1>1, <1>2, <2>1, SizeType
<1> HIDE DEF s, z
<1>4. 0 \in S
  <2>1. TextAt(Line(names[j]), 0, z, names[j]) /\ Line(names[j]) \in Seq(Symbol)
    BY <1>3, LineIs DEF z
  <2>2. TextAt(f[j - 1] \o Line(names[j]), s + 0, z, names[j])
    BY <1>3, <2>1, TextMoves
  <2>3. s + 0 = s /\ j + 0 = j
    BY <1>3
  <2> QED BY <1>1, <2>2, <2>3
<1>5. \A i \in Nat : i \in S => i + 1 \in S
  <2> SUFFICES ASSUME NEW i \in Nat, i \in S, j + (i + 1) <= n
               PROVE  TextAt(f[j + (i + 1)], s, z, names[j])
    OBVIOUS
  <2> DEFINE k == j + (i + 1)
  <2>1. k \in 1 .. n /\ k - 1 \in 0 .. n /\ k - 1 = j + i /\ j + i <= n
    BY <1>1
  <2>2. TextAt(f[k - 1], s, z, names[j])
    BY <2>1
  <2> HIDE DEF k
  <2>3. f[k] = f[k - 1] \o Line(names[k]) /\ f[k - 1] \in Seq(Symbol) /\ Line(names[k]) \in Seq(Symbol)
    BY <1>1, <2>1, LineIs
  <2>4. TextAt(f[k], s, z, names[j])
    BY <1>3, <2>2, <2>3, TextMoves
  <2> QED BY <2>4 DEF k
<1>6. Nat \subseteq S
  <2> HIDE DEF S
  <2> QED BY <1>4, <1>5, Induction
<1>7. n - j \in S /\ j + (n - j) = n
  <2> HIDE DEF S
  <2>1. n - j \in Nat /\ j + (n - j) = n
    BY <1>1
  <2> QED BY <1>6, <2>1
<1> QED BY <1>7 DEF s, z

-----------------------------------------------------------------------------
(* The layout of a request: its lines, the empty line, and the body.       *)
Rows(r)    == <<r.method>> \o r.headers
PartRows   == <<"boundary", "filename">>
HeadEnd(r) == Len(HeadBytes(r))
DataAt(r)  == HeadEnd(r) + Start(PartRows, 2) + 2

(* Line end and nothing before it.                                         *)
LEMMA LineEnd ==
  /\ <<CR, LF>> \in Seq(Symbol) /\ Len(<<CR, LF>>) = 2
  /\ TextAt(<<CR, LF>>, 0, 0, "")
<1> DEFINE b == <<CR, LF>>
<1>1. CR \in Symbol /\ LF \in Symbol
  BY DEF Symbol
<1>2. b \in Seq(Symbol) /\ Len(b) = 2 /\ b[1] = CR /\ b[2] = LF
  BY <1>1, FunctionIsSeq
<1> HIDE DEF b
<1>3. TextAt(b, 0, 0, "")
  <2>1. 0 + 0 + 2 = 2 /\ 0 + 0 + 1 = 1
    OBVIOUS
  <2> QED BY <1>2, <2>1 DEF TextAt
<1> QED BY <1>2, <1>3 DEF b

(* The request line and the headers.                                       *)
LEMMA RowsAre ==
  ASSUME NEW r \in Request
  PROVE  /\ Rows(r) \in Seq(Name) /\ Len(r.headers) \in Nat
         /\ Len(Rows(r)) = Len(r.headers) + 1 /\ Rows(r)[1] = r.method
         /\ \A i \in 1 .. Len(r.headers) : r.headers[i] \in Header /\ Rows(r)[i + 1] = r.headers[i]
<1> DEFINE a == <<r.method>>
           b == r.headers
           n == Len(b)
<1>1. a \in Seq(Name) /\ Len(a) = 1 /\ a[1] = r.method
  <2>1. r.method \in Name
    BY RequestAssumption DEF Name
  <2> QED BY <2>1, FunctionIsSeq
<1>2. b \in Seq(Header)
  BY RequestAssumption
<1>3. b \in Seq(Name) /\ n \in Nat /\ \A i \in 1 .. n : b[i] \in Header
  <2>1. Header \subseteq Name
    BY DEF Name
  <2> QED BY <1>2, <2>1, SeqMonotonic, LenProperties, ElementOfSeq
<1> HIDE DEF a, b
<1>4. /\ a \o b \in Seq(Name) /\ Len(a \o b) = Len(a) + Len(b)
      /\ \A i \in 1 .. Len(a) : (a \o b)[i] = a[i]
      /\ \A i \in 1 .. Len(b) : (a \o b)[Len(a) + i] = b[i]
  <2>1. a \in Seq(Name) /\ b \in Seq(Name)
    BY <1>1, <1>3
  <2> QED BY <2>1, Joined
<1> HIDE DEF n
<1>5. Rows(r) = a \o b
  BY DEF Rows, a, b
<1> DEFINE c == a \o b
<1>6. c \in Seq(Name) /\ Len(c) = 1 + n /\ c[1] = a[1] /\ \A i \in 1 .. n : c[1 + i] = b[i]
  BY <1>1, <1>4 DEF n
<1> HIDE DEF c
<1>7. Len(c) = n + 1 /\ \A i \in 1 .. n : c[i + 1] = b[i]
  <2>1. 1 + n = n + 1 /\ \A i \in 1 .. n : 1 + i = i + 1
    BY <1>3
  <2> QED BY <1>6, <2>1
<1>8. Rows(r) = c
  BY <1>5 DEF c
<1> QED BY <1>1, <1>3, <1>6, <1>7, <1>8 DEF b, n

(* The lines before the body stand where the lines before them end, and    *)
(* after them an empty one.                                                *)
LEMMA HeadIs ==
  ASSUME NEW r \in Request
  PROVE  /\ HeadBytes(r) \in Seq(Symbol) /\ HeadEnd(r) = Start(Rows(r), Len(Rows(r))) + 2
         /\ \A j \in 1 .. Len(Rows(r)) :
              TextAt(HeadBytes(r), Start(Rows(r), j - 1), Size(Rows(r)[j]), Rows(r)[j])
         /\ TextAt(HeadBytes(r), Start(Rows(r), Len(Rows(r))), 0, "")
<1> DEFINE names == Rows(r)
           n == Len(names)
           a == Lines(names)
           b == <<CR, LF>>
<1>1. names \in Seq(Name) /\ n \in Nat
  BY RowsAre, LenProperties
<1>2. /\ a \in Seq(Symbol) /\ Len(a) = Start(names, n)
      /\ \A j \in 1 .. n : TextAt(a, Start(names, j - 1), Size(names[j]), names[j])
  BY <1>1, LinesHave
<1>3. b \in Seq(Symbol) /\ Len(b) = 2 /\ TextAt(b, 0, 0, "")
  BY LineEnd
<1>4. /\ \A j \in 0 .. n : Start(names, j) \in Nat
      /\ \A j \in 1 .. n : names[j] \in Name
  BY <1>1, StartIs, ElementOfSeq
<1>5. HeadBytes(r) = a \o b
  BY DEF HeadBytes, Rows
<1> HIDE DEF a, b, names, n
<1>6. a \o b \in Seq(Symbol) /\ Len(a \o b) = Len(a) + Len(b)
  BY <1>2, <1>3, Joined
<1>7. \A j \in 1 .. n : TextAt(a \o b, Start(names, j - 1), Size(names[j]), names[j])
  <2> SUFFICES ASSUME NEW j \in 1 .. n
               PROVE  TextAt(a \o b, Start(names, j - 1), Size(names[j]), names[j])
    OBVIOUS
  <2>1. j - 1 \in 0 .. n
    BY <1>1
  <2>2. Start(names, j - 1) \in Nat /\ Size(names[j]) \in Nat
    BY <1>4, <2>1, SizeType
  <2> QED BY <1>2, <1>3, <2>2, TextMoves
<1>8. TextAt(a \o b, Len(a) + 0, 0, "")
  BY <1>2, <1>3, TextMoves
<1>9. Start(names, n) + 0 = Start(names, n) /\ Start(names, n) \in Nat
  BY <1>1, <1>4
<1> QED BY <1>2, <1>3, <1>5, <1>6, <1>7, <1>8, <1>9 DEF HeadEnd, names, n

(* The head of the part of an upload, and its data.                        *)
LEMMA PartIs ==
  /\ PartRows \in Seq(Name) /\ Len(PartRows) = 2
  /\ PartRows[1] = "boundary" /\ PartRows[2] = "filename"
  /\ Start(PartRows, 0) = 0
  /\ Start(PartRows, 1) = Size("boundary") + 2 /\ Start(PartRows, 1) \in Nat
  /\ Start(PartRows, 2) = Start(PartRows, 1) + Size("filename") + 2 /\ Start(PartRows, 2) \in Nat
<1> DEFINE p == PartRows
<1>1. p \in Seq(Name) /\ Len(p) = 2 /\ p[1] = "boundary" /\ p[2] = "filename"
  <2>1. "boundary" \in Name /\ "filename" \in Name
    BY DEF Name
  <2>2. <<"boundary", "filename">> \in [1 .. 2 -> Name]
    BY <2>1
  <2> QED BY <2>2, FunctionIsSeq DEF PartRows
<1> HIDE DEF p
<1>2. /\ Start(p, 0) = 0
      /\ \A j \in 0 .. 2 : Start(p, j) \in Nat
      /\ \A j \in 1 .. 2 : Start(p, j) = Start(p, j - 1) + Size(p[j]) + 2
  BY <1>1, StartIs
<1>3. Start(p, 1) = Start(p, 0) + Size(p[1]) + 2 /\ Start(p, 2) = Start(p, 1) + Size(p[2]) + 2
  <2>1. 1 \in 1 .. 2 /\ 2 \in 1 .. 2 /\ 1 - 1 = 0 /\ 2 - 1 = 1
    OBVIOUS
  <2> QED BY <1>2, <2>1
<1>4. Size("boundary") \in Nat
  <2>1. "boundary" \in Name
    BY DEF Name
  <2> QED BY <2>1, SizeType
<1>5. 0 + Size("boundary") + 2 = Size("boundary") + 2
  BY <1>4
<1>6. 0 \in 0 .. 2 /\ 1 \in 0 .. 2 /\ 2 \in 0 .. 2
  OBVIOUS
<1> QED BY <1>1, <1>2, <1>3, <1>5, <1>6 DEF p

(* The body of an upload: the head of the part, the data and the end.      *)
LEMMA UploadIs ==
  ASSUME NEW r \in Request, r.upload
  PROVE  LET m == Start(PartRows, 2) + 2 IN
         /\ Body(r) \in Seq(Symbol)
         /\ \A k \in {1, 2} : TextAt(Body(r), Start(PartRows, k - 1), Size(PartRows[k]), PartRows[k])
         /\ TextAt(Body(r), Start(PartRows, 2), 0, "")
         /\ m \in Nat /\ Len(r.data) \in Nat /\ Trailer \in Nat
         /\ Len(Body(r)) = m + Len(r.data) + Trailer
         /\ \A i \in 1 .. Len(r.data) : Body(r)[m + i] = r.data[i]
<1> DEFINE a == Lines(PartRows)
           b == <<CR, LF>>
           d == r.data
           e == Line("trailer")
           s == Start(PartRows, 2)
<1>1. /\ a \in Seq(Symbol) /\ Len(a) = s /\ s \in Nat
      /\ \A k \in {1, 2} : TextAt(a, Start(PartRows, k - 1), Size(PartRows[k]), PartRows[k])
  <2>1. /\ a \in Seq(Symbol) /\ Len(a) = Start(PartRows, Len(PartRows))
        /\ \A k \in 1 .. Len(PartRows) :
             TextAt(a, Start(PartRows, k - 1), Size(PartRows[k]), PartRows[k])
    BY PartIs, LinesHave
  <2>2. \A k \in {1, 2} : k \in 1 .. 2
    OBVIOUS
  <2> QED BY <2>1, <2>2, PartIs
<1>2. b \in Seq(Symbol) /\ Len(b) = 2 /\ TextAt(b, 0, 0, "")
  BY LineEnd
<1>3. d \in Seq(Symbol) /\ Len(d) \in Nat
  <2>1. d \in Seq(Data) /\ Data \subseteq Symbol
    BY RequestAssumption DEF Symbol
  <2> QED BY <2>1, SeqMonotonic, LenProperties
<1>4. e \in Seq(Symbol) /\ Len(e) = 2 + BoundarySize + 2 + 2 /\ BoundarySize \in Nat
  <2>1. "trailer" \in Name /\ Size("trailer") = 2 + BoundarySize + 2
    BY DEF Name, Size
  <2>2. e \in Seq(Symbol) /\ Len(e) = Size("trailer") + 2
    BY <2>1, LineIs
  <2> QED BY <2>1, <2>2, SizeAssumption
<1>5. \A k \in {1, 2} : Start(PartRows, k - 1) \in Nat /\ Size(PartRows[k]) \in Nat
  <2>1. "boundary" \in Name /\ "filename" \in Name /\ 1 - 1 = 0 /\ 2 - 1 = 1
    BY DEF Name
  <2> QED BY <2>1, PartIs, SizeType
<1>6. Body(r) = (((a \o b) \o d) \o b) \o e
  BY DEF Body, PartRows
<1>7. Trailer = 2 + 2 + BoundarySize + 2 + 2
  BY DEF Trailer
<1> HIDE DEF a, b, e, d, s
<1> DEFINE ab == a \o b
<1>8. /\ ab \in Seq(Symbol) /\ Len(ab) = s + 2
      /\ \A k \in {1, 2} : TextAt(ab, Start(PartRows, k - 1), Size(PartRows[k]), PartRows[k])
      /\ TextAt(ab, s, 0, "")
  <2>1. ab \in Seq(Symbol) /\ Len(ab) = Len(a) + Len(b)
    <3>1. a \in Seq(Symbol) /\ b \in Seq(Symbol)
      BY <1>1, <1>2
    <3> QED BY <3>1, Joined
  <2>2. \A k \in {1, 2} : TextAt(ab, Start(PartRows, k - 1), Size(PartRows[k]), PartRows[k])
    BY <1>1, <1>2, <1>5, TextMoves
  <2>3. TextAt(ab, Len(a) + 0, 0, "") /\ s + 0 = s
    <3>1. TextAt(ab, Len(a) + 0, 0, "")
      BY <1>1, <1>2, TextMoves
    <3>2. s \in Nat
      BY <1>1
    <3>3. s + 0 = s
      BY <3>2
    <3> QED BY <3>1, <3>3
  <2> QED BY <1>1, <1>2, <2>1, <2>2, <2>3
<1> HIDE DEF ab
<1> DEFINE abd == ab \o d
<1>9. /\ abd \in Seq(Symbol) /\ Len(abd) = (s + 2) + Len(d)
      /\ \A i \in 1 .. Len(d) : abd[(s + 2) + i] = d[i]
  <2>1. /\ abd \in Seq(Symbol) /\ Len(abd) = Len(ab) + Len(d)
        /\ \A i \in 1 .. Len(d) : abd[Len(ab) + i] = d[i]
    <3>1. ab \in Seq(Symbol) /\ d \in Seq(Symbol)
      BY <1>3, <1>8
    <3> QED BY <3>1, Joined
  <2> QED BY <1>8, <2>1
<1> HIDE DEF abd
<1> DEFINE be == b \o e
           n == Len(d)
<1>10. be \in Seq(Symbol) /\ Len(be) = Trailer
  <2>1. be \in Seq(Symbol) /\ Len(be) = Len(b) + Len(e)
    <3>1. b \in Seq(Symbol) /\ e \in Seq(Symbol)
      BY <1>2, <1>4
    <3> QED BY <3>1, Joined
  <2>2. Len(be) = 2 + (2 + BoundarySize + 2 + 2)
    BY <1>2, <1>4, <2>1
  <2>3. 2 + (2 + BoundarySize + 2 + 2) = 2 + 2 + BoundarySize + 2 + 2
    BY <1>4
  <2> QED BY <1>7, <2>1, <2>2, <2>3
<1>11. (abd \o b) \o e = abd \o be
  <2>1. abd \in Seq(Symbol) /\ b \in Seq(Symbol) /\ e \in Seq(Symbol)
    BY <1>2, <1>4, <1>9
  <2> QED BY <2>1, ConcatAssociative
<1> HIDE DEF be
<1>12. /\ abd \o be \in Seq(Symbol) /\ Len(abd \o be) = Len(abd) + Len(be)
       /\ \A i \in 1 .. Len(abd) : (abd \o be)[i] = abd[i]
  <2>1. abd \in Seq(Symbol) /\ be \in Seq(Symbol)
    BY <1>9, <1>10
  <2> QED BY <2>1, Joined
<1> DEFINE c == abd \o be
<1>13. Body(r) = c
  BY <1>6, <1>11 DEF abd, ab
<1>14. \A i \in 1 .. n : c[(s + 2) + i] = d[i]
  <2>1. n \in Nat /\ s \in Nat
    BY <1>1, <1>3
  <2>2. /\ \A i \in 1 .. (s + 2) + n : c[i] = abd[i]
        /\ \A i \in 1 .. n : abd[(s + 2) + i] = d[i]
    BY <1>9, <1>12
  <2> HIDE DEF n, c
  <2>3. \A i \in 1 .. n : (s + 2) + i \in 1 .. (s + 2) + n
    BY <2>1
  <2> QED BY <2>2, <2>3
<1>15. /\ \A k \in {1, 2} : TextAt(c, Start(PartRows, k - 1), Size(PartRows[k]), PartRows[k])
       /\ TextAt(c, s, 0, "")
  <2>1. /\ \A k \in {1, 2} : TextAt(abd, Start(PartRows, k - 1), Size(PartRows[k]), PartRows[k])
        /\ TextAt(abd, s, 0, "")
    BY <1>1, <1>3, <1>5, <1>8, TextMoves DEF abd
  <2> QED BY <1>1, <1>5, <1>9, <1>10, <2>1, TextMoves
<1>16. c \in Seq(Symbol) /\ Len(c) = (s + 2) + n + Trailer
  BY <1>9, <1>10, <1>12
<1>17. s + 2 \in Nat /\ n \in Nat /\ Trailer \in Nat
  BY <1>1, <1>3, <1>4, <1>7
<1> HIDE DEF c
<1> QED BY <1>13, <1>14, <1>15, <1>16, <1>17 DEF s, d, n

(* The request as a whole.                                                 *)
LEMMA BytesAre ==
  ASSUME NEW r \in Request
  PROVE  LET h == HeadEnd(r) IN
         /\ Bytes(r) \in Seq(Symbol) /\ Body(r) \in Seq(Symbol)
         /\ h \in Nat /\ Len(Body(r)) \in Nat /\ Len(Bytes(r)) = h + Len(Body(r))
         /\ h = Start(Rows(r), Len(Rows(r))) + 2
         /\ \A j \in 1 .. Len(Rows(r)) :
              TextAt(Bytes(r), Start(Rows(r), j - 1), Size(Rows(r)[j]), Rows(r)[j])
         /\ TextAt(Bytes(r), Start(Rows(r), Len(Rows(r))), 0, "")
         /\ \A i \in 1 .. Len(Body(r)) : Bytes(r)[h + i] = Body(r)[i]
         /\ ~r.upload => Body(r) = r.data
         /\ r.upload =>
              /\ \A k \in {1, 2} :
                   TextAt(Bytes(r), h + Start(PartRows, k - 1), Size(PartRows[k]), PartRows[k])
              /\ TextAt(Bytes(r), h + Start(PartRows, 2), 0, "")
<1> DEFINE a == HeadBytes(r)
           b == Body(r)
           c == Bytes(r)
           names == Rows(r)
           n == Len(names)
           h == HeadEnd(r)
<1>1. /\ a \in Seq(Symbol) /\ h = Start(names, n) + 2 /\ h = Len(a)
      /\ \A j \in 1 .. n : TextAt(a, Start(names, j - 1), Size(names[j]), names[j])
      /\ TextAt(a, Start(names, n), 0, "")
  BY HeadIs DEF HeadEnd
<1>2. b \in Seq(Symbol)
  <2>1. CASE r.upload
    BY <2>1, UploadIs
  <2>2. CASE ~r.upload
    <3>1. r.data \in Seq(Data) /\ Data \subseteq Symbol
      BY RequestAssumption DEF Symbol
    <3> QED BY <2>2, <3>1, SeqMonotonic DEF Body
  <2> QED BY <2>1, <2>2
<1>3. /\ names \in Seq(Name) /\ n \in Nat /\ \A j \in 1 .. n : names[j] \in Name
      /\ \A j \in 0 .. n : Start(names, j) \in Nat
  BY RowsAre, LenProperties, StartIs, ElementOfSeq
<1>4. c = a \o b
  BY DEF Bytes
<1>5. ~r.upload => b = r.data
  BY DEF Body
<1> HIDE DEF a, b, c, names, n, h
<1>6. /\ a \o b \in Seq(Symbol) /\ Len(a \o b) = Len(a) + Len(b)
      /\ Len(a) \in Nat /\ Len(b) \in Nat
      /\ \A i \in 1 .. Len(b) : (a \o b)[Len(a) + i] = b[i]
  <2>1. a \in Seq(Symbol) /\ b \in Seq(Symbol)
    BY <1>1, <1>2
  <2> QED BY <2>1, Joined
<1>7. c \in Seq(Symbol) /\ Len(c) = h + Len(b) /\ h \in Nat /\ \A i \in 1 .. Len(b) : c[h + i] = b[i]
  BY <1>1, <1>4, <1>6
<1>8. \A j \in 1 .. n : TextAt(c, Start(names, j - 1), Size(names[j]), names[j])
  <2> SUFFICES ASSUME NEW j \in 1 .. n
               PROVE  TextAt(c, Start(names, j - 1), Size(names[j]), names[j])
    OBVIOUS
  <2>1. j - 1 \in 0 .. n
    BY <1>3
  <2>2. Start(names, j - 1) \in Nat /\ Size(names[j]) \in Nat
    BY <1>3, <2>1, SizeType
  <2> QED BY <1>1, <1>2, <1>4, <2>2, TextMoves
<1>9. TextAt(c, Start(names, n), 0, "")
  <2>1. Start(names, n) \in Nat
    BY <1>3
  <2> QED BY <1>1, <1>2, <1>4, <2>1, TextMoves
<1>10. ASSUME r.upload
       PROVE  /\ \A k \in {1, 2} :
                   TextAt(c, h + Start(PartRows, k - 1), Size(PartRows[k]), PartRows[k])
              /\ TextAt(c, h + Start(PartRows, 2), 0, "")
  <2>1. /\ \A k \in {1, 2} : TextAt(b, Start(PartRows, k - 1), Size(PartRows[k]), PartRows[k])
        /\ TextAt(b, Start(PartRows, 2), 0, "")
    BY <1>10, UploadIs DEF b
  <2>2. \A k \in {1, 2} : Start(PartRows, k - 1) \in Nat /\ Size(PartRows[k]) \in Nat
    <3>1. "boundary" \in Name /\ "filename" \in Name /\ 1 - 1 = 0 /\ 2 - 1 = 1
      BY DEF Name
    <3> QED BY <3>1, PartIs, SizeType
  <2>3. \A k \in {1, 2} :
          TextAt(c, Len(a) + Start(PartRows, k - 1), Size(PartRows[k]), PartRows[k])
    BY <1>1, <1>2, <1>4, <2>1, <2>2, TextMoves
  <2>4. TextAt(c, Len(a) + Start(PartRows, 2), 0, "")
    BY <1>1, <1>2, <1>4, <2>1, PartIs, TextMoves
  <2> QED BY <1>1, <2>3, <2>4
<1> QED BY <1>1, <1>2, <1>5, <1>6, <1>7, <1>8, <1>9, <1>10 DEF b, c, names, n, h

-----------------------------------------------------------------------------
(* The types, and what the stages of the main machine have to do with the  *)
(* empty lines.                                                            *)
Typed ==
  /\ ParserTypeOK /\ wire \in Seq(Symbol) /\ read_buffer \in Seq(Symbol)
  /\ main_machine_state = "LINE" => blank_count = 0
  /\ main_machine_state = "HEAD" => blank_count <= 1
  /\ phase = "parse" => read_next_idx \in cuts

(* The buffer as bytes counted from 0.                                     *)
LEMMA Buffer ==
  ASSUME Typed
  PROVE  /\ read_next_idx \in Nat /\ sub_next_idx \in Nat /\ main_next_idx \in Nat
         /\ main_next_idx <= sub_next_idx /\ sub_next_idx <= read_next_idx
         /\ \A i \in 0 .. read_next_idx - 1 : Byte(i) \in Symbol /\ Byte(i) = read_buffer[i + 1]
<1> DEFINE n == Len(read_buffer)
<1>1. n \in Nat /\ \A i \in 1 .. n : read_buffer[i] \in Symbol
  BY LenProperties, ElementOfSeq DEF Typed
<1>2. main_next_idx \in 0 .. sub_next_idx /\ sub_next_idx \in 0 .. n
  BY DEF Typed, ParserTypeOK, read_next_idx
<1> HIDE DEF n
<1>3. \A i \in 0 .. n - 1 : i + 1 \in 1 .. n
  BY <1>1
<1>4. \A i \in 0 .. n - 1 : read_buffer[i + 1] \in Symbol
  BY <1>1, <1>3
<1>5. sub_next_idx \in Nat /\ main_next_idx \in Nat /\ main_next_idx <= sub_next_idx /\ sub_next_idx <= n
  BY <1>1, <1>2
<1> QED BY <1>1, <1>4, <1>5 DEF n, read_next_idx, Byte

(* CutLine stays within the buffer.                                        *)
LEMMA CutLineType ==
  ASSUME Typed
  PROVE  /\ CutLine.state \in {"CONTINUE", "GOOD", "BAD"}
         /\ CutLine.next \in sub_next_idx .. read_next_idx
         /\ CutLine.end \in 0 .. read_next_idx
<1> DEFINE n == read_next_idx
           s == sub_next_idx
<1>1. n \in Nat /\ s \in Nat /\ s <= n
  BY Buffer
<1> HIDE DEF n, s
<1>2. ASSUME NEW state \in {"CONTINUE", "GOOD", "BAD"}, NEW end \in 0 .. n, NEW next \in s .. n,
             CutLine = Cut(state, end, next)
      PROVE  /\ CutLine.state \in {"CONTINUE", "GOOD", "BAD"}
             /\ CutLine.next \in s .. n /\ CutLine.end \in 0 .. n
  BY <1>2 DEF Cut
<1>3. s \in s .. n /\ n \in s .. n /\ s \in 0 .. n /\ n \in 0 .. n
  BY <1>1
<1>4. CASE n < body_length
  BY <1>2, <1>3, <1>4 DEF CutLine, n, s
<1>5. CASE ~(n < body_length) /\ blank_count = 2
  BY <1>2, <1>3, <1>5 DEF CutLine, n, s
<1>6. CASE ~(n < body_length) /\ blank_count # 2 /\ Stops = {}
  <2>1. CutLine = CutAtEnd
    BY <1>6 DEF CutLine, n
  <2>2. CutLine = Cut("GOOD", n, n) \/ CutLine = Cut("CONTINUE", n, n)
    BY <2>1 DEF CutAtEnd, n
  <2>3. CASE CutLine = Cut("GOOD", n, n)
    BY <1>2, <1>3, <2>3 DEF n, s
  <2>4. CASE CutLine = Cut("CONTINUE", n, n)
    BY <1>2, <1>3, <2>4 DEF n, s
  <2> QED BY <2>2, <2>3, <2>4
<1>7. CASE ~(n < body_length) /\ blank_count # 2 /\ Stops # {}
  <2> DEFINE i == Min(Stops)
  <2>1. i \in Stops
    <3>1. Stops \subseteq Nat
      BY <1>1 DEF Stops, n, s
    <3> QED BY <1>7, <3>1, LeastIsOne
  <2>2. CutLine = CutAt(i)
    BY <1>7 DEF CutLine, n
  <2> HIDE DEF i
  <2>3. i \in s .. n - 1 /\ i \in Int /\ s <= i /\ i < n /\ Byte(i) \in {CR, LF} /\ CR # LF
    BY <1>1, <2>1 DEF Stops, n, s, CR, LF
  <2>4. i \in s .. n /\ i \in 0 .. n /\ i + 1 \in s .. n
    BY <1>1, <2>3
  <2>5. CASE Byte(i) = CR /\ i + 1 >= n
    <3>1. CutAt(i) = Cut("CONTINUE", i, i)
      BY <1>1, <2>3, <2>5 DEF CutAt, n
    <3> QED BY <1>2, <2>2, <2>4, <3>1 DEF n, s
  <2>6. CASE Byte(i) = CR /\ ~(i + 1 >= n)
    <3>1. i + 2 \in s .. n /\ i + 1 < n
      BY <1>1, <2>3, <2>6
    <3>2. CutAt(i) = IF Byte(i + 1) = LF THEN Cut("GOOD", i, i + 2) ELSE Cut("BAD", i, i)
      BY <1>1, <2>3, <2>6, <3>1 DEF CutAt, n
    <3> QED BY <1>2, <2>2, <2>4, <3>1, <3>2 DEF n, s
  <2>7. CASE Byte(i) = LF
    <3>1. CutAt(i) = IF i > 1 /\ Byte(i - 1) = CR THEN Cut("GOOD", i - 1, i + 1) ELSE Cut("BAD", i, i)
      BY <2>3, <2>7 DEF CutAt
    <3>2. i > 1 => i - 1 \in 0 .. n
      BY <1>1, <2>3
    <3> QED BY <1>2, <2>2, <2>4, <3>1, <3>2 DEF n, s
  <2> QED BY <2>3, <2>5, <2>6, <2>7
<1> QED BY <1>4, <1>5, <1>6, <1>7 DEF n, s

(* A piece of the buffer.                                                  *)
LEMMA SliceType ==
  ASSUME Typed, NEW from \in 0 .. read_next_idx, NEW to \in 0 .. read_next_idx
  PROVE  /\ Slice(from, to) \in Seq(Symbol) /\ Len(Slice(from, to)) \in Nat
         /\ from <= to => Len(Slice(from, to)) = to - from
         /\ \A i \in 1 .. to - from : Slice(from, to)[i] = read_buffer[from + i]
<1> DEFINE n == Len(read_buffer)
           q == SubSeq(read_buffer, from + 1, to)
           m == Len(q)
<1>1. n \in Nat /\ \A i \in 1 .. n : read_buffer[i] \in Symbol
  BY LenProperties, ElementOfSeq DEF Typed
<1>2. from \in 0 .. n /\ to \in 0 .. n
  BY DEF read_next_idx
<1> HIDE DEF n
<1>3. \A i \in from + 1 .. to : read_buffer[i] \in Symbol
  BY <1>1, <1>2
<1>4. from + 1 \in Int /\ to \in Int
  BY <1>1, <1>2
<1>5. /\ q \in Seq(Symbol)
      /\ m = IF from + 1 <= to THEN to - (from + 1) + 1 ELSE 0
      /\ \A i \in 1 .. to - (from + 1) + 1 : q[i] = read_buffer[(from + 1) + i - 1]
  BY <1>3, <1>4, SubSeqProperties
<1>6. q = Slice(from, to)
  BY DEF Slice
<1> HIDE DEF q, m
<1>7. m \in Nat /\ (from <= to => m = to - from)
  BY <1>1, <1>2, <1>5
<1>8. \A i \in 1 .. to - from : q[i] = read_buffer[from + i]
  <2> SUFFICES ASSUME NEW i \in 1 .. to - from PROVE q[i] = read_buffer[from + i]
    OBVIOUS
  <2>1. i \in 1 .. to - (from + 1) + 1 /\ (from + 1) + i - 1 = from + i
    BY <1>1, <1>2
  <2> QED BY <1>5, <2>1
<1> QED BY <1>5, <1>6, <1>7, <1>8 DEF m

-----------------------------------------------------------------------------
(* What one recv moves from the wire to the buffer.                        *)
LEMMA ReceiveIs ==
  ASSUME Typed, NEW k \in 1 .. BufferSize, Receive(k)
  PROVE  LET m == Len(read_buffer) IN
         LET n == Len(wire) IN
         /\ m \in Nat /\ n \in Nat /\ k \in Nat /\ k <= n /\ m + k \in 1 .. BufferSize
         /\ read_buffer' \in Seq(Symbol) /\ Len(read_buffer') = m + k
         /\ \A i \in 1 .. m : read_buffer'[i] = read_buffer[i]
         /\ \A i \in 1 .. k : read_buffer'[m + i] = wire[i]
         /\ wire' \in Seq(Symbol) /\ Len(wire') = n - k
         /\ \A i \in 1 .. n - k : wire'[i] = wire[k + i]
<1> DEFINE m == Len(read_buffer)
           n == Len(wire)
           a == SubSeq(wire, 1, k)
           w == SubSeq(wire, k + 1, n)
           c == read_buffer \o a
<1>1. /\ m \in Nat /\ n \in Nat /\ BufferSize \in Nat
      /\ read_buffer \in Seq(Symbol) /\ \A i \in 1 .. n : wire[i] \in Symbol
  BY LenProperties, ElementOfSeq, BoundAssumption DEF Typed
<1>2. m < BufferSize /\ k <= n /\ k <= BufferSize - m /\ read_buffer' = c /\ wire' = w
  BY DEF Receive, read_next_idx
<1> HIDE DEF m, n, c
<1>3. k \in Nat /\ m + k \in 1 .. BufferSize
  BY <1>1, <1>2
<1>4. a \in Seq(Symbol) /\ Len(a) = k /\ \A i \in 1 .. k : a[i] = wire[i]
  <2>1. \A i \in 1 .. k : wire[i] \in Symbol
    BY <1>1, <1>2
  <2>2. /\ a \in Seq(Symbol) /\ Len(a) = IF 1 <= k THEN k - 1 + 1 ELSE 0
        /\ \A i \in 1 .. k - 1 + 1 : a[i] = wire[1 + i - 1]
    BY <1>3, <2>1, SubSeqProperties
  <2> HIDE DEF a
  <2>3. k - 1 + 1 = k /\ 1 <= k /\ \A i \in 1 .. k : 1 + i - 1 = i
    BY <1>3
  <2> QED BY <2>2, <2>3
<1>5. w \in Seq(Symbol) /\ Len(w) = n - k /\ \A i \in 1 .. n - k : w[i] = wire[k + i]
  <2>1. \A i \in k + 1 .. n : wire[i] \in Symbol
    BY <1>1, <1>3
  <2>2. /\ w \in Seq(Symbol) /\ Len(w) = IF k + 1 <= n THEN n - (k + 1) + 1 ELSE 0
        /\ \A i \in 1 .. n - (k + 1) + 1 : w[i] = wire[(k + 1) + i - 1]
    <3>1. k + 1 \in Int /\ n \in Int
      BY <1>1, <1>3
    <3> QED BY <2>1, <3>1, SubSeqProperties
  <2> HIDE DEF w
  <2>3. /\ n - (k + 1) + 1 = n - k /\ (~(k + 1 <= n) => n - k = 0)
        /\ \A i \in 1 .. n - k : (k + 1) + i - 1 = k + i
    BY <1>1, <1>2, <1>3
  <2> QED BY <2>2, <2>3
<1> HIDE DEF a, w
<1>6. /\ c \in Seq(Symbol) /\ Len(c) = m + k
      /\ \A i \in 1 .. m : c[i] = read_buffer[i]
      /\ \A i \in 1 .. k : c[m + i] = wire[i]
  <2>1. read_buffer \in Seq(Symbol) /\ a \in Seq(Symbol)
    BY <1>1, <1>4
  <2>2. /\ read_buffer \o a \in Seq(Symbol) /\ Len(read_buffer \o a) = Len(read_buffer) + Len(a)
        /\ \A i \in 1 .. Len(read_buffer) : (read_buffer \o a)[i] = read_buffer[i]
        /\ \A i \in 1 .. Len(a) : (read_buffer \o a)[Len(read_buffer) + i] = a[i]
    BY <2>1, Joined
  <2> QED BY <1>4, <2>2 DEF c, m
<1> QED BY <1>1, <1>2, <1>3, <1>5, <1>6 DEF m, n

(* An operand of the counters of AnalysisHead and AnalysisBody.            *)
LEMMA Counters ==
  /\ Trailer \in Nat /\ \A r \in Request : Len(Body(r)) \in Nat /\ Bytes(r) \in Seq(Symbol)
  /\ Len(<<>>) = 0 /\ <<>> \in Seq(Symbol)
<1>1. Trailer \in Nat
  BY SizeAssumption DEF Trailer
<1>2. \A r \in Request : Len(Body(r)) \in Nat /\ Bytes(r) \in Seq(Symbol)
  BY BytesAre
<1> QED BY <1>1, <1>2, EmptySeq

(* In the beginning.                                                       *)
LEMMA InitTyped == ParserInit => Typed
<1> SUFFICES ASSUME ParserInit PROVE Typed
  OBVIOUS
<1>1. Bytes(sent) \in Seq(Symbol) /\ <<>> \in Seq(Symbol) /\ Len(<<>>) = 0
  BY Counters DEF ParserInit
<1>2. read_next_idx = 0 /\ BufferSize \in Nat
  BY <1>1, BoundAssumption DEF ParserInit, read_next_idx
<1>3. ParserTypeOK
  <2>1. /\ phase \in {"read", "parse", "answer", "closed"} /\ method \in {"GET", "POST"}
        /\ main_machine_state \in {"LINE", "HEAD", "BODY", "OVER"}
        /\ {linger_, boundary, start_boundary, upload_file_name, leftover} \subseteq BOOLEAN
        /\ sent \in Request /\ cuts \subseteq 1 .. BufferSize
    BY DEF ParserInit
  <2>2. main_next_idx = 0 /\ sub_next_idx = 0 /\ body_length = 0 /\ mines_count = 0 /\ blank_count = 0
    BY DEF ParserInit
  <2>3. /\ read_next_idx <= BufferSize
        /\ main_next_idx \in 0 .. sub_next_idx /\ sub_next_idx \in 0 .. read_next_idx
        /\ body_length \in Int /\ mines_count \in Nat /\ blank_count \in 0 .. 2
    BY <1>2, <2>2
  <2> QED BY <2>1, <2>3 DEF ParserTypeOK
<1> QED BY <1>1, <1>3 DEF ParserInit, Typed

(* Each action keeps the types.                                            *)
LEMMA ReceiveTyped ==
  ASSUME Typed, NEW k \in 1 .. BufferSize, Receive(k)
  PROVE  Typed'
<1> DEFINE m == Len(read_buffer)
           n == Len(read_buffer')
<1>1. /\ m \in Nat /\ k \in Nat /\ m + k \in 1 .. BufferSize /\ n = m + k
      /\ read_buffer' \in Seq(Symbol) /\ wire' \in Seq(Symbol)
  BY ReceiveIs
<1>2. /\ cuts' = cuts \union {m + k} /\ phase' = "parse"
      /\ UNCHANGED <<place, head, outcome, sent, leftover>>
  BY DEF Receive, read_next_idx
<1>3. /\ main_next_idx \in 0 .. sub_next_idx /\ sub_next_idx \in 0 .. m
      /\ cuts \subseteq 1 .. BufferSize
  BY DEF Typed, ParserTypeOK, read_next_idx
<1> HIDE DEF m, n
<1>4. /\ n <= BufferSize /\ sub_next_idx \in 0 .. n /\ n \in cuts' /\ cuts' \subseteq 1 .. BufferSize
  BY <1>1, <1>2, <1>3, BoundAssumption
<1>5. read_next_idx' = n
  BY DEF read_next_idx, n
<1>6. ParserTypeOK'
  BY <1>2, <1>3, <1>4, <1>5 DEF Typed, ParserTypeOK, place, head
<1> QED BY <1>1, <1>2, <1>4, <1>5, <1>6 DEF Typed, place, head

(* A line that has not come whole keeps the invariant.                     *)
LEMMA NotALineTyped ==
  ASSUME Typed, NotALine
  PROVE  Typed'
<1>1. /\ CutLine.next \in sub_next_idx .. read_next_idx
      /\ read_next_idx \in Nat /\ sub_next_idx \in Nat /\ main_next_idx \in Nat
      /\ main_next_idx <= sub_next_idx
  BY CutLineType, Buffer
<1>2. /\ sub_next_idx' = CutLine.next /\ phase' \in {"answer", "read"}
      /\ UNCHANGED <<wire, read_buffer, main_next_idx, main_machine_state, head, ghost>>
  BY DEF NotALine, Decide, Wait
<1>3. sub_next_idx' \in 0 .. read_next_idx /\ main_next_idx \in 0 .. sub_next_idx'
  BY <1>1, <1>2
<1>4. read_next_idx' = read_next_idx
  BY <1>2 DEF read_next_idx
<1>5. ParserTypeOK'
  BY <1>2, <1>3, <1>4 DEF Typed, ParserTypeOK, head, ghost
<1> QED BY <1>2, <1>5 DEF Typed, head, ghost

(* AnalysisLine: only a method a request can have is kept.                 *)
LEMMA AnalysisLineTyped ==
  ASSUME Typed, AnalysisLine
  PROVE  Typed'
<1>1. /\ CutLine.next \in sub_next_idx .. read_next_idx
      /\ read_next_idx \in Nat /\ sub_next_idx \in Nat /\ main_next_idx \in Nat
      /\ main_next_idx <= sub_next_idx
  BY CutLineType, Buffer
<1>2. /\ sub_next_idx' = CutLine.next /\ main_next_idx' \in {main_next_idx, CutLine.next}
      /\ phase' \in {"answer", "parse"} /\ phase = "parse" /\ method' \in {"GET", "POST"}
      /\ main_machine_state' \in {"LINE", "HEAD"} /\ main_machine_state = "LINE"
      /\ UNCHANGED <<wire, read_buffer, linger_, body_length, boundary, blank_count,
                     start_boundary, mines_count, upload_file_name, ghost>>
  <2>1. method \in {"GET", "POST"}
    BY DEF Typed, ParserTypeOK
  <2> QED BY <2>1 DEF AnalysisLine, HasLine, Decide, Continue
<1>3. sub_next_idx' \in 0 .. read_next_idx /\ main_next_idx' \in 0 .. sub_next_idx'
  BY <1>1, <1>2
<1>4. read_next_idx' = read_next_idx
  BY <1>2 DEF read_next_idx
<1>5. ParserTypeOK'
  BY <1>2, <1>3, <1>4 DEF Typed, ParserTypeOK, ghost
<1>6. read_next_idx \in cuts /\ blank_count = 0
  BY <1>2 DEF Typed
<1> QED BY <1>2, <1>4, <1>5, <1>6 DEF Typed, ghost

(* The lines of the head are counted from the boundary on.                 *)
LEMMA CountMinesType ==
  ASSUME Typed, CountMines, NEW state, HasLine(state)
  PROVE  start_boundary' \in BOOLEAN /\ mines_count' \in Nat
<1>1. Len(CutText) \in Nat
  <2>1. CutLine.end \in 0 .. read_next_idx /\ main_next_idx \in 0 .. read_next_idx
    BY CutLineType, Buffer
  <2> QED BY <2>1, SliceType DEF CutText
<1>2. mines_count \in Nat /\ start_boundary \in BOOLEAN /\ boundary \in BOOLEAN
  BY DEF Typed, ParserTypeOK
<1>3. start_boundary' \in BOOLEAN
  BY <1>2 DEF CountMines
<1>4. mines_count' = mines_count + IF start_boundary' THEN Len(CutText) + 2 ELSE 0
  BY DEF CountMines
<1> QED BY <1>1, <1>2, <1>3, <1>4

(* AnalysisHeader: the positions move over the line that was cut.          *)
LEMMA AnalysisHeaderTyped ==
  ASSUME Typed, AnalysisHeader
  PROVE  Typed'
<1>1. /\ CutLine.next \in sub_next_idx .. read_next_idx
      /\ read_next_idx \in Nat /\ sub_next_idx \in Nat /\ main_next_idx \in Nat
      /\ main_next_idx <= sub_next_idx
  BY CutLineType, Buffer
<1>2. /\ sub_next_idx' = CutLine.next /\ main_next_idx' = CutLine.next
      /\ phase' = "parse" /\ phase = "parse" /\ main_machine_state = "HEAD"
      /\ body_length' \in {Len(Body(sent)), body_length}
      /\ UNCHANGED <<wire, read_buffer, main_machine_state, method, blank_count, ghost>>
  BY DEF AnalysisHeader, HasLine, Continue
<1>3. sub_next_idx' \in 0 .. read_next_idx /\ main_next_idx' \in 0 .. sub_next_idx'
  BY <1>1, <1>2
<1>4. read_next_idx' = read_next_idx
  BY <1>2 DEF read_next_idx
<1>5. start_boundary' \in BOOLEAN /\ mines_count' \in Nat
  BY CountMinesType DEF AnalysisHeader
<1>6. linger_' \in BOOLEAN /\ boundary' \in BOOLEAN /\ upload_file_name' \in BOOLEAN
  BY DEF AnalysisHeader, Typed, ParserTypeOK
<1>7. body_length' \in Int
  BY <1>2, Counters DEF Typed, ParserTypeOK
<1>8. ParserTypeOK'
  BY <1>2, <1>3, <1>4, <1>5, <1>6, <1>7 DEF Typed, ParserTypeOK, ghost
<1> QED BY <1>2, <1>4, <1>8 DEF Typed, ghost

(* AnalysisBlank: an empty line is counted at most twice.                  *)
LEMMA AnalysisBlankTyped ==
  ASSUME Typed, AnalysisBlank
  PROVE  Typed'
<1>1. /\ CutLine.next \in sub_next_idx .. read_next_idx
      /\ read_next_idx \in Nat /\ sub_next_idx \in Nat /\ main_next_idx \in Nat
      /\ main_next_idx <= sub_next_idx
  BY CutLineType, Buffer
<1>2. /\ sub_next_idx' = CutLine.next /\ main_next_idx' \in {main_next_idx, CutLine.next}
      /\ phase' \in {"parse", "answer"} /\ phase = "parse" /\ main_machine_state = "HEAD"
      /\ blank_count' = blank_count + 1
      /\ main_machine_state' \in {"HEAD", "BODY", "OVER"}
      /\ main_machine_state' = "HEAD" => blank_count' = 1
      /\ UNCHANGED <<wire, read_buffer, method, linger_, body_length, boundary,
                     upload_file_name, ghost>>
  BY DEF AnalysisBlank, HasLine, Continue, Decide
<1>3. sub_next_idx' \in 0 .. read_next_idx /\ main_next_idx' \in 0 .. sub_next_idx'
  BY <1>1, <1>2
<1>4. read_next_idx' = read_next_idx
  BY <1>2 DEF read_next_idx
<1>5. start_boundary' \in BOOLEAN /\ mines_count' \in Nat
  BY CountMinesType DEF AnalysisBlank
<1>6. blank_count' \in 0 .. 2
  <2>1. blank_count \in 0 .. 2 /\ blank_count <= 1
    BY <1>2 DEF Typed, ParserTypeOK
  <2> QED BY <1>2, <2>1
<1>7. ParserTypeOK'
  BY <1>2, <1>3, <1>4, <1>5, <1>6 DEF Typed, ParserTypeOK, ghost
<1> QED BY <1>2, <1>4, <1>7 DEF Typed, ghost

(* AnalysisBody: body_length may become anything, a negative number too.   *)
LEMMA AnalysisBodyTyped ==
  ASSUME Typed, AnalysisBody
  PROVE  Typed'
<1>1. /\ CutLine.next \in sub_next_idx .. read_next_idx
      /\ read_next_idx \in Nat /\ sub_next_idx \in Nat /\ main_next_idx \in Nat
      /\ main_next_idx <= sub_next_idx
  BY CutLineType, Buffer
<1> DEFINE mines == mines_count + IF start_boundary THEN Trailer ELSE 0
<1>2. /\ sub_next_idx' = CutLine.next
      /\ phase' \in {"read", "answer"} /\ main_machine_state = "BODY"
      /\ main_machine_state' \in {"BODY", "OVER"} /\ mines_count' = mines /\ start_boundary' = FALSE
      /\ body_length' \in {body_length - mines, body_length}
      /\ UNCHANGED <<wire, read_buffer, main_next_idx, method, linger_, boundary, blank_count,
                     upload_file_name, ghost>>
  BY DEF AnalysisBody, HasLine, Wait, Decide
<1>3. sub_next_idx' \in 0 .. read_next_idx /\ main_next_idx' \in 0 .. sub_next_idx'
  BY <1>1, <1>2
<1>4. read_next_idx' = read_next_idx
  BY <1>2 DEF read_next_idx
<1>5. mines \in Nat
  BY Counters DEF Typed, ParserTypeOK
<1>6. body_length' \in Int
  <2>1. body_length \in Int
    BY DEF Typed, ParserTypeOK
  <2> HIDE DEF mines
  <2> QED BY <1>2, <1>5, <2>1
<1> HIDE DEF mines
<1>7. ParserTypeOK'
  BY <1>2, <1>3, <1>4, <1>5, <1>6 DEF Typed, ParserTypeOK, ghost
<1> QED BY <1>2, <1>4, <1>7 DEF Typed, ghost

(* The answer has been sent: the slot starts over, or is closed.           *)
LEMMA AnswerTyped ==
  ASSUME Typed, Answer
  PROVE  Typed'
<1>1. CASE /\ phase' = "read" /\ cuts' = {} /\ Reinit
           /\ leftover' = (leftover \/ wire # <<>>)
           /\ sent' \in Request /\ wire' = wire \o Bytes(sent')
  <2>1. <<>> \in Seq(Symbol) /\ Len(<<>>) = 0 /\ Bytes(sent') \in Seq(Symbol)
    BY <1>1, Counters
  <2>2. wire' \in Seq(Symbol)
    BY <1>1, <2>1, ConcatProperties DEF Typed
  <2>3. read_next_idx' = 0 /\ BufferSize \in Nat
    BY <1>1, <2>1, BoundAssumption DEF Reinit, read_next_idx
  <2>4. ParserTypeOK'
    <3>1. /\ phase' \in {"read", "parse", "answer", "closed"} /\ method' \in {"GET", "POST"}
          /\ main_machine_state' \in {"LINE", "HEAD", "BODY", "OVER"}
          /\ {linger_, boundary, start_boundary, upload_file_name, leftover}' \subseteq BOOLEAN
          /\ sent' \in Request /\ cuts' \subseteq 1 .. BufferSize
      BY <1>1 DEF Reinit, Typed, ParserTypeOK
    <3>2. /\ main_next_idx' = 0 /\ sub_next_idx' = 0 /\ body_length' = 0
          /\ mines_count' = 0 /\ blank_count' = 0
      BY <1>1 DEF Reinit
    <3>3. /\ read_next_idx' <= BufferSize
          /\ main_next_idx' \in 0 .. sub_next_idx' /\ sub_next_idx' \in 0 .. read_next_idx'
          /\ body_length' \in Int /\ mines_count' \in Nat /\ blank_count' \in 0 .. 2
      BY <2>3, <3>2
    <3> QED BY <3>1, <3>3 DEF ParserTypeOK
  <2> QED BY <1>1, <2>1, <2>2, <2>4 DEF Reinit, Typed
<1>2. CASE phase' = "closed" /\ UNCHANGED <<wire, read_buffer, place, head, outcome, ghost>>
  BY <1>2 DEF Typed, ParserTypeOK, place, head, ghost, read_next_idx
<1> QED BY <1>1, <1>2 DEF Answer

(* Every step of the parser keeps types and order of its positions.        *)
LEMMA TypedStep ==
  ASSUME Typed, [ParserNext]_parserVars
  PROVE  Typed'
<1>1. CASE \E k \in 1 .. BufferSize : Receive(k)
  BY <1>1, ReceiveTyped
<1>2. CASE ReceiveNothing
  BY <1>2 DEF ReceiveNothing, Typed, ParserTypeOK, place, head, ghost, read_next_idx
<1>3. CASE NotALine
  BY <1>3, NotALineTyped
<1>4. CASE AnalysisLine
  BY <1>4, AnalysisLineTyped
<1>5. CASE AnalysisHeader
  BY <1>5, AnalysisHeaderTyped
<1>6. CASE AnalysisBlank
  BY <1>6, AnalysisBlankTyped
<1>7. CASE AnalysisBody
  BY <1>7, AnalysisBodyTyped
<1>8. CASE Answer
  BY <1>8, AnswerTyped
<1>9. CASE UNCHANGED parserVars
  BY <1>9 DEF parserVars, Typed, ParserTypeOK, place, head, ghost, read_next_idx
<1> QED BY <1>1, <1>2, <1>3, <1>4, <1>5, <1>6, <1>7, <1>8, <1>9 DEF ParserNext

(* The positions of both machines stay in order and within the buffer,     *)
(* however a request is cut and whatever the connection received before.   *)
THEOREM PositionsAgree == ParserSpec => []Typed
<1> QED BY InitTyped, TypedStep, PTL DEF ParserSpec

-----------------------------------------------------------------------------
(* Where the parser is in the request that is being sent.                  *)

(* The properties speak of the requests the client of an idle connection   *)
(* sends, and of these cuts.                                               *)
Clean ==
  /\ ~leftover
  /\ sent.method = "POST" => Encoded(sent) /\ \A c \in cuts : Harmless(sent, c)

(* The buffer has what was sent, and the wire what comes then.             *)
Streamed ==
  LET b == Bytes(sent) IN
  /\ read_next_idx + Len(wire) = Len(b)
  /\ \A i \in 1 .. read_next_idx : read_buffer[i] = b[i]
  /\ \A i \in 1 .. Len(wire) : wire[i] = b[read_next_idx + i]

(* The first i headers, and what they have told.                           *)
Seen(r, i) == Range(SubSeq(r.headers, 1, i))

Told(i) ==
  /\ method = sent.method /\ (linger_ <=> "keep-alive" \in Seen(sent, i))
  /\ boundary <=> "multipart" \in Seen(sent, i)
  /\ body_length = IF "length" \in Seen(sent, i) THEN Len(Body(sent)) ELSE 0

NoPart == ~start_boundary /\ mines_count = 0 /\ ~upload_file_name

(* The line at main_next_idx, which sub_next_idx has not passed.           *)
HeaderSize(r, i) == IF i = Len(r.headers) THEN 0 ELSE Size(r.headers[i + 1])
PartSize(k)      == IF k = 2 THEN 0 ELSE Size(PartRows[k + 1])

AtLine ==
  /\ main_machine_state = "LINE" /\ main_next_idx = 0 /\ sub_next_idx <= Size(sent.method)
  /\ ~linger_ /\ ~boundary /\ body_length = 0 /\ blank_count = 0 /\ NoPart

AtHeader(i) ==
  /\ main_machine_state = "HEAD" /\ main_next_idx = Start(Rows(sent), i + 1)
  /\ sub_next_idx <= main_next_idx + HeaderSize(sent, i)
  /\ Told(i) /\ blank_count = 0 /\ NoPart

(* All headers have been read, of a request with a body.                   *)
HeadRead ==
  /\ method = "POST" /\ sent.method = "POST" /\ (linger_ <=> "keep-alive" \in Range(sent.headers))
  /\ (boundary <=> sent.upload) /\ body_length = Len(Body(sent))

AtPart(k) ==
  /\ main_machine_state = "HEAD" /\ main_next_idx = HeadEnd(sent) + Start(PartRows, k)
  /\ sub_next_idx <= main_next_idx + PartSize(k)
  /\ HeadRead /\ sent.upload /\ blank_count = 1
  /\ mines_count = Start(PartRows, k) /\ (start_boundary <=> k # 0) /\ (upload_file_name <=> k = 2)

AtData ==
  /\ main_machine_state = "BODY" /\ main_next_idx = DataAt(sent)
  /\ HeadRead /\ sent.upload /\ blank_count = 2
  /\ start_boundary /\ mines_count = Start(PartRows, 2) + 2 /\ upload_file_name

AtForm ==
  /\ main_machine_state = "BODY" /\ main_next_idx = HeadEnd(sent)
  /\ HeadRead /\ ~sent.upload /\ blank_count = 1 /\ NoPart

Somewhere ==
  \/ AtLine \/ (\E i \in 0 .. Len(sent.headers) : AtHeader(i))
  \/ (\E k \in 0 .. 2 : AtPart(k)) \/ AtData \/ AtForm

Answered ==
  /\ outcome = Expected(sent) /\ (wire = <<>> \/ outcome = Bad)
  /\ sent.method = "POST" => wire = <<>>

Synced ==
  Clean => /\ Streamed
           /\ phase = "read" => wire # <<>>
           /\ phase \in {"read", "parse"} => Somewhere
           /\ phase = "answer" => Answered

-----------------------------------------------------------------------------
(* Texts are equal when they have the same name, and none is empty.        *)
LEMMA TextsDiffer ==
  ASSUME NEW a \in Name, NEW b \in Name
  PROVE  (TextOf(a) = TextOf(b) <=> a = b) /\ TextOf(a) # <<>>
<1> DEFINE y == Size(a)
           z == Size(b)
<1>1. y \in Nat \ {0} /\ z \in Nat \ {0}
  BY SizeType
<1> HIDE DEF y, z
<1>2. TextOf(a) = [i \in 1 .. y |-> a] /\ TextOf(b) = [i \in 1 .. z |-> b]
  BY DEF TextOf, y, z
<1>3. 1 \in 1 .. y /\ 1 \in 1 .. z
  BY <1>1
<1>4. TextOf(a) = TextOf(b) => a = b
  <2>1. TextOf(a)[1] = a /\ TextOf(b)[1] = b
    BY <1>2, <1>3
  <2> QED BY <2>1
<1>5. TextOf(a) # <<>>
  <2>1. TextOf(a) \in Seq(Name) /\ Len(TextOf(a)) = y
    BY <1>1, <1>2, FunctionIsSeq
  <2> QED BY <1>1, <2>1, EmptySeq
<1> QED BY <1>4, <1>5

(* Where a line of the request begins at main_next_idx, CutLine finds      *)
(* either its end or that it has not come whole, unless what was read ends *)
(* in it and is as long as the body is announced to be.                    *)
LEMMA CutOfLine ==
  ASSUME Typed, NEW b \in Seq(Symbol), NEW z \in Nat, NEW name,
         TextAt(b, main_next_idx, z, name), z = 0 \/ name \notin {CR, LF},
         read_next_idx <= Len(b), \A i \in 1 .. read_next_idx : read_buffer[i] = b[i],
         sub_next_idx <= main_next_idx + z, blank_count # 2,
         method = "POST" /\ read_next_idx - main_next_idx = body_length
           => read_next_idx > main_next_idx + z
  PROVE  \/ /\ CutLine = Cut("GOOD", main_next_idx + z, main_next_idx + z + 2)
            /\ main_next_idx + z + 2 <= read_next_idx
         \/ /\ CutLine.state = "CONTINUE" /\ CutLine.next <= main_next_idx + z
            /\ read_next_idx < body_length \/ read_next_idx < main_next_idx + z + 2
<1> DEFINE n == read_next_idx
           m == main_next_idx
           s == sub_next_idx
           e == m + z
<1>1. /\ n \in Nat /\ m \in Nat /\ s \in Nat /\ m <= s /\ s <= n /\ body_length \in Int
      /\ \A i \in 0 .. n - 1 : Byte(i) = read_buffer[i + 1]
  BY Buffer DEF Typed, ParserTypeOK
<1> HIDE DEF n, m, s
<1>2. /\ \A i \in 1 .. z : b[m + i] = name
      /\ b[m + z + 1] = CR /\ b[m + z + 2] = LF
      /\ \A i \in 1 .. n : read_buffer[i] = b[i]
      /\ s <= e /\ (method = "POST" /\ n - m = body_length => n > e)
      /\ CR # LF
  BY DEF TextAt, n, m, s, CR, LF
<1>3. \A i \in 0 .. n - 1 : Byte(i) = b[i + 1]
  <2> SUFFICES ASSUME NEW i \in 0 .. n - 1 PROVE Byte(i) = b[i + 1]
    OBVIOUS
  <2>1. i + 1 \in 1 .. n
    BY <1>1
  <2> QED BY <1>1, <1>2, <2>1
<1>4. \A i \in s .. n - 1 : i < e => Byte(i) \notin {CR, LF}
  <2> SUFFICES ASSUME NEW i \in s .. n - 1, i < e PROVE Byte(i) \notin {CR, LF}
    OBVIOUS
  <2>1. i \in 0 .. n - 1 /\ (i + 1) - m \in 1 .. z /\ m + ((i + 1) - m) = i + 1 /\ z # 0
    BY <1>1
  <2>2. b[m + ((i + 1) - m)] = name
    BY <1>2, <2>1
  <2> QED BY <1>3, <2>1, <2>2
<1>5. e < n => Byte(e) = CR
  <2> SUFFICES ASSUME e < n PROVE Byte(e) = CR
    OBVIOUS
  <2>1. e \in 0 .. n - 1 /\ e + 1 = m + z + 1
    BY <1>1
  <2> QED BY <1>2, <1>3, <2>1
<1>6. e + 1 < n => Byte(e + 1) = LF
  <2> SUFFICES ASSUME e + 1 < n PROVE Byte(e + 1) = LF
    OBVIOUS
  <2>1. e + 1 \in 0 .. n - 1 /\ (e + 1) + 1 = m + z + 2
    BY <1>1
  <2> QED BY <1>2, <1>3, <2>1
<1>7. e \in Nat /\ s <= e /\ e = m + z /\ m + z + 2 = e + 2
  BY <1>1, <1>2
<1> HIDE DEF e
<1>8. CASE n < body_length
  <2>1. CutLine = Cut("CONTINUE", s, s)
    BY <1>8 DEF CutLine, n, s
  <2>2. CutLine.state = "CONTINUE" /\ CutLine.next = s
    BY <2>1 DEF Cut
  <2> QED BY <1>7, <1>8, <2>2 DEF e, n, m, s
<1>9. CASE ~(n < body_length) /\ n <= e
  <2>1. Stops = {}
    BY <1>1, <1>4, <1>7, <1>9 DEF Stops, n, s
  <2>2. CutLine = CutAtEnd
    BY <1>9, <2>1 DEF CutLine, n
  <2>3. ~(method = "POST" /\ n - m = body_length)
    BY <1>1, <1>2, <1>7, <1>9
  <2>4. CutLine = Cut("CONTINUE", n, n)
    BY <2>2, <2>3 DEF CutAtEnd, n, m
  <2>5. CutLine.state = "CONTINUE" /\ CutLine.next = n
    BY <2>4 DEF Cut
  <2>6. n <= e /\ n < e + 2
    BY <1>1, <1>7, <1>9
  <2> QED BY <1>7, <2>5, <2>6 DEF e, n, m
<1>10. CASE ~(n < body_length) /\ e < n
  <2>1. e \in Stops /\ \A i \in Stops : e <= i
    <3>1. Stops \subseteq s .. n - 1 /\ \A i \in Stops : Byte(i) \in {CR, LF}
      BY DEF Stops, n, s
    <3>2. \A i \in Stops : e <= i
      BY <1>1, <1>4, <1>7, <3>1
    <3>3. e \in s .. n - 1
      BY <1>1, <1>7, <1>10
    <3>4. e \in Stops
      BY <1>5, <1>10, <3>3 DEF Stops, n, s
    <3> QED BY <3>2, <3>4
  <2>2. Min(Stops) = e
    <3>1. Stops \in SUBSET Nat
      BY <1>1 DEF Stops, n, s
    <3>2. Min(Stops) \in Stops /\ Min(Stops) <= e
      BY <2>1, <3>1, LeastIsOne
    <3>3. Min(Stops) \in Nat /\ e <= Min(Stops)
      BY <2>1, <3>1, <3>2
    <3> QED BY <1>7, <3>2, <3>3
  <2>3. CutLine = CutAt(e)
    BY <1>10, <2>1, <2>2 DEF CutLine, n
  <2>4. CASE e + 1 >= n
    <3>1. CutLine = Cut("CONTINUE", e, e)
      BY <1>1, <1>2, <1>5, <1>7, <1>10, <2>3, <2>4 DEF CutAt, n
    <3>2. CutLine.state = "CONTINUE" /\ CutLine.next = e
      BY <3>1 DEF Cut
    <3>3. n < e + 2 /\ e <= e
      BY <1>1, <1>7, <2>4
    <3> QED BY <1>7, <3>2, <3>3 DEF e, n, m
  <2>5. CASE e + 1 < n
    <3>1. ~(e + 1 >= n) /\ e + 2 <= n
      BY <1>1, <1>7, <2>5
    <3>2. CutLine = Cut("GOOD", e, e + 2)
      BY <1>2, <1>5, <1>6, <1>10, <2>3, <2>5, <3>1 DEF CutAt, n
    <3> QED BY <1>7, <3>1, <3>2 DEF e, n, m
  <2>6. e + 1 >= n \/ e + 1 < n
    BY <1>1, <1>7
  <2> QED BY <2>4, <2>5, <2>6
<1>11. n < body_length \/ (~(n < body_length) /\ (n <= e \/ e < n))
  BY <1>1, <1>7
<1> QED BY <1>8, <1>9, <1>10, <1>11

(* The text of that line.                                                  *)
LEMMA TextOfLine ==
  ASSUME Typed, NEW b \in Seq(Symbol), NEW z \in Nat, NEW name, NEW next,
         TextAt(b, main_next_idx, z, name),
         \A i \in 1 .. read_next_idx : read_buffer[i] = b[i],
         CutLine = Cut("GOOD", main_next_idx + z, next), main_next_idx + z <= read_next_idx
  PROVE  /\ Len(CutText) = z /\ (z = 0 => CutText = <<>>)
         /\ name \in Name /\ z = Size(name) => CutText = TextOf(name)
<1> DEFINE n == read_next_idx
           m == main_next_idx
<1>1. n \in Nat /\ m \in Nat
  BY Buffer
<1>2. /\ \A i \in 1 .. z : b[m + i] = name
      /\ \A i \in 1 .. n : read_buffer[i] = b[i]
      /\ CutLine.end = m + z /\ m + z <= n
  BY DEF TextAt, Cut
<1>3. CutText = Slice(m, m + z)
  BY <1>2 DEF CutText
<1>4. m \in 0 .. read_next_idx /\ m + z \in 0 .. read_next_idx
  BY <1>1, <1>2
<1>5. /\ CutText \in Seq(Symbol) /\ (m <= m + z => Len(CutText) = (m + z) - m)
      /\ \A i \in 1 .. (m + z) - m : CutText[i] = read_buffer[m + i]
  BY <1>3, <1>4, SliceType
<1> HIDE DEF n, m
<1>6. m <= m + z /\ (m + z) - m = z
  BY <1>1
<1>7. Len(CutText) = z
  BY <1>5, <1>6
<1>8. \A i \in 1 .. z : CutText[i] = name
  <2> SUFFICES ASSUME NEW i \in 1 .. z PROVE CutText[i] = name
    OBVIOUS
  <2>1. m + i \in 1 .. n
    BY <1>1, <1>2
  <2> QED BY <1>2, <1>5, <1>6, <2>1
<1>9. ASSUME name \in Name, z = Size(name) PROVE CutText = TextOf(name)
  <2>1. TextOf(name) = [i \in 1 .. z |-> name] /\ name \in Symbol
    BY <1>9 DEF TextOf, Symbol
  <2>2. TextOf(name) \in Seq(Symbol) /\ Len(TextOf(name)) = z
    BY <2>1, FunctionIsSeq
  <2>3. \A i \in 1 .. z : CutText[i] = TextOf(name)[i]
    BY <1>8, <2>1
  <2> QED BY <1>5, <1>7, <2>2, <2>3, SeqEqual
<1>10. z = 0 => CutText = <<>>
  BY <1>5, <1>7, EmptySeq
<1> QED BY <1>7, <1>9, <1>10

-----------------------------------------------------------------------------
(* The first headers, one by one.                                          *)
LEMMA SeenAre ==
  ASSUME NEW r \in Request
  PROVE  /\ Seen(r, 0) = {} /\ Seen(r, Len(r.headers)) = Range(r.headers)
         /\ \A i \in 0 .. Len(r.headers) - 1 : Seen(r, i + 1) = Seen(r, i) \union {r.headers[i + 1]}
<1> DEFINE h == r.headers
           n == Len(h)
<1>1. n \in Nat /\ DOMAIN h = 1 .. n /\ \A j \in 1 .. n : h[j] \in Header
  BY RequestAssumption, LenProperties, ElementOfSeq
<1> HIDE DEF h, n
<1>2. \A i \in 0 .. n : Seen(r, i) = {h[j] : j \in 1 .. i}
  <2> SUFFICES ASSUME NEW i \in 0 .. n PROVE Seen(r, i) = {h[j] : j \in 1 .. i}
    OBVIOUS
  <2> DEFINE q == SubSeq(h, 1, i)
  <2>1. \A j \in 1 .. i : h[j] \in Header
    BY <1>1
  <2>2. /\ q \in Seq(Header) /\ Len(q) = IF 1 <= i THEN i - 1 + 1 ELSE 0
        /\ \A j \in 1 .. i - 1 + 1 : q[j] = h[1 + j - 1]
    BY <1>1, <2>1, SubSeqProperties
  <2>3. Seen(r, i) = Range(q)
    BY DEF Seen, h
  <2>4. DOMAIN q = 1 .. Len(q)
    BY <2>2, LenProperties
  <2> HIDE DEF q
  <2>5. i - 1 + 1 = i /\ Len(q) = i /\ \A j \in 1 .. i : 1 + j - 1 = j
    BY <1>1, <2>2
  <2>6. DOMAIN q = 1 .. i /\ \A j \in 1 .. i : q[j] = h[j]
    BY <2>2, <2>4, <2>5
  <2> QED BY <2>3, <2>6 DEF Range
<1>3. Seen(r, 0) = {}
  BY <1>1, <1>2
<1>4. Seen(r, n) = Range(h)
  BY <1>1, <1>2 DEF Range
<1>5. \A i \in 0 .. n - 1 : Seen(r, i + 1) = Seen(r, i) \union {h[i + 1]}
  <2> SUFFICES ASSUME NEW i \in 0 .. n - 1 PROVE Seen(r, i + 1) = Seen(r, i) \union {h[i + 1]}
    OBVIOUS
  <2>1. i \in 0 .. n /\ i + 1 \in 0 .. n /\ 1 .. i + 1 = 1 .. i \union {i + 1}
    BY <1>1
  <2> QED BY <1>2, <2>1
<1> QED BY <1>3, <1>4, <1>5 DEF h, n

(* The headers announce the body.                                          *)
LEMMA Announced ==
  ASSUME NEW r \in Request
  PROVE  /\ ("multipart" \in Range(r.headers)) = r.upload /\ r.upload \in BOOLEAN
         /\ r.method # "POST" => ~r.upload /\ r.data = <<>> /\ Len(Body(r)) = 0
         /\ "length" \notin Range(r.headers) => Len(Body(r)) = 0
<1>1. /\ r.upload = ("multipart" \in Range(r.headers)) /\ (r.upload => r.method = "POST")
      /\ r.data # <<>> \/ r.upload => r.method = "POST" /\ "length" \in Range(r.headers)
  BY RequestAssumption
<1>2. r.data = <<>> /\ ~r.upload => Len(Body(r)) = 0
  BY EmptySeq DEF Body
<1> QED BY <1>1, <1>2

(* What has been sent and read.                                            *)
LEMMA StreamIs ==
  ASSUME Typed, Streamed
  PROVE  /\ sent \in Request /\ Bytes(sent) \in Seq(Symbol) /\ Len(Bytes(sent)) \in Nat
         /\ read_next_idx \in Nat /\ read_next_idx <= Len(Bytes(sent))
         /\ \A i \in 1 .. read_next_idx : read_buffer[i] = Bytes(sent)[i]
         /\ read_next_idx < Len(Bytes(sent)) => wire # <<>>
         /\ read_next_idx = Len(Bytes(sent)) => wire = <<>>
<1> DEFINE n == read_next_idx
           w == Len(wire)
           l == Len(Bytes(sent))
<1>1. sent \in Request
  BY DEF Typed, ParserTypeOK
<1>2. n \in Nat /\ w \in Nat /\ l \in Nat /\ Bytes(sent) \in Seq(Symbol)
  BY <1>1, Buffer, BytesAre, LenProperties DEF Typed
<1>3. n + w = l /\ \A i \in 1 .. n : read_buffer[i] = Bytes(sent)[i]
  BY DEF Streamed
<1>4. (wire = <<>>) <=> (w = 0)
  BY EmptySeq DEF Typed
<1> HIDE DEF n, w, l
<1>5. n <= l /\ (n < l => w # 0) /\ (n = l => w = 0)
  BY <1>2, <1>3
<1> QED BY <1>1, <1>2, <1>3, <1>4, <1>5 DEF n, l

(* CutLine has found the line of z bytes of name that begins here, or has  *)
(* to wait for the rest of it.                                             *)
Found(z, name) ==
  \/ /\ CutLine = Cut("GOOD", main_next_idx + z, main_next_idx + z + 2)
     /\ main_next_idx + z + 2 <= read_next_idx
     /\ CutText = IF z = 0 THEN <<>> ELSE TextOf(name)
     /\ Len(CutText) = z
  \/ CutLine.state = "CONTINUE" /\ CutLine.next <= main_next_idx + z /\ wire # <<>>

(* A line that stands at the position of the parser, with what was read    *)
(* ending in it or after it, is found or waited for.                       *)
LEMMA LineFound ==
  ASSUME Typed, Streamed, NEW z \in Nat, NEW name,
         TextAt(Bytes(sent), main_next_idx, z, name),
         z = 0 \/ (name \in Name /\ z = Size(name)),
         sub_next_idx <= main_next_idx + z, blank_count # 2, body_length <= Len(Bytes(sent)),
         method = "POST" /\ read_next_idx - main_next_idx = body_length
           => read_next_idx > main_next_idx + z
  PROVE  Found(z, name)
<1> DEFINE b == Bytes(sent)
           n == read_next_idx
           m == main_next_idx
<1>1. /\ b \in Seq(Symbol) /\ Len(b) \in Nat /\ n \in Nat /\ n <= Len(b)
      /\ \A i \in 1 .. n : read_buffer[i] = b[i]
      /\ n < Len(b) => wire # <<>>
  BY StreamIs
<1>2. m \in Nat /\ body_length \in Int /\ body_length <= Len(b)
  BY Buffer DEF Typed, ParserTypeOK
<1>3. z = 0 \/ name \notin {CR, LF}
  BY SizeType
<1>4. \/ CutLine = Cut("GOOD", m + z, m + z + 2) /\ m + z + 2 <= n
      \/ /\ CutLine.state = "CONTINUE" /\ CutLine.next <= m + z
         /\ n < body_length \/ n < m + z + 2
  BY <1>1, <1>3, CutOfLine
<1>5. m + z + 2 <= Len(b)
  BY DEF TextAt
<1>6. CASE CutLine = Cut("GOOD", m + z, m + z + 2) /\ m + z + 2 <= n
  <2>1. m + z <= n
    <3> HIDE DEF n, m
    <3> QED BY <1>1, <1>2, <1>6
  <2>2. /\ Len(CutText) = z /\ (z = 0 => CutText = <<>>)
        /\ name \in Name /\ z = Size(name) => CutText = TextOf(name)
    BY <1>1, <1>6, <2>1, TextOfLine
  <2> QED BY <1>6, <2>2 DEF Found
<1>7. CASE /\ CutLine.state = "CONTINUE" /\ CutLine.next <= m + z
           /\ n < body_length \/ n < m + z + 2
  <2> DEFINE l == Len(b)
  <2>1. l \in Nat /\ n \in Nat /\ m \in Nat /\ body_length <= l /\ m + z + 2 <= l
    BY <1>1, <1>2, <1>5
  <2> HIDE DEF l, n, m
  <2>2. n < l
    BY <1>2, <1>7, <2>1
  <2> QED BY <1>1, <1>7, <2>2 DEF Found, l, n, m
<1> QED BY <1>4, <1>6, <1>7

-----------------------------------------------------------------------------
(* What CutLine finds in each place.                                       *)
LEMMA HarmlessNow ==
  ASSUME Typed, Clean, phase = "parse", sent.method = "POST"
  PROVE  Encoded(sent) /\ Harmless(sent, read_next_idx)
BY DEF Typed, Clean

(* The request line stands at the beginning and is found.                  *)
LEMMA AtLineFound ==
  ASSUME Typed, Streamed, AtLine, phase = "parse"
  PROVE  Found(Size(sent.method), sent.method) /\ sent.method \in Name
<1> DEFINE z == Size(sent.method)
<1>1. /\ sent \in Request /\ Len(Bytes(sent)) \in Nat
  BY StreamIs
<1>2. Rows(sent)[1] = sent.method /\ 1 \in 1 .. Len(Rows(sent)) /\ Start(Rows(sent), 0) = 0
  BY <1>1, RowsAre, StartIs
<1>3. TextAt(Bytes(sent), Start(Rows(sent), 1 - 1), Size(Rows(sent)[1]), Rows(sent)[1])
  BY <1>1, <1>2, BytesAre
<1>4. TextAt(Bytes(sent), main_next_idx, z, sent.method)
  <2>1. 1 - 1 = 0 /\ main_next_idx = 0
    BY DEF AtLine
  <2> QED BY <1>2, <1>3, <2>1
<1>5. sent.method \in Name
  BY <1>1, RequestAssumption DEF Name
<1>6. z \in Nat
  BY <1>5, SizeType
<1>7. read_next_idx \in 1 .. BufferSize /\ BufferSize \in Nat
  BY BoundAssumption DEF Typed, ParserTypeOK
<1> HIDE DEF z
<1>8. sub_next_idx <= main_next_idx + z /\ blank_count # 2 /\ body_length <= Len(Bytes(sent))
  <2>1. sub_next_idx <= z /\ main_next_idx = 0 /\ blank_count = 0 /\ body_length = 0
    BY DEF AtLine, z
  <2>2. 0 + z = z /\ 0 <= Len(Bytes(sent))
    BY <1>1, <1>6
  <2> QED BY <2>1, <2>2
<1>9. ~(read_next_idx - main_next_idx = body_length)
  BY <1>7 DEF AtLine
<1>10. Found(z, sent.method)
  BY <1>4, <1>5, <1>6, <1>8, <1>9, LineFound DEF z
<1> QED BY <1>5, <1>10 DEF z

(* The text of the header after the first i, or of the empty line.         *)
HeaderName(r, i) == IF i = Len(r.headers) THEN "" ELSE r.headers[i + 1]

(* Where each header stands, and that the empty line ends the head.        *)
LEMMA HeaderIs ==
  ASSUME NEW r \in Request, NEW i \in 0 .. Len(r.headers)
  PROVE  /\ TextAt(Bytes(r), Start(Rows(r), i + 1), HeaderSize(r, i), HeaderName(r, i))
         /\ HeaderSize(r, i) \in Nat /\ Start(Rows(r), i + 1) \in Nat
         /\ i = Len(r.headers) => HeaderSize(r, i) = 0 /\ Start(Rows(r), i + 1) + 2 = HeadEnd(r)
         /\ i # Len(r.headers) =>
              /\ HeaderName(r, i) \in Header /\ HeaderName(r, i) = r.headers[i + 1]
              /\ HeaderSize(r, i) = Size(HeaderName(r, i)) /\ HeaderSize(r, i) # 0
              /\ Start(Rows(r), (i + 1) + 1) = Start(Rows(r), i + 1) + HeaderSize(r, i) + 2
<1> DEFINE n == Len(r.headers)
           w == Rows(r)
<1>1. /\ n \in Nat /\ Len(w) = n + 1 /\ w \in Seq(Name)
      /\ \A j \in 1 .. n : r.headers[j] \in Header /\ w[j + 1] = r.headers[j]
  BY RowsAre
<1>2. /\ \A j \in 1 .. Len(w) : TextAt(Bytes(r), Start(w, j - 1), Size(w[j]), w[j])
      /\ TextAt(Bytes(r), Start(w, Len(w)), 0, "")
      /\ HeadEnd(r) = Start(w, Len(w)) + 2
  BY BytesAre
<1>3. /\ \A j \in 0 .. Len(w) : Start(w, j) \in Nat
      /\ \A j \in 1 .. Len(w) : Start(w, j) = Start(w, j - 1) + Size(w[j]) + 2
  BY <1>1, StartIs
<1> HIDE DEF n, w
<1>4. i \in 0 .. n /\ i + 1 \in 0 .. Len(w)
  BY <1>1 DEF n
<1>5. CASE i = n
  BY <1>1, <1>2, <1>3, <1>4, <1>5 DEF HeaderSize, HeaderName, n, w
<1>6. CASE i # n
  <2>1. i + 1 \in 1 .. n /\ (i + 1) + 1 \in 1 .. Len(w) /\ ((i + 1) + 1) - 1 = i + 1
    BY <1>1, <1>4, <1>6
  <2>2. r.headers[i + 1] \in Header /\ w[(i + 1) + 1] = r.headers[i + 1]
    BY <1>1, <2>1
  <2>3. TextAt(Bytes(r), Start(w, i + 1), Size(r.headers[i + 1]), r.headers[i + 1])
    BY <1>2, <2>1, <2>2
  <2>4. Start(w, (i + 1) + 1) = Start(w, i + 1) + Size(r.headers[i + 1]) + 2
    BY <1>3, <2>1, <2>2
  <2>5. Size(r.headers[i + 1]) \in Nat \ {0}
    BY <2>2, SizeType DEF Name
  <2>6. HeaderSize(r, i) = Size(r.headers[i + 1]) /\ HeaderName(r, i) = r.headers[i + 1]
    BY <1>6 DEF HeaderSize, HeaderName, n
  <2>7. Start(w, i + 1) \in Nat
    BY <1>3, <1>4
  <2> QED BY <1>6, <2>2, <2>3, <2>4, <2>5, <2>6, <2>7 DEF n, w
<1> QED BY <1>5, <1>6

(* Each header, and the empty line after them, is found: what was read     *)
(* cannot end in it and be as long as announced.                           *)
LEMMA AtHeaderFound ==
  ASSUME Typed, Clean, Streamed, phase = "parse", NEW i \in 0 .. Len(sent.headers), AtHeader(i)
  PROVE  Found(HeaderSize(sent, i), HeaderName(sent, i))
<1> DEFINE z == HeaderSize(sent, i)
           name == HeaderName(sent, i)
           n == read_next_idx
           m == main_next_idx
           l == Len(Bytes(sent))
           t == body_length
<1>1. sent \in Request /\ l \in Nat /\ n \in Nat /\ n <= l /\ m \in Nat /\ m <= n /\ t \in Int
  <2>1. m <= n
    BY Buffer
  <2> QED BY <2>1, StreamIs, Buffer DEF Typed, ParserTypeOK
<1>2. TextAt(Bytes(sent), m, z, name) /\ z \in Nat /\ m = Start(Rows(sent), i + 1)
  BY <1>1, HeaderIs DEF AtHeader
<1>3. z = 0 \/ (name \in Name /\ z = Size(name))
  BY <1>1, HeaderIs DEF Name
<1>4. sub_next_idx <= m + z /\ blank_count # 2
  BY DEF AtHeader
<1>5. t <= l
  <2>1. Len(Body(sent)) \in Nat /\ HeadEnd(sent) \in Nat /\ l = HeadEnd(sent) + Len(Body(sent))
    BY <1>1, BytesAre
  <2>2. t \in {Len(Body(sent)), 0}
    BY DEF AtHeader, Told
  <2> DEFINE x == Len(Body(sent))
  <2> HIDE DEF x, l, t
  <2>3. x \in Nat /\ HeadEnd(sent) \in Nat /\ l = HeadEnd(sent) + x /\ t \in {x, 0}
    BY <2>1, <2>2 DEF x
  <2> QED BY <2>3
<1>6. ASSUME method = "POST", n - m = t PROVE n > m + z
  <2>1. Harmless(sent, n) /\ sent.method = "POST"
    BY <1>6, HarmlessNow DEF AtHeader, Told
  <2>2. m + z + 2 <= l
    BY <1>2 DEF TextAt
  <2>3. CASE n >= l
    <3> HIDE DEF n, l, m, z
    <3> QED BY <1>1, <1>2, <2>2, <2>3
  <2>4. CASE ~TakenForALine(sent, n)
    <3>1. ~(n - Len(FirstLines(<<sent.method>> \o sent.headers)[i + 1])
               = (IF "length" \in Range(SubSeq(sent.headers, 1, i)) THEN Len(Body(sent)) ELSE 0)
            /\ n \in Len(FirstLines(<<sent.method>> \o sent.headers)[i + 1]) ..
                     Len(FirstLines(<<sent.method>> \o sent.headers)[i + 1])
                       + (IF i = Len(sent.headers) THEN 0 ELSE Size(sent.headers[i + 1])))
      BY <2>4 DEF TakenForALine
    <3>2. ~(n - m = t /\ n \in m .. m + z)
      BY <1>2, <3>1 DEF AtHeader, Told, Seen, HeaderSize, Start, Rows
    <3> HIDE DEF n, m, z
    <3> QED BY <1>1, <1>2, <1>6, <3>2
  <2> QED BY <2>1, <2>3, <2>4 DEF Harmless
<1> QED BY <1>1, <1>2, <1>3, <1>4, <1>5, <1>6, LineFound

(* The lines that head the part of an upload.                              *)
PartName(k) == IF k = 2 THEN "" ELSE PartRows[k + 1]

(* Where the three lines that head the part of an upload stand.            *)
LEMMA PartLineIs ==
  ASSUME NEW r \in Request, r.upload, NEW k \in 0 .. 2
  PROVE  LET s == HeadEnd(r) + Start(PartRows, k) IN
         /\ TextAt(Bytes(r), s, PartSize(k), PartName(k))
         /\ PartSize(k) \in Nat /\ Start(PartRows, k) \in Nat /\ HeadEnd(r) \in Nat
         /\ k # 2 => /\ PartName(k) \in Name /\ PartSize(k) = Size(PartName(k)) /\ PartSize(k) # 0
                     /\ Start(PartRows, k + 1) = Start(PartRows, k) + PartSize(k) + 2
                     /\ PartName(k) = (IF k = 0 THEN "boundary" ELSE "filename")
         /\ k = 2 => PartSize(k) = 0
<1>1. /\ PartRows \in Seq(Name) /\ Start(PartRows, 0) = 0
      /\ PartRows[1] = "boundary" /\ PartRows[2] = "filename"
      /\ Start(PartRows, 1) = Size("boundary") + 2 /\ Start(PartRows, 1) \in Nat
      /\ Start(PartRows, 2) = Start(PartRows, 1) + Size("filename") + 2 /\ Start(PartRows, 2) \in Nat
  BY PartIs
<1>2. /\ HeadEnd(r) \in Nat
      /\ \A j \in {1, 2} :
           TextAt(Bytes(r), HeadEnd(r) + Start(PartRows, j - 1), Size(PartRows[j]), PartRows[j])
      /\ TextAt(Bytes(r), HeadEnd(r) + Start(PartRows, 2), 0, "")
  BY BytesAre
<1>3. /\ "boundary" \in Name /\ "filename" \in Name
      /\ Size("boundary") \in Nat \ {0} /\ Size("filename") \in Nat \ {0}
  BY SizeType DEF Name
<1>4. CASE k = 0
  <2>1. PartSize(k) = Size("boundary") /\ PartName(k) = "boundary" /\ k + 1 = 1
    BY <1>1, <1>4 DEF PartSize, PartName
  <2>2. TextAt(Bytes(r), HeadEnd(r) + Start(PartRows, 1 - 1), Size(PartRows[1]), PartRows[1])
    BY <1>2
  <2>3. 1 - 1 = 0
    OBVIOUS
  <2>4. TextAt(Bytes(r), HeadEnd(r) + Start(PartRows, k), Size("boundary"), "boundary")
    BY <1>1, <1>4, <2>2, <2>3
  <2>5. Start(PartRows, k) = 0 /\ Start(PartRows, k + 1) = Start(PartRows, k) + PartSize(k) + 2
    <3>1. 0 + Size("boundary") + 2 = Size("boundary") + 2
      BY <1>3
    <3> QED BY <1>1, <1>4, <2>1, <3>1
  <2>6. Start(PartRows, k) \in Nat
    BY <2>5
  <2>7. TextAt(Bytes(r), HeadEnd(r) + Start(PartRows, k), PartSize(k), PartName(k))
    BY <2>1, <2>4
  <2>8. /\ PartName(k) \in Name /\ PartSize(k) = Size(PartName(k)) /\ PartSize(k) \in Nat \ {0}
        /\ PartName(k) = (IF k = 0 THEN "boundary" ELSE "filename")
    BY <1>3, <1>4, <2>1
  <2>9. k # 2
    BY <1>4
  <2> QED BY <1>2, <2>5, <2>6, <2>7, <2>8, <2>9
<1>5. CASE k = 1
  <2>1. PartSize(k) = Size("filename") /\ PartName(k) = "filename" /\ k + 1 = 2
    BY <1>1, <1>5 DEF PartSize, PartName
  <2>2. TextAt(Bytes(r), HeadEnd(r) + Start(PartRows, 2 - 1), Size(PartRows[2]), PartRows[2])
    BY <1>2
  <2>3. 2 - 1 = 1
    OBVIOUS
  <2> QED BY <1>1, <1>2, <1>3, <1>5, <2>1, <2>2, <2>3
<1>6. CASE k = 2
  BY <1>1, <1>2, <1>6 DEF PartSize, PartName
<1> QED BY <1>4, <1>5, <1>6

(* Each line of the part's head is found, for no harmless cut is in it.    *)
LEMMA AtPartFound ==
  ASSUME Typed, Streamed, phase = "parse", NEW k \in 0 .. 2, AtPart(k)
  PROVE  Found(PartSize(k), PartName(k))
<1> DEFINE z == PartSize(k)
           name == PartName(k)
           n == read_next_idx
           m == main_next_idx
           l == Len(Bytes(sent))
           t == body_length
           h == HeadEnd(sent)
           p == Start(PartRows, k)
<1>1. sent \in Request /\ l \in Nat /\ n \in Nat /\ n <= l /\ m \in Nat
  BY StreamIs, Buffer
<1>2. /\ TextAt(Bytes(sent), m, z, name) /\ z \in Nat /\ m = h + p /\ p \in Nat /\ h \in Nat
      /\ z = 0 \/ (name \in Name /\ z = Size(name))
  BY <1>1, PartLineIs DEF AtPart
<1>3. sub_next_idx <= m + z /\ blank_count # 2 /\ t = Len(Body(sent))
  BY DEF AtPart, HeadRead
<1>4. t \in Nat /\ l = h + t
  BY <1>1, <1>3, BytesAre
<1>5. m + z + 2 <= l
  BY <1>2 DEF TextAt
<1> HIDE DEF n, m, l, t, h, p, z
<1>6. t <= l /\ (n - m = t => n > m + z)
  BY <1>1, <1>2, <1>4, <1>5
<1> QED BY <1>1, <1>2, <1>3, <1>6, LineFound DEF n, m, l, t, z

(* A form is read when all of it has come.                                 *)
AllRead ==
  \/ CutLine.state = "GOOD" /\ CutLine.next = read_next_idx /\ read_next_idx = Len(Bytes(sent))
  \/ CutLine.state = "CONTINUE" /\ wire # <<>>

(* The data of a form is cut when all of it is there, not before.          *)
LEMMA AtFormFound ==
  ASSUME Typed, Clean, Streamed, phase = "parse", AtForm
  PROVE  AllRead
<1> DEFINE n == read_next_idx
           s == sub_next_idx
           l == Len(Bytes(sent))
           t == body_length
           h == HeadEnd(sent)
           b == Bytes(sent)
           d == Len(sent.data)
<1>1. /\ sent \in Request /\ l \in Nat /\ n \in Nat /\ n <= l /\ s \in Nat /\ h <= s /\ s <= n
      /\ \A i \in 1 .. n : read_buffer[i] = b[i]
      /\ \A i \in 0 .. n - 1 : Byte(i) = read_buffer[i + 1]
      /\ n < l => wire # <<>>
  BY StreamIs, Buffer DEF AtForm
<1>2. h \in Nat /\ t \in Nat /\ l = h + t /\ t = d /\ \A i \in 1 .. t : b[h + i] = sent.data[i]
  BY <1>1, BytesAre DEF AtForm, HeadRead
<1>3. DOMAIN sent.data = 1 .. d
  BY <1>1, RequestAssumption, LenProperties
<1>4. Range(sent.data) \intersect {CR, LF} = {}
  BY HarmlessNow DEF AtForm, HeadRead, Encoded
<1>5. main_next_idx = h /\ blank_count # 2 /\ method = "POST"
  BY DEF AtForm, HeadRead
<1> HIDE DEF n, s, l, t, h, b, d
<1>6. \A i \in s .. n - 1 : Byte(i) \notin {CR, LF}
  <2> SUFFICES ASSUME NEW i \in s .. n - 1 PROVE Byte(i) \notin {CR, LF}
    OBVIOUS
  <2>1. i \in 0 .. n - 1 /\ i + 1 \in 1 .. n /\ (i + 1) - h \in 1 .. t /\ h + ((i + 1) - h) = i + 1
    BY <1>1, <1>2
  <2>2. Byte(i) = sent.data[(i + 1) - h]
    BY <1>1, <1>2, <2>1
  <2>3. (i + 1) - h \in DOMAIN sent.data
    BY <1>2, <1>3, <2>1
  <2> QED BY <1>4, <2>2, <2>3 DEF Range
<1>7. Stops = {}
  BY <1>6 DEF Stops, s, n
<1>8. CASE n < t
  <2>1. CutLine = Cut("CONTINUE", s, s)
    BY <1>8 DEF CutLine, n, s, t
  <2>2. n < l
    BY <1>1, <1>2, <1>8
  <2> QED BY <1>1, <2>1, <2>2 DEF AllRead, Cut
<1>9. CASE ~(n < t)
  <2>1. CutLine = CutAtEnd
    BY <1>5, <1>7, <1>9 DEF CutLine, n, t
  <2>2. CASE n - h = t
    <3>1. CutLine = Cut("GOOD", n, n)
      BY <1>5, <2>1, <2>2 DEF CutAtEnd, n, t
    <3>2. n = l
      BY <1>1, <1>2, <2>2
    <3> QED BY <3>1, <3>2 DEF AllRead, Cut, n, l, b
  <2>3. CASE n - h # t
    <3>1. CutLine = Cut("CONTINUE", n, n)
      BY <1>5, <2>1, <2>3 DEF CutAtEnd, n, t
    <3>2. n < l
      BY <1>1, <1>2, <2>3
    <3> QED BY <1>1, <3>1, <3>2 DEF AllRead, Cut
  <2> QED BY <2>2, <2>3
<1> QED BY <1>8, <1>9

(* So is an upload, but for the cut that the length in bytes gives.        *)
LEMMA AtDataFound ==
  ASSUME Typed, Clean, Streamed, phase = "parse", AtData
  PROVE  AllRead
<1> DEFINE n == read_next_idx
           l == Len(Bytes(sent))
           t == body_length
           h == HeadEnd(sent)
           m == main_next_idx
           p == Start(PartRows, 2)
<1>1. /\ sent \in Request /\ l \in Nat /\ n \in Nat /\ n <= l /\ m \in Nat /\ m <= n
      /\ n < l => wire # <<>>
  <2>1. m <= n
    BY Buffer
  <2> QED BY <2>1, StreamIs, Buffer
<1>2. h \in Nat /\ t \in Nat /\ l = h + t /\ t = Len(Body(sent))
  BY <1>1, BytesAre DEF AtData, HeadRead
<1>3. m = h + p + 2 /\ p \in Nat /\ sent.upload /\ sent.method = "POST" /\ blank_count = 2
  BY PartIs DEF AtData, HeadRead, DataAt
<1>4. Len(HeadBytes(sent)) = h /\ Len(Lines(<<"boundary", "filename">>)) = p
  BY PartIs, LinesHave DEF HeadEnd, PartRows
<1>5. n >= t => n >= l
  <2> SUFFICES ASSUME n >= t PROVE n >= l
    OBVIOUS
  <2>1. Harmless(sent, n)
    BY <1>3, HarmlessNow
  <2>2. n >= l \/ ~TakenForAll(sent, n)
    BY <1>3, <2>1 DEF Harmless
  <2>3. n >= Len(Body(sent)) /\ n >= Len(HeadBytes(sent)) + Len(Lines(<<"boundary", "filename">>)) + 2
    <3>1. n >= h + p + 2
      <4> HIDE DEF n, m, h, p
      <4> QED BY <1>1, <1>3
    <3> QED BY <1>2, <1>4, <3>1
  <2> QED BY <1>3, <2>2, <2>3 DEF TakenForAll
<1> HIDE DEF n, m, l, t, h, p
<1>6. CASE n < t
  <2>1. CutLine = Cut("CONTINUE", sub_next_idx, sub_next_idx)
    BY <1>6 DEF CutLine, n, t
  <2>2. n < l
    BY <1>1, <1>2, <1>6
  <2> QED BY <1>1, <2>1, <2>2 DEF AllRead, Cut
<1>7. CASE ~(n < t)
  <2>1. CutLine = Cut("GOOD", n, n)
    BY <1>3, <1>7 DEF CutLine, n, t
  <2>2. n = l
    BY <1>1, <1>2, <1>5, <1>7
  <2> QED BY <2>1, <2>2 DEF AllRead, Cut, n, l
<1> QED BY <1>6, <1>7

-----------------------------------------------------------------------------
(* Each action keeps to the request.  Parsing leaves bytes and history.    *)
LEMMA ParsingKeeps ==
  ASSUME UNCHANGED <<wire, read_buffer, ghost>>
  PROVE  (Clean' <=> Clean) /\ (Streamed' <=> Streamed) /\ read_next_idx' = read_next_idx
BY DEF ghost, Clean, Streamed, read_next_idx

(* A request has bytes.                                                    *)
LEMMA NotEmpty ==
  ASSUME NEW r \in Request
  PROVE  Bytes(r) \in Seq(Symbol) /\ Len(Bytes(r)) \in Nat \ {0} /\ Bytes(r) # <<>>
<1>1. /\ Bytes(r) \in Seq(Symbol) /\ Len(Bytes(r)) \in Nat
      /\ TextAt(Bytes(r), Start(Rows(r), Len(Rows(r))), 0, "")
  BY BytesAre, LenProperties
<1>2. Start(Rows(r), Len(Rows(r))) \in Nat
  <2>1. Rows(r) \in Seq(Name) /\ Len(Rows(r)) \in 0 .. Len(Rows(r))
    <3>1. Rows(r) \in Seq(Name) /\ Len(Rows(r)) \in Nat
      BY RowsAre, LenProperties
    <3> QED BY <3>1
  <2> QED BY <2>1, StartIs
<1> DEFINE s == Start(Rows(r), Len(Rows(r)))
           l == Len(Bytes(r))
<1>3. s \in Nat /\ l \in Nat /\ s + 0 + 2 <= l
  BY <1>1, <1>2 DEF TextAt
<1> HIDE DEF s, l
<1>4. l # 0
  BY <1>3
<1> QED BY <1>1, <1>4, EmptySeq DEF l

(* A request of which nothing has been read: what Init, and Reinit for the *)
(* next one, leave.                                                        *)
LEMMA NothingRead ==
  ASSUME NEW r \in Request
  PROVE  /\ Bytes(r) # <<>> /\ 0 <= Size(r.method)
         /\ Len(<<>>) + Len(Bytes(r)) = Len(Bytes(r))
         /\ \A i \in 1 .. Len(<<>>) : <<>>[i] = Bytes(r)[i]
         /\ \A i \in 1 .. Len(Bytes(r)) : Bytes(r)[i] = Bytes(r)[Len(<<>>) + i]
<1> DEFINE l == Len(Bytes(r))
<1>1. l \in Nat /\ Bytes(r) # <<>>
  BY NotEmpty
<1>2. Len(<<>>) = 0
  BY EmptySeq
<1>3. Size(r.method) \in Nat
  BY RequestAssumption, SizeType DEF Name
<1> HIDE DEF l
<1>4. 0 + l = l /\ 1 .. 0 = {} /\ \A i \in 1 .. l : 0 + i = i
  BY <1>1
<1>5. 0 <= Size(r.method)
  BY <1>3
<1> QED BY <1>1, <1>2, <1>4, <1>5 DEF l

(* The slot begins with nothing read.                                      *)
LEMMA InitSynced == ParserInit => Synced
<1> SUFFICES ASSUME ParserInit PROVE Synced
  OBVIOUS
<1>1. sent \in Request /\ wire = Bytes(sent) /\ read_buffer = <<>>
  BY DEF ParserInit
<1>2. Streamed /\ wire # <<>>
  BY <1>1, NothingRead DEF Streamed, read_next_idx
<1>3. AtLine
  BY <1>1, NothingRead DEF ParserInit, AtLine, NoPart
<1> QED BY <1>2, <1>3 DEF ParserInit, Synced, Somewhere

(* A piece arrives: it is added to what was read, where it belongs.        *)
LEMMA ReceiveSynced ==
  ASSUME Typed, Synced, NEW k \in 1 .. BufferSize, Receive(k)
  PROVE  Synced'
<1> SUFFICES ASSUME Clean' PROVE Streamed' /\ Somewhere'
  BY DEF Synced, Receive
<1>1. /\ phase = "read" /\ cuts \subseteq cuts'
      /\ UNCHANGED <<place, head, outcome, sent, leftover>>
  BY DEF Receive
<1>2. Streamed /\ Somewhere
  BY <1>1 DEF Clean, Synced
<1>3. Somewhere'
  BY <1>1, <1>2 DEF Somewhere, AtLine, AtHeader, AtPart, AtData, AtForm, NoPart, Told, HeadRead,
                    place, head
<1>4. Streamed'
  <2> DEFINE m == Len(read_buffer)
             n == Len(wire)
             m2 == Len(read_buffer')
             n2 == Len(wire')
             b == Bytes(sent)
             l == Len(b)
  <2>1. /\ m \in Nat /\ n \in Nat /\ k \in Nat /\ k <= n
        /\ m2 = m + k /\ n2 = n - k
        /\ \A i \in 1 .. m : read_buffer'[i] = read_buffer[i]
        /\ \A i \in 1 .. k : read_buffer'[m + i] = wire[i]
        /\ \A i \in 1 .. n - k : wire'[i] = wire[k + i]
    BY ReceiveIs
  <2>2. /\ m + n = l
        /\ \A i \in 1 .. m : read_buffer[i] = b[i]
        /\ \A i \in 1 .. n : wire[i] = b[m + i]
    BY <1>2 DEF Streamed, read_next_idx
  <2> HIDE DEF m, n, m2, n2, b, l
  <2>3. m2 + n2 = l
    BY <2>1, <2>2
  <2>4. \A i \in 1 .. m2 : read_buffer'[i] = b[i]
    <3> SUFFICES ASSUME NEW i \in 1 .. m2 PROVE read_buffer'[i] = b[i]
      OBVIOUS
    <3>1. CASE i <= m
      <4>1. i \in 1 .. m
        BY <2>1, <3>1
      <4> QED BY <2>1, <2>2, <4>1
    <3>2. CASE ~(i <= m)
      <4>1. i - m \in 1 .. k /\ m + (i - m) = i /\ i - m \in 1 .. n
        BY <2>1, <3>2
      <4>2. read_buffer'[m + (i - m)] = wire[i - m] /\ wire[i - m] = b[m + (i - m)]
        BY <2>1, <2>2, <4>1
      <4> QED BY <4>1, <4>2
    <3> QED BY <3>1, <3>2
  <2>5. \A i \in 1 .. n2 : wire'[i] = b[m2 + i]
    <3> SUFFICES ASSUME NEW i \in 1 .. n2 PROVE wire'[i] = b[m2 + i]
      OBVIOUS
    <3>1. i \in 1 .. n - k /\ k + i \in 1 .. n /\ m + (k + i) = m2 + i
      BY <2>1
    <3>2. wire'[i] = wire[k + i] /\ wire[k + i] = b[m + (k + i)]
      BY <2>1, <2>2, <3>1
    <3> QED BY <3>1, <3>2
  <2>6. sent' = sent
    BY <1>1
  <2> QED BY <2>3, <2>4, <2>5, <2>6 DEF Streamed, read_next_idx, m2, n2, b, l
<1> QED BY <1>3, <1>4

(* The parser waits where it is when the line has not come whole.          *)
LEMMA NotALineSynced ==
  ASSUME Typed, Synced, NotALine
  PROVE  Synced'
<1>1. /\ phase = "parse" /\ CutLine.state # "GOOD" /\ sub_next_idx' = CutLine.next
      /\ UNCHANGED <<wire, read_buffer, main_next_idx, main_machine_state, head, ghost>>
  BY DEF NotALine
<1> SUFFICES ASSUME Clean' PROVE Streamed' /\ phase' = "read" /\ wire' # <<>> /\ Somewhere'
  BY DEF Synced
<1>2. Clean /\ Streamed /\ Streamed' /\ Somewhere
  BY <1>1, ParsingKeeps DEF Synced
<1>3. \A z, name : Found(z, name) =>
         CutLine.state = "CONTINUE" /\ CutLine.next <= main_next_idx + z /\ wire # <<>>
  BY <1>1 DEF Found, Cut
<1>4. SUFFICES CutLine.state = "CONTINUE" /\ wire # <<>> /\ Somewhere'
  BY <1>1, <1>2 DEF NotALine, Wait
<1>5. CASE AtLine
  <2>1. CutLine.state = "CONTINUE" /\ CutLine.next <= main_next_idx + Size(sent.method) /\ wire # <<>>
    BY <1>1, <1>2, <1>3, <1>5, AtLineFound
  <2>2. Size(sent.method) \in Nat
    BY <1>1, <1>2, <1>5, AtLineFound, SizeType
  <2>3. CutLine.next <= Size(sent.method)
    BY <2>1, <2>2, <1>5 DEF AtLine
  <2>4. AtLine'
    BY <1>1, <1>5, <2>3 DEF AtLine, NoPart, head, ghost
  <2> QED BY <2>1, <2>4 DEF Somewhere
<1>6. CASE \E i \in 0 .. Len(sent.headers) : AtHeader(i)
  <2>1. PICK i \in 0 .. Len(sent.headers) : AtHeader(i)
    BY <1>6
  <2>2. /\ CutLine.state = "CONTINUE" /\ wire # <<>>
        /\ CutLine.next <= main_next_idx + HeaderSize(sent, i)
    BY <1>1, <1>2, <1>3, <2>1, AtHeaderFound
  <2>3. AtHeader(i)'
    BY <1>1, <2>1, <2>2 DEF AtHeader, Told, NoPart, head, ghost
  <2>4. i \in 0 .. Len(sent'.headers)
    BY <1>1, <2>1 DEF ghost
  <2> QED BY <2>2, <2>3, <2>4 DEF Somewhere
<1>7. CASE \E k \in 0 .. 2 : AtPart(k)
  <2>1. PICK k \in 0 .. 2 : AtPart(k)
    BY <1>7
  <2>2. CutLine.state = "CONTINUE" /\ wire # <<>> /\ CutLine.next <= main_next_idx + PartSize(k)
    BY <1>1, <1>2, <1>3, <2>1, AtPartFound
  <2>3. AtPart(k)'
    BY <1>1, <2>1, <2>2 DEF AtPart, HeadRead, head, ghost
  <2> QED BY <2>2, <2>3 DEF Somewhere
<1>8. CASE AtData
  <2>1. AtData'
    BY <1>1, <1>8 DEF AtData, HeadRead, head, ghost
  <2> QED BY <1>1, <1>2, <1>8, <2>1, AtDataFound DEF AllRead, Somewhere
<1>9. CASE AtForm
  <2>1. AtForm'
    BY <1>1, <1>9 DEF AtForm, HeadRead, NoPart, head, ghost
  <2> QED BY <1>1, <1>2, <1>9, <2>1, AtFormFound DEF AllRead, Somewhere
<1> QED BY <1>2, <1>5, <1>6, <1>7, <1>8, <1>9 DEF Somewhere

(* The request line is taken, or refused.                                  *)
LEMMA AnalysisLineSynced ==
  ASSUME Typed, Synced, AnalysisLine
  PROVE  Synced'
<1>1. /\ phase = "parse" /\ main_machine_state = "LINE" /\ CutLine.state = "GOOD"
      /\ sub_next_idx' = CutLine.next
      /\ UNCHANGED <<wire, read_buffer, linger_, body_length, boundary, blank_count,
                     start_boundary, mines_count, upload_file_name, ghost>>
  BY DEF AnalysisLine, HasLine
<1> SUFFICES ASSUME Clean'
             PROVE  /\ Streamed' /\ phase' \in {"parse", "answer"}
                    /\ phase' = "parse" => Somewhere'
                    /\ phase' = "answer" => Answered'
  BY DEF Synced
<1>2. Clean /\ Streamed /\ Streamed' /\ AtLine /\ sent' = sent
  BY <1>1, ParsingKeeps DEF Synced, Somewhere, AtHeader, AtPart, AtData, AtForm, ghost
<1> DEFINE z == Size(sent.method)
<1>3. /\ Found(z, sent.method) /\ sent.method \in Name /\ z \in Nat \ {0} /\ sent \in Request
  BY <1>1, <1>2, AtLineFound, SizeType, StreamIs
<1>4. CutLine.next = 0 + z + 2 /\ CutText = TextOf(sent.method)
  BY <1>1, <1>2, <1>3 DEF Found, Cut, AtLine
<1>5. "GET" \in Name /\ "POST" \in Name
  BY DEF Name, Method
<1>6. ASSUME NEW m \in {"GET", "POST"}, CutText = TextOf(m), method' = m,
             main_machine_state' = "HEAD", main_next_idx' = CutLine.next, Continue
      PROVE  phase' = "parse" /\ Somewhere'
  <2>1. m = sent.method
    BY <1>3, <1>4, <1>5, <1>6, TextsDiffer
  <2>2. /\ Start(Rows(sent), 0 + 1) = 0 + z + 2 /\ HeaderSize(sent, 0) \in Nat
        /\ 0 \in 0 .. Len(sent.headers)
    <3>1. /\ Rows(sent) \in Seq(Name) /\ Len(sent.headers) \in Nat /\ 1 \in 1 .. Len(Rows(sent))
          /\ Rows(sent)[1] = sent.method
      BY <1>3, RowsAre
    <3>2. Start(Rows(sent), 0) = 0 /\ Start(Rows(sent), 1) = Start(Rows(sent), 1 - 1) + z + 2
      BY <3>1, StartIs
    <3>3. 0 \in 0 .. Len(sent.headers) /\ 1 - 1 = 0 /\ 0 + 1 = 1
      BY <3>1
    <3>4. HeaderSize(sent, 0) \in Nat
      BY <1>3, <3>3, HeaderIs
    <3> QED BY <3>2, <3>3, <3>4
  <2>3. sub_next_idx' <= main_next_idx' + HeaderSize(sent, 0)
    BY <1>1, <1>3, <1>4, <1>6, <2>2
  <2>4. Told(0)'
    <3>1. Seen(sent', 0) = {}
      BY <1>2, <1>3, SeenAre
    <3>2. method' = sent'.method
      BY <1>2, <1>6, <2>1
    <3>3. ~linger_' /\ ~boundary' /\ body_length' = 0
      BY <1>1, <1>2 DEF AtLine
    <3> QED BY <3>1, <3>2, <3>3 DEF Told
  <2>5. AtHeader(0)'
    BY <1>1, <1>2, <1>4, <1>6, <2>2, <2>3, <2>4 DEF AtHeader, AtLine, NoPart
  <2>6. 0 \in 0 .. Len(sent'.headers)
    BY <1>2, <2>2
  <2> QED BY <1>6, <2>5, <2>6 DEF Somewhere, Continue
<1>7. CASE CutText \notin {TextOf("GET"), TextOf("POST")} /\ Decide(Bad)
  <2>1. sent.method \notin {"GET", "POST"}
    BY <1>4, <1>7
  <2>2. sent.method = "PUT"
    BY <1>3, <2>1, RequestAssumption DEF Method
  <2>3. phase' = "answer" /\ outcome' = Bad /\ Expected(sent) = Bad
    BY <1>7, <2>2 DEF Decide, Expected
  <2> QED BY <1>2, <2>2, <2>3 DEF Answered
<1> QED BY <1>2, <1>6, <1>7 DEF AnalysisLine

(* A header, or a line of the head of the part, is taken.                  *)
LEMMA AnalysisHeaderSynced ==
  ASSUME Typed, Synced, AnalysisHeader
  PROVE  Synced'
<1>1. /\ phase = "parse" /\ main_machine_state = "HEAD" /\ CutLine.state = "GOOD" /\ CutText # <<>>
      /\ sub_next_idx' = CutLine.next /\ main_next_idx' = CutLine.next /\ phase' = "parse"
      /\ body_length' = IF CutText = TextOf("length") THEN Len(Body(sent)) ELSE body_length
      /\ UNCHANGED <<wire, read_buffer, main_machine_state, method, blank_count, ghost>>
  BY DEF AnalysisHeader, HasLine, Continue
<1>2. /\ start_boundary' <=> start_boundary \/ (boundary /\ CutText = TextOf("boundary"))
      /\ linger_' <=> linger_ \/ CutText = TextOf("keep-alive")
      /\ boundary' <=> boundary \/ CutText = TextOf("multipart")
      /\ upload_file_name' <=> upload_file_name \/ CutText = TextOf("filename")
  BY Zenon DEF AnalysisHeader, CountMines
<1>3. mines_count' = mines_count + IF start_boundary' THEN Len(CutText) + 2 ELSE 0
  BY DEF AnalysisHeader, CountMines
<1> SUFFICES ASSUME Clean' PROVE Streamed' /\ Somewhere'
  BY <1>1 DEF Synced
<1>4. Clean /\ Streamed /\ Streamed' /\ Somewhere /\ sent' = sent
  BY <1>1, ParsingKeeps DEF Synced, ghost
<1>5. sent \in Request
  BY <1>4, StreamIs
<1>6. \A z, name : Found(z, name) =>
        /\ CutLine.next = main_next_idx + z + 2 /\ z # 0 /\ CutText = TextOf(name) /\ Len(CutText) = z
  BY <1>1 DEF Found, Cut
<1>7. ~AtLine /\ ~AtData /\ ~AtForm
  BY <1>1 DEF AtLine, AtData, AtForm
<1>8. {"length", "keep-alive", "multipart", "boundary", "filename"} \subseteq Name
  BY DEF Name, Header
<1>9. CASE \E i \in 0 .. Len(sent.headers) : AtHeader(i)
  <2>1. PICK i \in 0 .. Len(sent.headers) : AtHeader(i)
    BY <1>9
  <2> DEFINE z == HeaderSize(sent, i)
             name == HeaderName(sent, i)
  <2>2. /\ CutLine.next = main_next_idx + z + 2 /\ z # 0 /\ CutText = TextOf(name)
    BY <1>1, <1>4, <1>6, <2>1, AtHeaderFound
  <2>3. i # Len(sent.headers) /\ z \in Nat /\ main_next_idx = Start(Rows(sent), i + 1)
    BY <1>5, <2>1, <2>2, HeaderIs DEF AtHeader
  <2>4. /\ name \in Header /\ name = sent.headers[i + 1]
        /\ Start(Rows(sent), (i + 1) + 1) = Start(Rows(sent), i + 1) + z + 2
    BY <1>5, <2>3, HeaderIs
  <2> DEFINE j == i + 1
  <2>5. j \in 0 .. Len(sent.headers) /\ i \in 0 .. Len(sent.headers) - 1
    <3>1. Len(sent.headers) \in Nat
      BY <1>5, RowsAre
    <3> QED BY <2>1, <2>3, <3>1
  <2>6. HeaderSize(sent, j) \in Nat /\ Start(Rows(sent), j + 1) \in Nat
    BY <1>5, <2>5, HeaderIs
  <2>7. Seen(sent, j) = Seen(sent, i) \union {name}
    BY <1>5, <2>4, <2>5, SeenAre
  <2> HIDE DEF z, name, j
  <2>8. name \in Name /\ name \notin {"boundary", "filename"}
    BY <2>4 DEF Name, Header
  <2>9. /\ (CutText = TextOf("length") <=> name = "length")
        /\ (CutText = TextOf("keep-alive") <=> name = "keep-alive")
        /\ (CutText = TextOf("multipart") <=> name = "multipart")
        /\ CutText # TextOf("boundary") /\ CutText # TextOf("filename")
    BY <1>8, <2>2, <2>8, TextsDiffer
  <2>10. ~start_boundary' /\ ~upload_file_name' /\ mines_count' = 0
    <3>1. ~start_boundary /\ ~upload_file_name /\ mines_count = 0
      BY <2>1 DEF AtHeader, NoPart
    <3>2. ~start_boundary' /\ ~upload_file_name'
      BY <1>2, <2>9, <3>1
    <3> QED BY <1>3, <3>1, <3>2
  <2>11. Told(j)'
    <3>1. /\ method = sent.method /\ (linger_ <=> "keep-alive" \in Seen(sent, i))
          /\ boundary <=> "multipart" \in Seen(sent, i)
          /\ body_length = IF "length" \in Seen(sent, i) THEN Len(Body(sent)) ELSE 0
      BY <2>1 DEF AtHeader, Told
    <3>2. /\ linger_' <=> "keep-alive" \in Seen(sent, j)
          /\ boundary' <=> "multipart" \in Seen(sent, j)
      BY <1>2, <2>7, <2>9, <3>1
    <3>3. body_length' = IF "length" \in Seen(sent, j) THEN Len(Body(sent)) ELSE 0
      BY <1>1, <2>7, <2>9, <3>1
    <3> QED BY <1>1, <1>4, <3>1, <3>2, <3>3 DEF Told
  <2>12. main_next_idx' = Start(Rows(sent), j + 1) /\ sub_next_idx' <= main_next_idx' + HeaderSize(sent, j)
    <3>1. main_next_idx' = Start(Rows(sent), j + 1) /\ sub_next_idx' = Start(Rows(sent), j + 1)
      BY <1>1, <2>2, <2>3, <2>4 DEF j, z
    <3>2. Start(Rows(sent), j + 1) <= Start(Rows(sent), j + 1) + HeaderSize(sent, j)
      BY <2>6
    <3> QED BY <3>1, <3>2
  <2>13. AtHeader(j)'
    <3>1. main_machine_state' = "HEAD" /\ blank_count' = 0
      BY <1>1, <2>1 DEF AtHeader
    <3> QED BY <1>4, <2>10, <2>11, <2>12, <3>1 DEF AtHeader, NoPart
  <2>14. j \in 0 .. Len(sent'.headers)
    BY <1>4, <2>5
  <2> QED BY <1>4, <2>13, <2>14 DEF Somewhere
<1>10. CASE \E k \in 0 .. 2 : AtPart(k)
  <2>1. PICK k \in 0 .. 2 : AtPart(k)
    BY <1>10
  <2> DEFINE z == PartSize(k)
             name == PartName(k)
             j == k + 1
             p == Start(PartRows, k)
  <2>2. /\ CutLine.next = main_next_idx + z + 2 /\ z # 0 /\ CutText = TextOf(name) /\ Len(CutText) = z
    BY <1>1, <1>4, <1>6, <2>1, AtPartFound
  <2>3. sent.upload /\ main_next_idx = HeadEnd(sent) + p
    BY <2>1 DEF AtPart
  <2>4. k # 2 /\ z \in Nat /\ p \in Nat /\ HeadEnd(sent) \in Nat
    BY <1>5, <2>1, <2>2, <2>3, PartLineIs
  <2>5. /\ name \in Name /\ z = Size(name) /\ Start(PartRows, j) = p + z + 2
        /\ name = (IF k = 0 THEN "boundary" ELSE "filename")
    BY <1>5, <2>1, <2>3, <2>4, PartLineIs
  <2>6. j \in 0 .. 2 /\ (k = 0 <=> j = 1) /\ (k = 1 <=> j = 2) /\ j # 0
    BY <2>1, <2>4
  <2>7. PartSize(j) \in Nat
    BY <1>5, <2>3, <2>6, PartLineIs
  <2> HIDE DEF z, name, j, p
  <2>8. /\ CutText # TextOf("length") /\ CutText # TextOf("keep-alive") /\ CutText # TextOf("multipart")
        /\ (CutText = TextOf("boundary") <=> k = 0) /\ (CutText = TextOf("filename") <=> k # 0)
    <3>1. /\ name \notin {"length", "keep-alive", "multipart"}
          /\ (name = "boundary" <=> k = 0) /\ (name = "filename" <=> k # 0)
      BY <2>5
    <3> QED BY <1>8, <2>2, <2>5, <3>1, TextsDiffer
  <2>9. /\ mines_count = p /\ (start_boundary <=> k # 0) /\ (upload_file_name <=> k = 2)
        /\ HeadRead
    BY <2>1 DEF AtPart, p
  <2>10. start_boundary' /\ (upload_file_name' <=> j = 2)
    BY <1>2, <2>1, <2>3, <2>4, <2>6, <2>8, <2>9 DEF HeadRead
  <2>11. mines_count' = Start(PartRows, j)
    <3>1. mines_count' = p + (z + 2)
      BY <1>3, <2>2, <2>9, <2>10
    <3> QED BY <2>4, <2>5, <3>1
  <2>12. HeadRead'
    <3>1. (linger_' <=> linger_) /\ (boundary' <=> boundary) /\ body_length' = body_length
      BY <1>1, <1>2, <2>8
    <3> QED BY <1>1, <1>4, <2>9, <3>1 DEF HeadRead
  <2>13. /\ main_next_idx' = HeadEnd(sent) + Start(PartRows, j)
         /\ sub_next_idx' <= main_next_idx' + PartSize(j)
    <3>1. main_next_idx' = (HeadEnd(sent) + p) + z + 2 /\ sub_next_idx' = main_next_idx'
      BY <1>1, <2>2, <2>3
    <3> QED BY <2>4, <2>5, <2>7, <3>1
  <2>14. AtPart(j)'
    <3>1. main_machine_state' = "HEAD" /\ blank_count' = 1
      BY <1>1, <2>1 DEF AtPart
    <3> QED BY <1>4, <2>3, <2>6, <2>10, <2>11, <2>12, <2>13, <3>1 DEF AtPart
  <2> QED BY <1>4, <2>6, <2>14 DEF Somewhere
<1> QED BY <1>4, <1>7, <1>9, <1>10 DEF Somewhere

(* Equivalent to a membership is equal to it.                              *)
LEMMA SameTruth ==
  ASSUME NEW a \in BOOLEAN, NEW x, NEW S, a <=> x \in S
  PROVE  a = (x \in S)
BY Zenon

(* The head ends: the request is answered, or its body or the head of the  *)
(* part begins.                                                            *)
LEMMA AnalysisBlankSynced ==
  ASSUME Typed, Synced, AnalysisBlank
  PROVE  Synced'
<1>1. /\ phase = "parse" /\ main_machine_state = "HEAD" /\ CutLine.state = "GOOD" /\ CutText = <<>>
      /\ sub_next_idx' = CutLine.next /\ blank_count' = blank_count + 1
      /\ UNCHANGED <<wire, read_buffer, method, linger_, body_length, boundary,
                     upload_file_name, ghost>>
  BY DEF AnalysisBlank, HasLine
<1>2. start_boundary' <=> start_boundary \/ (boundary /\ CutText = TextOf("boundary"))
  BY Zenon DEF AnalysisBlank, CountMines
<1>3. mines_count' = mines_count + IF start_boundary' THEN Len(CutText) + 2 ELSE 0
  BY DEF AnalysisBlank, CountMines
<1> SUFFICES ASSUME Clean'
             PROVE  /\ Streamed' /\ phase' \in {"parse", "answer"}
                    /\ phase' = "parse" => Somewhere'
                    /\ phase' = "answer" => Answered'
  BY DEF Synced
<1>4. Clean /\ Streamed /\ Streamed' /\ Somewhere /\ sent' = sent /\ read_next_idx' = read_next_idx
  BY <1>1, ParsingKeeps DEF Synced, ghost
<1>5. sent \in Request
  BY <1>4, StreamIs
<1>6. CutText # TextOf("boundary")
  BY <1>1, TextsDiffer DEF Name
<1>7. \A z, name : Found(z, name) =>
        /\ CutLine.next = main_next_idx + z + 2 /\ main_next_idx + z + 2 <= read_next_idx
        /\ Len(CutText) = z /\ (z = 0 \/ CutText = TextOf(name))
  BY <1>1 DEF Found, Cut
<1>8. ~AtLine /\ ~AtData /\ ~AtForm
  BY <1>1 DEF AtLine, AtData, AtForm
<1>9. CASE \E i \in 0 .. Len(sent.headers) : AtHeader(i)
  <2>1. PICK i \in 0 .. Len(sent.headers) : AtHeader(i)
    BY <1>9
  <2>2. i = Len(sent.headers)
    <3>1. HeaderSize(sent, i) = 0 \/ CutText = TextOf(HeaderName(sent, i))
      BY <1>1, <1>4, <1>7, <2>1, AtHeaderFound
    <3> QED BY <1>1, <1>5, <2>1, <3>1, HeaderIs, TextsDiffer DEF Name
  <2> DEFINE h == HeadEnd(sent)
             t == Len(Body(sent))
             l == Len(Bytes(sent))
  <2>3. h \in Nat /\ t \in Nat /\ l = h + t
    BY <1>5, BytesAre
  <2>4. CutLine.next = h /\ h <= read_next_idx
    <3>1. HeaderSize(sent, i) = 0 /\ main_next_idx + 2 = h /\ main_next_idx \in Nat
      BY <1>5, <2>1, <2>2, HeaderIs DEF AtHeader
    <3>2. /\ CutLine.next = main_next_idx + 0 + 2 /\ main_next_idx + 0 + 2 <= read_next_idx
      BY <1>1, <1>4, <1>7, <2>1, <3>1, AtHeaderFound
    <3>3. main_next_idx + 0 + 2 = main_next_idx + 2
      BY <3>1
    <3> QED BY <3>1, <3>2, <3>3
  <2>5. /\ method = sent.method /\ (linger_ <=> "keep-alive" \in Range(sent.headers))
        /\ (boundary <=> sent.upload) /\ body_length = t
    <3>1. Seen(sent, i) = Range(sent.headers)
      BY <1>5, <2>2, SeenAre
    <3>2. /\ ("multipart" \in Range(sent.headers) <=> sent.upload)
          /\ "length" \notin Range(sent.headers) => t = 0
      BY <1>5, Announced
    <3> QED BY <2>1, <3>1, <3>2 DEF AtHeader, Told
  <2>6. NoPart /\ blank_count' = 1
    BY <1>1, <2>1 DEF AtHeader
  <2>7. NoPart'
    <3>1. ~start_boundary'
      BY <1>2, <1>6, <2>6 DEF NoPart
    <3> QED BY <1>1, <1>3, <2>6, <3>1 DEF NoPart
  <2>8. ASSUME sent.method = "POST" PROVE HeadRead'
    BY <1>1, <1>4, <2>5, <2>8 DEF HeadRead
  <2>9. /\ 0 \in 0 .. 2 /\ Start(PartRows, 0) = 0 /\ h + 0 = h /\ PartSize(0) \in Nat
    <3>1. Size("boundary") \in Nat
      BY SizeType DEF Name
    <3>2. 0 + 1 = 1 /\ PartRows[1] = "boundary" /\ Start(PartRows, 0) = 0
      BY PartIs
    <3> QED BY <2>3, <3>1, <3>2 DEF PartSize
  <2> HIDE DEF h, t, l
  <2>10. CASE /\ blank_count' = 1 /\ boundary /\ main_next_idx' = CutLine.next
              /\ Continue /\ UNCHANGED main_machine_state
    <3>1. sent.upload /\ sent.method = "POST"
      BY <1>5, <2>5, <2>10, RequestAssumption
    <3>2. sub_next_idx' <= main_next_idx' + PartSize(0)
      <4>1. sub_next_idx' = h /\ main_next_idx' = h
        BY <1>1, <2>4, <2>10
      <4> QED BY <2>3, <2>9, <4>1
    <3>3. AtPart(0)'
      BY <1>1, <1>4, <2>4, <2>6, <2>7, <2>8, <2>9, <2>10, <3>1, <3>2 DEF AtPart, NoPart, h
    <3> QED BY <1>4, <2>9, <2>10, <3>3 DEF Somewhere, Continue
  <2>11. CASE /\ ~(blank_count' = 1 /\ boundary) /\ method = "POST"
              /\ main_machine_state' = "BODY" /\ main_next_idx' = CutLine.next /\ Continue
    <3>1. ~sent.upload /\ sent.method = "POST"
      BY <2>5, <2>6, <2>11
    <3>2. AtForm'
      BY <1>4, <2>4, <2>6, <2>7, <2>8, <2>11, <3>1 DEF AtForm, h
    <3> QED BY <1>4, <2>11, <3>2 DEF Somewhere, Continue
  <2>12. CASE /\ ~(blank_count' = 1 /\ boundary) /\ method = "GET" /\ Decide(Good(<<>>))
    <3>1. sent.method = "GET" /\ sent.upload = FALSE /\ sent.data = <<>> /\ t = 0
      BY <1>5, <2>5, <2>12, Announced DEF t
    <3>2. wire = <<>>
      <4>1. read_next_idx <= l /\ read_next_idx \in Nat /\ (read_next_idx = l => wire = <<>>)
        BY <1>4, StreamIs DEF l
      <4> QED BY <2>3, <2>4, <3>1, <4>1
    <3>3. /\ linger_ = ("keep-alive" \in Range(sent.headers)) /\ upload_file_name = FALSE
      <4>1. linger_ \in BOOLEAN /\ upload_file_name \in BOOLEAN /\ ~upload_file_name
        BY <2>6 DEF Typed, ParserTypeOK, NoPart
      <4>2. linger_ <=> "keep-alive" \in Range(sent.headers)
        BY <2>5
      <4>3. linger_ = ("keep-alive" \in Range(sent.headers))
        BY <4>1, <4>2, SameTruth
      <4> QED BY <4>1, <4>3
    <3>4. Expected(sent) = Good(<<>>)
      BY <2>5, <3>1, <3>3 DEF Expected, Good
    <3> QED BY <1>1, <1>4, <2>12, <3>1, <3>2, <3>4 DEF Decide, Answered
  <2> QED BY <2>10, <2>11, <2>12 DEF AnalysisBlank
<1>10. CASE \E k \in 0 .. 2 : AtPart(k)
  <2>1. PICK k \in 0 .. 2 : AtPart(k)
    BY <1>10
  <2>2. sent.upload /\ blank_count = 1 /\ HeadRead
    BY <2>1 DEF AtPart
  <2>3. k = 2
    <3>1. PartSize(k) = 0 \/ CutText = TextOf(PartName(k))
      BY <1>1, <1>4, <1>7, <2>1, AtPartFound
    <3> QED BY <1>1, <1>5, <2>1, <2>2, <3>1, PartLineIs, TextsDiffer
  <2> DEFINE p == Start(PartRows, 2)
             h == HeadEnd(sent)
  <2>4. PartSize(k) = 0 /\ p \in Nat /\ h \in Nat /\ main_next_idx = h + p
    BY <1>5, <2>1, <2>2, <2>3, PartLineIs DEF AtPart
  <2>5. CutLine.next = main_next_idx + 0 + 2 /\ Len(CutText) = 0
    BY <1>1, <1>4, <1>7, <2>1, <2>4, AtPartFound
  <2>6. mines_count = p /\ start_boundary /\ upload_file_name
    BY <2>1, <2>3 DEF AtPart
  <2>7. blank_count' = 2 /\ method = "POST"
    BY <1>1, <2>2 DEF HeadRead
  <2>8. /\ main_machine_state' = "BODY" /\ main_next_idx' = CutLine.next /\ phase' = "parse"
    BY <2>7 DEF AnalysisBlank, Continue
  <2> HIDE DEF p, h
  <2>9. main_next_idx' = h + p + 2 /\ mines_count' = p + 2
    <3>1. start_boundary'
      BY <1>2, <2>6
    <3>2. mines_count' = p + (0 + 2)
      BY <1>3, <2>5, <2>6, <3>1
    <3>3. main_next_idx' = (h + p) + 0 + 2
      BY <2>4, <2>5, <2>8
    <3> QED BY <2>4, <3>2, <3>3
  <2>10. HeadRead'
    BY <1>1, <1>4, <2>2 DEF HeadRead
  <2>11. AtData'
    BY <1>1, <1>2, <1>4, <2>2, <2>6, <2>7, <2>8, <2>9, <2>10 DEF AtData, DataAt, h, p
  <2> QED BY <1>4, <2>8, <2>11 DEF Somewhere
<1> QED BY <1>4, <1>8, <1>9, <1>10 DEF Somewhere

(* The body is what was sent.                                              *)
LEMMA AnalysisBodySynced ==
  ASSUME Typed, Synced, AnalysisBody
  PROVE  Synced'
<1> DEFINE mines   == mines_count + IF start_boundary THEN Trailer ELSE 0
           upload  == boundary /\ blank_count = 2
           rest    == body_length - mines
           data    == [i \in 1 .. rest |-> IF main_next_idx + i <= read_next_idx
                                           THEN read_buffer[main_next_idx + i] ELSE "0"]
           content == Slice(main_next_idx, CutLine.next)
<1>1. /\ phase = "parse" /\ main_machine_state = "BODY" /\ CutLine.state = "GOOD"
      /\ UNCHANGED <<wire, read_buffer, main_next_idx, method, linger_, boundary, blank_count,
                     upload_file_name, ghost>>
      /\ \/ upload /\ Decide(Good(data))
         \/ ~upload /\ Len(content) = body_length /\ Decide(Good(content))
         \/ ~upload /\ Len(content) # body_length
  BY DEF AnalysisBody, HasLine
<1> SUFFICES ASSUME Clean' PROVE Streamed' /\ phase' = "answer" /\ Answered'
  BY DEF Synced
<1>2. Clean /\ Streamed /\ Streamed' /\ Somewhere /\ sent' = sent
  BY <1>1, ParsingKeeps DEF Synced, ghost
<1> DEFINE l == Len(Bytes(sent))
           n == read_next_idx
           d == Len(sent.data)
           h == HeadEnd(sent)
           b == Bytes(sent)
           m == main_next_idx
<1>3. sent \in Request /\ n \in Nat /\ (n = l => wire = <<>>) /\ \A i \in 1 .. n : read_buffer[i] = b[i]
  BY <1>2, StreamIs
<1>4. /\ h \in Nat /\ Len(Body(sent)) \in Nat /\ l = h + Len(Body(sent))
      /\ \A i \in 1 .. Len(Body(sent)) : b[h + i] = Body(sent)[i]
      /\ ~sent.upload => Body(sent) = sent.data
  BY <1>3, BytesAre
<1>5. /\ sent.data \in Seq(Data) /\ d \in Nat /\ \A i \in 1 .. d : sent.data[i] \in Data
  BY <1>3, RequestAssumption, LenProperties, ElementOfSeq
<1>6. AtData \/ AtForm
  BY <1>1, <1>2 DEF Somewhere, AtLine, AtHeader, AtPart
<1>7. HeadRead
  BY <1>6 DEF AtData, AtForm
<1>8. CutLine.next = n /\ n = l /\ wire = <<>>
  <2>1. AllRead
    BY <1>1, <1>2, <1>6, AtDataFound, AtFormFound
  <2> QED BY <1>1, <1>3, <2>1 DEF AllRead
<1>9. ASSUME NEW x, x = sent.data, sent.upload = upload_file_name, Decide(Good(x))
      PROVE  phase' = "answer" /\ Answered'
  <2>1. linger_ = ("keep-alive" \in Range(sent.headers))
    <3>1. linger_ \in BOOLEAN
      BY DEF Typed, ParserTypeOK
    <3>2. linger_ <=> "keep-alive" \in Range(sent.headers)
      BY <1>7 DEF HeadRead
    <3> QED BY <3>1, <3>2, SameTruth
  <2>2. Expected(sent) = Good(sent.data)
    BY <1>7, <1>9, <2>1 DEF Expected, Good, HeadRead
  <2> QED BY <1>1, <1>2, <1>8, <1>9, <2>2 DEF Decide, Answered
<1>10. sent.upload \in BOOLEAN /\ upload_file_name \in BOOLEAN
  BY <1>3, Announced DEF Typed, ParserTypeOK
<1>11. CASE AtForm
  <2>1. ~upload /\ m = h /\ body_length = d /\ l = h + d /\ \A i \in 1 .. d : b[h + i] = sent.data[i]
    BY <1>4, <1>7, <1>11 DEF AtForm, HeadRead
  <2>2. content = Slice(h, n) /\ h \in 0 .. n /\ n \in 0 .. n /\ n - h = d /\ h <= n
    <3> HIDE DEF n, l, d, h, m
    <3>1. h \in 0 .. n /\ n \in 0 .. n /\ n - h = d /\ h <= n
      BY <1>3, <1>4, <1>5, <1>8, <2>1
    <3> QED BY <1>8, <2>1, <3>1 DEF m
  <2>3. /\ content \in Seq(Symbol) /\ Len(content) = d
        /\ \A i \in 1 .. d : content[i] = read_buffer[h + i]
    <3> DEFINE q == Slice(h, n)
    <3>1. /\ q \in Seq(Symbol) /\ (h <= n => Len(q) = n - h)
          /\ \A i \in 1 .. n - h : q[i] = read_buffer[h + i]
      BY <2>2, SliceType
    <3>2. content = q
      BY <2>2
    <3> HIDE DEF q, content, d
    <3> QED BY <2>2, <3>1, <3>2
  <2>4. \A i \in 1 .. d : content[i] = sent.data[i]
    <3> SUFFICES ASSUME NEW i \in 1 .. d PROVE content[i] = sent.data[i]
      OBVIOUS
    <3>1. content[i] = read_buffer[h + i] /\ b[h + i] = sent.data[i]
      BY <2>1, <2>3
    <3>2. h + i \in 1 .. n
      <4> HIDE DEF h, n, d, l
      <4> QED BY <1>4, <1>5, <1>8, <2>1
    <3> QED BY <1>3, <3>1, <3>2
  <2>5. content = sent.data
    BY <1>5, <2>3, <2>4, SeqEqual
  <2>6. Decide(Good(content))
    BY <1>1, <2>1, <2>3
  <2>7. sent.upload = upload_file_name
    BY <1>10, <1>11 DEF AtForm, NoPart
  <2> HIDE DEF content
  <2> QED BY <1>2, <1>9, <2>5, <2>6, <2>7
<1>12. CASE AtData
  <2> DEFINE p == Start(PartRows, 2) + 2
  <2>1. /\ upload /\ start_boundary /\ mines_count = p /\ body_length = Len(Body(sent))
        /\ m = DataAt(sent) /\ sent.upload /\ upload_file_name
    BY <1>7, <1>12 DEF AtData, HeadRead
  <2>2. /\ p \in Nat /\ Trailer \in Nat /\ Len(Body(sent)) = p + d + Trailer
        /\ \A i \in 1 .. d : Body(sent)[p + i] = sent.data[i]
    BY <1>3, <2>1, UploadIs
  <2> DEFINE t == Len(Body(sent))
  <2> HIDE DEF t, p, d, n, l, h, m, b
  <2>3. rest = d
    <3>1. mines = p + Trailer /\ body_length = p + d + Trailer
      BY <2>1, <2>2
    <3> HIDE DEF mines
    <3> QED BY <1>5, <2>2, <3>1
  <2>4. m = h + p
    <3>1. m = h + Start(PartRows, 2) + 2 /\ Start(PartRows, 2) \in Nat /\ h \in Nat
      BY <1>4, <2>1, PartIs DEF DataAt, h
    <3> QED BY <3>1 DEF p
  <2>5. \A i \in 1 .. d : m + i \in 1 .. n /\ read_buffer[m + i] = sent.data[i]
    <3> SUFFICES ASSUME NEW i \in 1 .. d PROVE m + i \in 1 .. n /\ read_buffer[m + i] = sent.data[i]
      OBVIOUS
    <3>1. l = h + t /\ t = p + d + Trailer /\ \A j \in 1 .. t : b[h + j] = Body(sent)[j]
      BY <1>4, <2>2 DEF t
    <3>2. p + i \in 1 .. t /\ h + (p + i) = m + i /\ m + i \in 1 .. n
      BY <1>3, <1>4, <1>5, <1>8, <2>2, <2>4, <3>1
    <3> QED BY <1>3, <2>2, <3>1, <3>2
  <2>6. data = [i \in 1 .. d |-> sent.data[i]]
    <3>1. \A i \in 1 .. d : (IF m + i <= n THEN read_buffer[m + i] ELSE "0") = sent.data[i]
      <4>1. \A i \in 1 .. d : m + i <= n
        BY <1>3, <2>5
      <4> QED BY <2>5, <4>1
    <3> HIDE DEF rest
    <3> QED BY <2>3, <3>1 DEF m, n
  <2>7. data = sent.data
    <3> DEFINE f == [i \in 1 .. d |-> sent.data[i]]
    <3>1. f \in [1 .. d -> Data] /\ \A i \in 1 .. d : f[i] = sent.data[i]
      BY <1>5
    <3> HIDE DEF f
    <3>2. f \in Seq(Data) /\ Len(f) = d
      BY <1>5, <3>1, FunctionIsSeq
    <3>3. f = sent.data
      BY <1>5, <3>1, <3>2, SeqEqual DEF d
    <3> QED BY <2>6, <3>3 DEF f
  <2>8. Decide(Good(data))
    BY <1>1, <2>1
  <2>9. sent.upload = upload_file_name
    BY <1>10, <2>1
  <2> HIDE DEF data
  <2> QED BY <1>2, <1>9, <2>7, <2>8, <2>9
<1> QED BY <1>6, <1>11, <1>12

(* The next request begins, or the connection ends.                        *)
LEMMA AnswerSynced ==
  ASSUME Typed, Synced, Answer
  PROVE  Synced'
<1>1. CASE /\ phase' = "read" /\ cuts' = {} /\ Reinit
           /\ leftover' = (leftover \/ wire # <<>>)
           /\ sent' \in Request /\ wire' = wire \o Bytes(sent')
  <2> SUFFICES ASSUME Clean' PROVE Streamed' /\ wire' # <<>> /\ Somewhere'
    BY <1>1 DEF Synced
  <2>1. ~leftover'
    BY DEF Clean
  <2>2. wire = <<>>
    <3>1. leftover' <=> leftover \/ wire # <<>>
      BY <1>1, Zenon
    <3> QED BY <2>1, <3>1
  <2>3. wire' = Bytes(sent')
    <3>1. Bytes(sent') \in Seq(Symbol)
      BY <1>1, NotEmpty
    <3> QED BY <1>1, <2>2, <3>1, ConcatEmptySeq
  <2>4. /\ read_buffer' = <<>> /\ main_machine_state' = "LINE"
        /\ main_next_idx' = 0 /\ sub_next_idx' = 0
        /\ ~linger_' /\ ~boundary' /\ body_length' = 0 /\ blank_count' = 0 /\ NoPart'
    BY <1>1 DEF Reinit, NoPart
  <2>5. Streamed' /\ wire' # <<>>
    BY <1>1, <2>3, <2>4, NothingRead DEF Streamed, read_next_idx
  <2>6. AtLine'
    BY <1>1, <2>4, NothingRead DEF AtLine
  <2> QED BY <2>5, <2>6 DEF Somewhere
<1>2. CASE phase' = "closed" /\ UNCHANGED <<wire, read_buffer, place, head, outcome, ghost>>
  BY <1>2, ParsingKeeps DEF Answer, Synced
<1> QED BY <1>1, <1>2 DEF Answer

(* Every step of the parser leaves it in step with the request.            *)
LEMMA SyncedStep ==
  ASSUME Typed, Synced, [ParserNext]_parserVars
  PROVE  Synced'
<1>1. CASE \E k \in 1 .. BufferSize : Receive(k)
  BY <1>1, ReceiveSynced
<1>2. CASE ReceiveNothing
  <2>1. phase = "read" /\ phase' = "closed" /\ UNCHANGED <<wire, read_buffer, ghost>>
    BY <1>2 DEF ReceiveNothing
  <2> QED BY <2>1, ParsingKeeps DEF Synced
<1>3. CASE NotALine
  BY <1>3, NotALineSynced
<1>4. CASE AnalysisLine
  BY <1>4, AnalysisLineSynced
<1>5. CASE AnalysisHeader
  BY <1>5, AnalysisHeaderSynced
<1>6. CASE AnalysisBlank
  BY <1>6, AnalysisBlankSynced
<1>7. CASE AnalysisBody
  BY <1>7, AnalysisBodySynced
<1>8. CASE Answer
  BY <1>8, AnswerSynced
<1>9. CASE UNCHANGED parserVars
  BY <1>9 DEF parserVars, place, head, ghost, Synced, Clean, Streamed, Somewhere, AtLine, AtHeader,
              AtPart, AtData, AtForm, HeadRead, Told, NoPart, Answered, read_next_idx
<1> QED BY <1>1, <1>2, <1>3, <1>4, <1>5, <1>6, <1>7, <1>8, <1>9 DEF ParserNext

(* For any requests, sizes of texts, buffer and cuts: the parser is at the *)
(* place in the request that the bytes it has read lead to.                *)
THEOREM StaysInStep == ParserSpec => [](Typed /\ Synced)
<1>1. ParserInit => Typed /\ Synced
  BY InitTyped, InitSynced
<1>2. Typed /\ Synced /\ [ParserNext]_parserVars => (Typed /\ Synced)'
  BY TypedStep, SyncedStep
<1> QED BY <1>1, <1>2, PTL DEF ParserSpec

-----------------------------------------------------------------------------
(* A GET request has the outcome that reading it whole would have, however *)
(* it is cut and whatever the connection has received before it.           *)
(* (HTTPConnection.cpp:44.)                                                *)
THEOREM GetIsReadAsSent == ParserSpec => []GetAsSent
<1>1. Typed /\ Synced => GetAsSent
  BY DEF Synced, Clean, Answered, GetAsSent
<1> QED BY <1>1, StaysInStep, PTL

(* So have an encoded form and an upload, unless one of the two kinds of   *)
(* cut occurs.  (README.md:8.)                                             *)
THEOREM PostIsReadAsSent == ParserSpec => []PostAsSent
<1>1. Typed /\ Synced => PostAsSent
  BY DEF Synced, Clean, Answered, PostAsSent
<1> QED BY <1>1, StaysInStep, PTL

(* A connection whose client has sent a whole request is not put back to   *)
(* wait, unless one of the two kinds of cut has occurred or the data is    *)
(* not encoded.                                                            *)
THEOREM WaitsForMore == ParserSpec => []NeverWaitsInVain
<1>1. Typed /\ Synced => NeverWaitsInVain
  BY DEF Typed, Synced, Clean, NeverWaitsInVain
<1> QED BY <1>1, StaysInStep, PTL

-----------------------------------------------------------------------------

(* What the stages before the first byte leave for those after it: what    *)
(* length was asked for, what is mapped, and what stays mapped.            *)
Staged ==
  /\ pc \in {"stat", "map"} => code \notin BareCode
  /\ pc = "map" /\ code \in FileCode /\ ~changed /\ file \in Regular => stat = size[file]
  /\ misnamed => code \in Renamed
  /\ pc \in {"respond", "write"} /\ code \in PageCode =>
       map = IF misnamed THEN BadMap ELSE [of |-> PageFile, code |-> code]
  /\ pc \in {"respond", "write"} /\ code \in FileCode =>
       /\ map # NoMap
       /\ ~changed =>
            /\ file \in Regular => stat = size[file]
            /\ map = IF file \in Regular /\ stat > 0
                       THEN [of |-> file, code |-> code] ELSE BadMap
  /\ pc = "write" => count = Parts(code)
  /\ pc = "write" /\ code \in FileCode => whole[2] = stat

(* Released, and what keeps it: the answers without a mapping of their own *)
(* leave the one they found.                                               *)
Kept ==
  pc \in {"idle", "closed"} \/ (pc \in {"respond", "write"} /\ code \in BareCode) =>
    map \in {NoMap, BadMap} \/ failed \/ map.code = "FORBIDDEN"

IInv == TypeOK /\ Accounted /\ Staged /\ Kept

(* The sums over one, two and three parts.                                 *)
LEMMA Sums ==
  ASSUME NEW f
  PROVE  /\ Total(f, 1) = 0 + 0 + f[1] /\ Total(f, 2) = f[1] + 0 + f[2]
         /\ Total(f, 3) = f[1] + f[2] + f[3]
         /\ Ahead(f, 1) = 0 + 0 /\ Ahead(f, 2) = f[1] + 0 /\ Ahead(f, 3) = f[1] + f[2]
BY DEF Total, Ahead

(* UpdateIov gives n bytes to the parts, each in full before the next.     *)
LEMMA UsedInOrder ==
  ASSUME TypeOK, NEW n \in Nat, n <= Total(len, count)
  PROVE  /\ \A i \in Part : Used(i, n) \in 0 .. len[i]
         /\ \A i \in Part : i > count => Used(i, n) = 0
         /\ \A i, j \in 1 .. count : i < j /\ Used(j, n) > 0 => Used(i, n) = len[i]
         /\ count = 1 => Used(1, n) = n
         /\ count = 2 => Used(1, n) + Used(2, n) = n
         /\ count = 3 => Used(1, n) + Used(2, n) + Used(3, n) = n
<1>1. /\ count \in 1 .. 3 /\ len[1] \in Nat /\ len[2] \in Nat /\ len[3] \in Nat
  BY DEF TypeOK, Part
<1>2. /\ count = 1 => n <= len[1]
      /\ count = 2 => n <= len[1] + len[2]
      /\ count = 3 => n <= len[1] + len[2] + len[3]
  BY <1>1, Sums
<1> DEFINE u1 == Least(len[1], n)
           u2 == IF count > 1 THEN Least(len[2], n - u1) ELSE 0
           u3 == IF count > 2 THEN Least(len[3], n - u1 - u2) ELSE 0
<1>3. Used(1, n) = u1 /\ Used(2, n) = u2 /\ Used(3, n) = u3
  BY DEF Used
<1>4. u1 = IF len[1] < n THEN len[1] ELSE n
  BY DEF Least
<1>5. u2 = IF count > 1 THEN IF len[2] < n - u1 THEN len[2] ELSE n - u1 ELSE 0
  BY DEF Least
<1>6. u3 = IF count > 2 THEN IF len[3] < n - u1 - u2 THEN len[3] ELSE n - u1 - u2 ELSE 0
  BY DEF Least
<1> HIDE DEF u1, u2, u3
<1>7. u1 \in 0 .. len[1] /\ u2 \in 0 .. len[2] /\ u3 \in 0 .. len[3]
  BY <1>1, <1>2, <1>4, <1>5, <1>6
<1>8. \A i \in Part : Used(i, n) \in 0 .. len[i]
  BY <1>3, <1>7 DEF Part
<1>9. \A i \in Part : i > count => Used(i, n) = 0
  BY <1>1, <1>3, <1>5, <1>6 DEF Part
<1>10. /\ count > 1 /\ u2 > 0 => u1 = len[1]
       /\ count > 2 /\ u3 > 0 => u1 = len[1] /\ u2 = len[2]
  BY <1>1, <1>4, <1>5, <1>6, <1>7
<1>11. \A i, j \in 1 .. count : i < j /\ Used(j, n) > 0 => Used(i, n) = len[i]
  BY <1>1, <1>3, <1>10
<1>12. /\ count = 1 => u1 = n
       /\ count = 2 => u1 + u2 = n
       /\ count = 3 => u1 + u2 + u3 = n
  BY <1>1, <1>2, <1>4, <1>5, <1>6, <1>7
<1> QED BY <1>3, <1>8, <1>9, <1>11, <1>12

(* writev takes no more than the vectors hold.                             *)
LEMMA ReadableBound ==
  ASSUME IInv, pc = "write"
  PROVE  Readable \in Nat /\ Total(len, count) \in Nat /\ Readable <= Total(len, count)
<1>1. /\ count \in 1 .. 3 /\ len[1] \in Nat /\ len[2] \in Nat /\ len[3] \in Nat
      /\ base[2] \in Nat
  BY DEF IInv, TypeOK, Part
<1>2. Total(len, count) \in Nat /\ (count > 1 => len[1] + len[2] <= Total(len, count))
  BY <1>1, Sums
<1>3. CASE count = 1 \/ map.of = PageFile \/ map = BadMap
  BY <1>2, <1>3 DEF Readable
<1>4. CASE count # 1 /\ map.of # PageFile /\ map # BadMap
  <2>1. code \in FileCode /\ map # NoMap
    BY <1>1, <1>4, InodeAssumption
       DEF IInv, TypeOK, Staged, Parts, Code, PageCode, FileCode, BareCode, PageFile
  <2>2. map.of \in Regular
    BY <2>1, <1>4 DEF IInv, TypeOK
  <2>3. size[map.of] \in Nat
    BY <2>2, PartsAssumption DEF IInv, TypeOK
  <2> QED BY <1>1, <1>2, <1>4, <2>3 DEF Readable
<1> QED BY <1>3, <1>4

(* A round of writev sends the next bytes of the answer: none of a later   *)
(* part can be behind one that is not used up.                             *)
LEMMA AlwaysInTurn ==
  ASSUME IInv, pc = "write", NEW n \in Nat
  PROVE  InTurn(n)
<1>1. /\ count \in 1 .. 3 /\ len[1] \in Nat /\ len[2] \in Nat /\ len[3] \in Nat
      /\ base[1] \in Nat /\ base[2] \in Nat /\ base[3] \in Nat /\ at \in Nat
  BY DEF IInv, TypeOK, Part
<1>2. \A i \in 1 .. count : base[i] + len[i] = whole[i]
  BY DEF IInv, Accounted
<1>3. \A i, j \in 1 .. count : i < j /\ base[j] > 0 => len[i] = 0
  BY DEF IInv, Accounted
<1>4. at = Total(base, count)
  BY DEF IInv, Accounted
<1>5. SUFFICES ASSUME NEW i \in 1 .. count, Piece(i, n) > 0
               PROVE  Ahead(whole, i) + base[i] = at + Ahead(len, i)
  BY <1>1 DEF InTurn
<1>6. len[i] > 0
  BY <1>1, <1>5 DEF Piece, Least
<1>7. \A j \in 1 .. count : i < j => base[j] = 0
  BY <1>1, <1>3, <1>6
<1>8. CASE count = 1
  BY <1>1, <1>2, <1>4, <1>8, Sums
<1>9. CASE count = 2
  <2>1. base[1] + len[1] = whole[1] /\ base[2] + len[2] = whole[2] /\ at = base[1] + base[2]
    BY <1>1, <1>2, <1>4, <1>9, Sums
  <2>2. i = 1 => base[2] = 0
    BY <1>7, <1>9
  <2> QED BY <1>1, <1>9, <2>1, <2>2, Sums
<1>10. CASE count = 3
  <2>1. /\ base[1] + len[1] = whole[1] /\ base[2] + len[2] = whole[2] /\ base[3] + len[3] = whole[3]
        /\ at = base[1] + base[2] + base[3]
    BY <1>1, <1>2, <1>4, <1>10, Sums
  <2>2. /\ i = 1 => base[2] = 0 /\ base[3] = 0
        /\ i = 2 => base[3] = 0
    BY <1>7, <1>10
  <2> QED BY <1>1, <1>10, <2>1, <2>2, Sums
<1> QED BY <1>1, <1>8, <1>9, <1>10

(* What a round of WriteHTTPMessage leaves.                                *)
LEMMA WriteAccounts ==
  ASSUME IInv, NEW n \in Nat, Write(n)
  PROVE  /\ n <= toSend /\ toSend' = toSend - n /\ at' = at + n /\ n > 0
         /\ base' \in [Part -> Nat] /\ len' \in [Part -> Nat]
         /\ \A i \in 1 .. count : base'[i] + len'[i] = whole[i]
         /\ \A i, j \in 1 .. count : i < j /\ base'[j] > 0 => len'[i] = 0
         /\ toSend' = Total(len', count) /\ at' = Total(base', count)
<1>1. /\ count \in 1 .. 3 /\ \A i \in Part : len[i] \in Nat /\ base[i] \in Nat
      /\ at \in Nat
  BY DEF IInv, TypeOK, Part
<1>2. pc = "write" /\ n \in 1 .. Readable
  BY DEF Write
<1>3. n <= Total(len, count) /\ Total(len, count) \in Nat
  BY <1>2, ReadableBound
<1>4. InTurn(n)
  BY <1>2, AlwaysInTurn
<1>5. at' = at + n /\ toSend' = toSend - n
  BY <1>4 DEF Write
<1>6. /\ toSend = Total(len, count) /\ at = Total(base, count)
      /\ \A i \in 1 .. count : base[i] + len[i] = whole[i]
      /\ \A i, j \in 1 .. count : i < j /\ base[j] > 0 => len[i] = 0
  BY <1>2 DEF IInv, Accounted
<1> DEFINE u == [i \in Part |-> Used(i, n)]
<1>7. /\ \A i \in Part : u[i] \in 0 .. len[i]
      /\ \A i, j \in 1 .. count : i < j /\ u[j] > 0 => u[i] = len[i]
      /\ count = 1 => u[1] = n
      /\ count = 2 => u[1] + u[2] = n
      /\ count = 3 => u[1] + u[2] + u[3] = n
  <2>1. IInv => TypeOK
    BY DEF IInv
  <2>2. 1 \in Part /\ 2 \in Part /\ 3 \in Part /\ 1 .. count \subseteq Part
    BY <1>1 DEF Part
  <2> QED BY <1>3, <2>1, <2>2, UsedInOrder
<1>8. /\ base' = [i \in Part |-> base[i] + u[i]] /\ len' = [i \in Part |-> len[i] - u[i]]
  BY DEF Write
<1> HIDE DEF u
<1>9. base' \in [Part -> Nat] /\ len' \in [Part -> Nat]
  BY <1>1, <1>7, <1>8
<1>10. \A i \in Part : base'[i] = base[i] + u[i] /\ len'[i] = len[i] - u[i]
  BY <1>8
<1>11. \A i \in 1 .. count : i \in Part
  BY <1>1 DEF Part
<1>12. \A i \in 1 .. count : base'[i] + len'[i] = whole[i]
  BY <1>1, <1>6, <1>7, <1>10, <1>11
<1>13. \A i, j \in 1 .. count : i < j /\ base'[j] > 0 => len'[i] = 0
  <2> TAKE i, j \in 1 .. count
  <2> HAVE i < j /\ base'[j] > 0
  <2>1. i \in Part /\ j \in Part
    BY <1>11
  <2>2. /\ len[i] \in Nat /\ base[j] \in Nat /\ u[i] \in 0 .. len[i] /\ u[j] \in Nat
        /\ base'[j] = base[j] + u[j] /\ len'[i] = len[i] - u[i]
    BY <2>1, <1>1, <1>7, <1>10
  <2>3. CASE base[j] > 0
    BY <2>2, <2>3, <1>6
  <2>4. CASE u[j] > 0
    BY <2>2, <2>4, <1>7
  <2> QED BY <2>2, <2>3, <2>4
<1>14. toSend' = Total(len', count) /\ at' = Total(base', count)
  <2>1. 1 \in Part /\ 2 \in Part /\ 3 \in Part
    BY DEF Part
  <2> DEFINE l == len'
             b == base'
  <2>2. /\ l[1] = len[1] - u[1] /\ l[2] = len[2] - u[2] /\ l[3] = len[3] - u[3]
        /\ b[1] = base[1] + u[1] /\ b[2] = base[2] + u[2] /\ b[3] = base[3] + u[3]
        /\ u[1] \in Nat /\ u[2] \in Nat /\ u[3] \in Nat
        /\ len[1] \in Nat /\ len[2] \in Nat /\ len[3] \in Nat
        /\ base[1] \in Nat /\ base[2] \in Nat /\ base[3] \in Nat
    BY <2>1, <1>1, <1>7, <1>10
  <2> HIDE DEF l, b
  <2>3. Total(l, count) = Total(len, count) - n /\ Total(b, count) = Total(base, count) + n
    <3>1. CASE count = 1
      BY <3>1, <2>2, <1>2, <1>7, Sums
    <3>2. CASE count = 2
      <4>1. u[1] + u[2] = n
        BY <3>2, <1>7
      <4>2. /\ Total(l, 2) = l[1] + 0 + l[2] /\ Total(len, 2) = len[1] + 0 + len[2]
            /\ Total(b, 2) = b[1] + 0 + b[2] /\ Total(base, 2) = base[1] + 0 + base[2]
        BY Sums
      <4> QED BY <3>2, <4>1, <4>2, <2>2
    <3>3. CASE count = 3
      BY <3>3, <2>2, <1>2, <1>7, Sums
    <3> QED BY <1>1, <3>1, <3>2, <3>3
  <2> QED BY <2>3, <1>5, <1>6 DEF l, b
<1>15. n <= toSend /\ n > 0
  BY <1>2, <1>3, <1>6, ReadableBound
<1> QED BY <1>5, <1>9, <1>12, <1>13, <1>14, <1>15

-----------------------------------------------------------------------------
(* One lemma for each action that does more than move on.                  *)
LEMMA ProcessKeeps ==
  ASSUME IInv, NEW c \in Code, NEW l \in BOOLEAN, Process(c, l)
  PROVE  IInv'
<1>1. TypeOK'
  BY DEF IInv, TypeOK, Process, loaded, iov, seen
<1>2. Accounted' /\ Kept'
  BY DEF IInv, Accounted, Kept, Process, loaded, BareCode
<1>3. Staged'
  BY DEF Staged, Process, PageCode, FileCode, BareCode
<1> QED BY <1>1, <1>2, <1>3 DEF IInv

(* stat(2) keeps the invariant: the length it finds is the file's.         *)
LEMMA StatKeeps ==
  ASSUME IInv, Stat
  PROVE  IInv'
<1>1. stat' \in Nat
  BY PartsAssumption DEF IInv, TypeOK, Stat
<1>2. TypeOK'
  BY <1>1 DEF IInv, TypeOK, Stat, request, iov, disk, seen
<1>3. Accounted' /\ Kept'
  BY DEF IInv, Accounted, Kept, Stat
<1>4. Staged'
  <2>1. code \in FileCode /\ file \in Regular => stat' = size[file]
    BY DEF Stat, PageCode, FileCode, Regular
  <2> QED BY <2>1 DEF IInv, Staged, Stat, request, disk
<1> QED BY <1>2, <1>3, <1>4 DEF IInv

(* open and mmap keep the invariant.                                       *)
LEMMA MapKeeps ==
  ASSUME IInv, Map
  PROVE  IInv'
<1>1. /\ code \in PageCode =>
           map' = IF misnamed THEN BadMap ELSE [of |-> PageFile, code |-> code]
      /\ code \in FileCode =>
           map' = IF file \in Regular /\ stat > 0
                    THEN [of |-> file, code |-> code] ELSE BadMap
  BY DEF Map, PageCode, FileCode
<1>2. code \in PageCode \union FileCode
  BY DEF Map, IInv, TypeOK, Staged, Code
<1>3. TypeOK'
  BY <1>1, <1>2 DEF IInv, TypeOK, Map, request, iov, disk, seen
<1>4. code \in FileCode => map' # NoMap
  BY <1>1, InodeAssumption DEF IInv, TypeOK, NoMap, BadMap, Regular
<1>5. Accounted' /\ Kept'
  BY <1>2 DEF Accounted, Kept, Map, request, PageCode, FileCode, BareCode
<1>6. Staged'
  BY <1>1, <1>2, <1>4
     DEF IInv, TypeOK, Staged, Map, request, iov, disk, seen, PageCode, FileCode, BareCode
<1> QED BY <1>3, <1>5, <1>6 DEF IInv

(* ConstructResponse establishes what the loop of writev relies on.        *)
LEMMA RespondKeeps ==
  ASSUME IInv, Respond
  PROVE  IInv'
<1> DEFINE parts == Parts(code)
           full  == Filled(parts)
<1>1. /\ pc = "respond" /\ pc' = "write" /\ at' = 0
      /\ len' = [i \in Part |-> IF i <= parts THEN full[i] ELSE len[i]]
      /\ base' = [i \in Part |-> IF i <= parts THEN 0 ELSE base[i]]
      /\ count' = parts /\ whole' = full
      /\ parts = 3 => announced' = HeadSize + (stat + Script) /\ toSend' = HeadSize + stat + Script
      /\ parts = 2 => announced' = HeadSize + stat /\ toSend' = HeadSize + stat
      /\ parts = 1 => announced' = HeadSize + Text /\ toSend' = HeadSize + Text
      /\ UNCHANGED <<request, loaded, disk, failed>>
  BY DEF Respond
<1>2. /\ stat \in Nat /\ HeadSize \in Nat /\ HeadSize > 0 /\ Text \in Nat /\ Script \in Nat
      /\ parts \in 1 .. 3
  BY PartsAssumption DEF IInv, TypeOK, Parts
<1>3. /\ full \in [Part -> Nat] /\ full[2] = stat /\ full[3] = Script
      /\ full[1] = IF parts = 1 THEN HeadSize + Text ELSE HeadSize
  BY <1>2 DEF Part, Filled
<1> HIDE DEF parts, full
<1>4. TypeOK'
  <2>1. len' \in [Part -> Nat] /\ base' \in [Part -> Nat] /\ whole' \in [Part -> Nat]
    BY <1>1, <1>3 DEF IInv, TypeOK
  <2>2. announced' \in Nat /\ toSend' \in Nat /\ at' \in Nat /\ count' \in Part
    BY <1>1, <1>2 DEF Part
  <2> QED BY <1>1, <2>1, <2>2 DEF IInv, TypeOK, request, loaded, disk
<1>5. Accounted'
  <2> DEFINE l == len'
             b == base'
             w == whole'
  <2>1. /\ \A i \in 1 .. parts : b[i] = 0 /\ l[i] = full[i] /\ w[i] = full[i]
        /\ \A i \in 1 .. parts : full[i] \in Nat
    BY <1>1, <1>2, <1>3 DEF Part
  <2> HIDE DEF l, b, w
  <2>2. \A i \in 1 .. parts : b[i] + l[i] = w[i]
    BY <2>1
  <2>3. \A i, j \in 1 .. parts : i < j /\ b[j] > 0 => l[i] = 0
    BY <2>1
  <2>4. toSend' = Total(l, parts) /\ toSend' > 0 /\ announced' = Total(w, parts)
        /\ at' = Total(b, parts)
    <3>1. CASE parts = 1
      BY <3>1, <1>1, <1>2, <1>3, <2>1, Sums
    <3>2. CASE parts = 2
      <4>1. l[1] = HeadSize /\ w[1] = HeadSize /\ l[2] = stat /\ w[2] = stat /\ b[1] = 0 /\ b[2] = 0
        BY <3>2, <1>3, <2>1
      <4> QED BY <3>2, <4>1, <1>1, <1>2, Sums
    <3>3. CASE parts = 3
      <4>1. /\ l[1] = HeadSize /\ w[1] = HeadSize /\ l[2] = stat /\ w[2] = stat
            /\ l[3] = Script /\ w[3] = Script /\ b[1] = 0 /\ b[2] = 0 /\ b[3] = 0
        BY <3>3, <1>3, <2>1
      <4> QED BY <3>3, <4>1, <1>1, <1>2, Sums
    <3> QED BY <1>2, <3>1, <3>2, <3>3
  <2> QED BY <1>1, <2>2, <2>3, <2>4 DEF l, b, w, Accounted
<1>6. Staged'
  BY <1>1, <1>3 DEF IInv, Staged, request, loaded, disk, parts
<1>7. Kept'
  BY <1>1 DEF IInv, Kept, request, loaded
<1> QED BY <1>4, <1>5, <1>6, <1>7 DEF IInv

(* A round of writev with UpdateIov keeps the account of the bytes.        *)
LEMMA WriteKeeps ==
  ASSUME IInv, NEW n \in Nat, Write(n)
  PROVE  IInv'
<1>1. /\ n <= toSend /\ toSend' = toSend - n /\ at' = at + n /\ n > 0
      /\ base' \in [Part -> Nat] /\ len' \in [Part -> Nat]
      /\ \A i \in 1 .. count : base'[i] + len'[i] = whole[i]
      /\ \A i, j \in 1 .. count : i < j /\ base'[j] > 0 => len'[i] = 0
      /\ toSend' = Total(len', count) /\ at' = Total(base', count)
  BY WriteAccounts
<1>2. /\ toSend \in Nat /\ at \in Nat /\ announced = Total(whole, count)
  BY DEF IInv, TypeOK, Accounted, Write
<1>3. pc = "write" /\ UNCHANGED <<code, misnamed, stat, count, disk, announced, whole, failed>>
  BY DEF Write
<1>4. \/ toSend' > 0 /\ UNCHANGED <<pc, map, linger>>
      \/ /\ pc' \in {"idle", "closed"} /\ linger' = FALSE
         /\ map' = IF count > 1 THEN NoMap ELSE map
  BY <1>1 DEF Write, Release
<1>5. TypeOK'
  <2>1. toSend' \in Nat /\ at' \in Nat
    BY <1>1, <1>2
  <2>2. /\ pc' \in {"closed", "idle", "write"} /\ linger' \in BOOLEAN /\ map' \in {map, NoMap}
    BY <1>3, <1>4 DEF IInv, TypeOK
  <2> QED BY <1>1, <1>3, <2>1, <2>2 DEF IInv, TypeOK, disk
<1>6. Accounted'
  BY <1>1, <1>2, <1>3, <1>4 DEF Accounted
<1>7. Staged'
  BY <1>3, <1>4 DEF IInv, Staged, disk
<1>8. Kept'
  <2>1. CASE UNCHANGED <<pc, map>>
    BY <2>1, <1>3 DEF IInv, Kept
  <2>2. CASE count > 1 /\ map' = NoMap
    BY <2>2 DEF Kept
  <2>3. CASE ~(count > 1) /\ map' = map
    <3>1. code \in BareCode \/ code = "FORBIDDEN"
      BY <2>3, <1>3 DEF IInv, TypeOK, Staged, Parts, Code, PageCode, FileCode, BareCode
    <3> QED BY <3>1, <2>3, <1>3 DEF IInv, Staged, Kept, PageCode, Renamed
  <2> QED BY <1>4, <2>1, <2>2, <2>3
<1> QED BY <1>5, <1>6, <1>7, <1>8 DEF IInv

(* What others do to the file keeps the invariant.                         *)
LEMMA ChangeKeeps ==
  ASSUME IInv, Change
  PROVE  IInv'
<1>1. /\ changed' = TRUE /\ UNCHANGED <<pc, request, loaded, iov, gone, seen, failed>>
  BY DEF Change
<1>2. file' \in Inode \union {0} /\ size' \in [Regular -> FileSize]
  BY InodeAssumption DEF IInv, TypeOK, Change, Resize, Unlink, Create, Enclose, Regular
<1>3. TypeOK'
  BY <1>1, <1>2 DEF IInv, TypeOK, request, loaded, iov, seen
<1>4. Accounted' /\ Staged' /\ Kept'
  BY <1>1 DEF IInv, Accounted, Staged, Kept, request, loaded, iov, seen
<1> QED BY <1>3, <1>4 DEF IInv

(* The inductive invariant of a connection that answers.                   *)
THEOREM Invariance == Spec => []IInv
<1>1. Init => IInv
  <2> SUFFICES ASSUME Init PROVE IInv
    OBVIOUS
  <2>1. TypeOK
    <3>1. stat \in Nat /\ code \in Code /\ count \in Part /\ pc = "closed"
      BY PartsAssumption DEF Init, Code, PageCode, Part
    <3> QED BY <3>1 DEF Init, TypeOK
  <2> QED BY <2>1 DEF Init, IInv, Accounted, Staged, Kept
<1>2. IInv /\ [Next]_vars => IInv'
  <2> SUFFICES ASSUME IInv, [Next]_vars PROVE IInv'
    OBVIOUS
  <2>1. CASE UNCHANGED vars
    BY <2>1 DEF IInv, TypeOK, Accounted, Staged, Kept, vars, request, loaded, iov, disk, seen
  <2>2. CASE Establish
    BY <2>2 DEF IInv, TypeOK, Accounted, Staged, Kept, Establish, loaded, iov, seen
  <2>3. CASE WriteFail
    BY <2>3 DEF IInv, TypeOK, Accounted, Staged, Kept, WriteFail, request, loaded, iov, disk, seen
  <2>4. CASE Leave
    BY <2>4 DEF IInv, TypeOK, Accounted, Staged, Kept, Leave, request, loaded, iov, seen
  <2>5. ASSUME NEW n \in 1 .. HeadSize + Text + Page + Script + stat, Write(n) PROVE IInv'
    <3>1. n \in Nat
      OBVIOUS
    <3> QED BY <2>5, <3>1, WriteKeeps
  <2> QED
    BY <2>1, <2>2, <2>3, <2>4, <2>5, StatKeeps, MapKeeps, RespondKeeps, ChangeKeeps, ProcessKeeps
       DEF Next
<1> QED BY <1>1, <1>2, PTL DEF Spec

-----------------------------------------------------------------------------
(* The vectors hold exactly what is left of the answer.                    *)
THEOREM AlwaysAccounted == Spec => []Accounted
<1>1. IInv => Accounted
  BY DEF IInv
<1> QED BY <1>1, Invariance, PTL

(* A mapping is left only after a failed writev or by a FORBIDDEN page.    *)
THEOREM AlwaysReleased == Spec => []Released
<1>1. IInv => Released
  BY DEF IInv, Kept, Released
<1> QED BY <1>1, Invariance, PTL

(* A mapping of the whole of a file that did not change can be read.       *)
LEMMA WholeIsReadable ==
  ASSUME IInv, pc = "write", code \in FileCode, ~changed, stat > 0, file \in Regular
  PROVE  Readable = Total(len, count)
<1>1. /\ map = [of |-> file, code |-> code] /\ stat = size[file] /\ whole[2] = stat
      /\ count = Parts(code)
  BY DEF IInv, TypeOK, Staged
<1>2. count = 2
  BY <1>1 DEF Parts, FileCode
<1>3. base[2] + len[2] = whole[2]
  BY <1>2 DEF IInv, Accounted
<1>4. map.of = file /\ BadMap.of = -1 /\ file \in Nat /\ file > 0
  BY <1>1, InodeAssumption DEF BadMap, Regular
<1>5. map # BadMap /\ map.of # PageFile
  BY <1>4 DEF PageFile
<1>6. size[file] \in Nat
  BY PartsAssumption DEF IInv, TypeOK
<1> QED BY <1>1, <1>2, <1>3, <1>4, <1>5, <1>6 DEF Readable

(* A page can always be read to its end, unless its name was written over  *)
(* a longer one; a regular file, if it is there, has bytes and did not     *)
(* change during the request.                                              *)
THEOREM AlwaysExplained == Spec => []UnreadableExplained
<1>1. IInv => UnreadableExplained
  <2> SUFFICES ASSUME IInv, pc = "write", Readable < Total(len, count)
               PROVE  \/ code \in FileCode /\ (changed \/ Unmappable)
                      \/ code \in Renamed /\ misnamed
    BY DEF UnreadableExplained
  <2>1. Total(len, count) \in Nat
    BY ReadableBound
  <2>2. code \in PageCode => misnamed /\ code \in Renamed
    BY <2>1 DEF IInv, Staged, Readable
  <2>3. code \notin BareCode
    BY <2>1 DEF IInv, Staged, Readable, Parts, FileCode, BareCode
  <2>4. CASE code \in FileCode
    <3> SUFFICES ASSUME ~changed, ~Unmappable PROVE FALSE
      BY <2>4
    <3>1. file \in Regular /\ size[file] # 0
      BY DEF Unmappable
    <3>2. stat = size[file] /\ stat \in Nat
      BY <2>4, <3>1 DEF IInv, TypeOK, Staged
    <3>3. Readable = Total(len, count)
      BY <2>4, <3>1, <3>2, WholeIsReadable
    <3> QED BY <2>1, <3>3
  <2> QED BY <2>2, <2>3, <2>4 DEF IInv, TypeOK, Code
<1> QED BY <1>1, Invariance, PTL

(* An answer that is sent to its end carries the whole of the file.        *)
THEOREM SendsWholeFile == Spec => WholeFile
<1> DEFINE Whole ==
      pc = "write" /\ pc' # "write" /\ ~failed' /\ code \in FileCode /\ ~changed
        => file \in Regular /\ whole[2] = size[file]
<1>1. IInv /\ [Next]_vars => [Whole]_vars
  <2> SUFFICES ASSUME IInv, Next,
                      pc = "write", pc' # "write", ~failed', code \in FileCode, ~changed
               PROVE  file \in Regular /\ whole[2] = size[file]
    OBVIOUS
  <2>1. PICK n \in 1 .. HeadSize + Text + Page + Script + stat : Write(n)
    BY DEF Next, Establish, Process, Stat, Map, Respond, WriteFail, Leave, Change
  <2>2. Readable # 0
    BY <2>1 DEF Write
  <2>3. count # 1 /\ map.of # PageFile
    <3>1. count = 2
      BY DEF IInv, Staged, Parts, FileCode
    <3>2. map.of \in Regular \/ map.of = -1
      BY DEF IInv, Staged, BadMap
    <3> QED BY <3>1, <3>2, InodeAssumption DEF PageFile, Regular
  <2>4. map # BadMap
    BY <2>2, <2>3 DEF Readable
  <2> QED BY <2>4 DEF IInv, Staged
<1> QED BY <1>1, Invariance, PTL DEF Spec, WholeFile

(* The client sees a stream of answers: each has the length announced, and *)
(* its bytes come once and in order.                                       *)
THEOREM Refinement == Spec => ImplementsStream
<1>1. Init => Stream!Init
  BY DEF Init, Stream!Init
<1>2. IInv /\ [Next]_vars => [Stream!Next]_Stream!vars
  <2> SUFFICES ASSUME IInv, [Next]_vars PROVE [Stream!Next]_Stream!vars
    OBVIOUS
  <2>1. CASE UNCHANGED vars
    BY <2>1 DEF vars, seen, Stream!vars
  <2>2. CASE Establish
    BY <2>2 DEF Establish, seen, Stream!Next, Stream!Open
  <2>3. ASSUME NEW c \in Code, NEW l \in BOOLEAN, Process(c, l) PROVE UNCHANGED Stream!vars
    BY <2>3 DEF Process, seen, Stream!vars
  <2>4. CASE Stat \/ Map
    BY <2>4 DEF Stat, Map, seen, Stream!vars
  <2>5. CASE Respond
    <3>1. announced' \in Nat /\ at' = 0 /\ pc = "respond" /\ pc' = "write"
      BY <2>5, RespondKeeps DEF IInv, TypeOK, Respond
    <3> QED BY <3>1 DEF Stream!Next, Stream!Begin
  <2>6. CASE WriteFail
    BY <2>6 DEF WriteFail, seen, Stream!Next, Stream!Break
  <2>7. CASE Leave \/ Change
    BY <2>7 DEF Leave, Change, seen, Stream!vars
  <2>8. ASSUME NEW n \in 1 .. HeadSize + Text + Page + Script + stat, Write(n) PROVE Stream!Next
    <3>1. n \in Nat /\ n > 0 /\ n <= toSend /\ at' = at + n
      BY <2>8, WriteAccounts
    <3>2. /\ pc = "write" /\ at \in Nat /\ toSend \in Nat /\ announced \in Nat
          /\ announced = at + toSend
      <4>1. /\ \A i \in 1 .. count : base[i] + len[i] = whole[i]
            /\ toSend = Total(len, count) /\ announced = Total(whole, count)
            /\ at = Total(base, count)
        BY <2>8 DEF Write, IInv, Accounted
      <4>2. /\ count \in 1 .. 3 /\ base[1] \in Nat /\ base[2] \in Nat /\ base[3] \in Nat
            /\ len[1] \in Nat /\ len[2] \in Nat /\ len[3] \in Nat
        BY DEF IInv, TypeOK, Part
      <4>3. Total(whole, count) = Total(base, count) + Total(len, count)
        <5>1. CASE count = 1
          BY <5>1, <4>1, <4>2, Sums
        <5>2. CASE count = 2
          <6>1. whole[1] = base[1] + len[1] /\ whole[2] = base[2] + len[2]
            BY <5>2, <4>1
          <6> QED BY <5>2, <6>1, <4>2, Sums
        <5>3. CASE count = 3
          <6>1. /\ whole[1] = base[1] + len[1] /\ whole[2] = base[2] + len[2]
                /\ whole[3] = base[3] + len[3]
            BY <5>3, <4>1
          <6> QED BY <5>3, <6>1, <4>2, Sums
        <5> QED BY <4>2, <5>1, <5>2, <5>3
      <4> QED BY <2>8, <4>1, <4>3 DEF Write, IInv, TypeOK
    <3>3. UNCHANGED announced
      BY <2>8 DEF Write
    <3>4. CASE toSend - n > 0
      <4>1. pc' = "write"
        BY <2>8, <3>2, <3>4 DEF Write
      <4> QED BY <3>1, <3>2, <3>3, <3>4, <4>1 DEF Stream!Next, Stream!Send
    <3>5. CASE ~(toSend - n > 0)
      <4>1. pc' \in {"idle", "closed"}
        BY <2>8, <3>5 DEF Write
      <4>2. at < announced /\ at' = announced
        BY <3>1, <3>2, <3>5
      <4> QED BY <3>2, <3>3, <4>1, <4>2 DEF Stream!Next, Stream!Finish
    <3> QED BY <3>4, <3>5
  <2> QED BY <2>1, <2>2, <2>3, <2>4, <2>5, <2>6, <2>7, <2>8 DEF Next
<1> QED BY <1>1, <1>2, Invariance, PTL DEF Spec, ImplementsStream, Stream!Spec
=============================================================================
