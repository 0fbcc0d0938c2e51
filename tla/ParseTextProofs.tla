--------------------------- MODULE ParseTextProofs ---------------------------
(***************************************************************************)
(* The theorems about ParseText: a text that is parsed piece by piece is   *)
(* parsed as a whole, an unfinished line is forgotten by silence only, and *)
(* the first metric of a name decides which later ones are refused.        *)
(*                                                                         *)
(* The argument of the first one is a cut: the text of an address is a     *)
(* part that ends with a line, followed by the line the worker keeps.  The *)
(* parser looks back no further than the line a piece belongs to, so what  *)
(* comes after the cut is parsed as if nothing came before it.             *)
(***************************************************************************)
EXTENDS ParseText, WellFoundedInduction, TLAPS

\* A set of numbers has a smallest one.
LEMMA Smallest ==
  ASSUME NEW I \in SUBSET Nat, I # {}
  PROVE  \E i \in I : \A j \in I : i <= j
<1> DEFINE R == OpToRel(<, Nat)
<1>1. PICK i \in I : \A j \in I : ~(<<j, i>> \in R)
  <2>1. IsWellFoundedOn(R, Nat)
    BY Zenon, NatLessThanWellFounded
  <2> HIDE DEF R
  <2> QED
    BY Zenon, <2>1, WFMin
<1>2. R = {ss \in Nat \X Nat : ss[1] < ss[2]}
  BY Zenon DEF OpToRel
<1> HIDE DEF R
<1>3. ASSUME NEW j \in I PROVE i <= j
  <2>1. j < i => <<j, i>> \in R
    BY Zenon, <1>2
  <2> QED
    BY <1>1, <2>1
<1> QED
  BY Zenon, <1>3

-----------------------------------------------------------------------------
(* The unfinished line. *)

\* The positions after which no line ends, and the first of them, where the
\* unfinished line of a text begins.
OpenFrom(buf) == {k \in 1 .. Len(buf) + 1 : \A i \in k .. Len(buf) : ~EndsLine(buf, i)}

First(buf) == CHOOSE k \in OpenFrom(buf) : \A j \in OpenFrom(buf) : k <= j

TooLong(buf) == Len(buf) - First(buf) + 1 > MaxUnparsed

LEMMA UnparsedForm ==
  ASSUME NEW buf
  PROVE  Unparsed(buf) = IF TooLong(buf) THEN <<>> ELSE SubSeq(buf, First(buf), Len(buf))
BY DEF Unparsed, TooLong, First, OpenFrom

LEMMA FirstOpen ==
  ASSUME NEW buf \in Seq(Piece)
  PROVE  First(buf) \in OpenFrom(buf) /\ \A j \in OpenFrom(buf) : First(buf) <= j
<1>1. Len(buf) + 1 \in OpenFrom(buf) /\ OpenFrom(buf) \in SUBSET Nat
  BY DEF OpenFrom
<1>2. \E k \in OpenFrom(buf) : \A j \in OpenFrom(buf) : k <= j
  BY Zenon, <1>1, Smallest
<1> QED
  BY Zenon, <1>2 DEF First

\* The unfinished line begins with the text or after the end of a line.
LEMMA FirstForm ==
  ASSUME NEW buf \in Seq(Piece)
  PROVE  /\ First(buf) \in 1 .. Len(buf) + 1
         /\ \A i \in First(buf) .. Len(buf) : ~EndsLine(buf, i)
         /\ First(buf) = 1 \/ EndsLine(buf, First(buf) - 1)
<1>1. /\ Len(buf) \in Nat /\ First(buf) \in 1 .. Len(buf) + 1
      /\ \A i \in First(buf) .. Len(buf) : ~EndsLine(buf, i)
  BY FirstOpen DEF OpenFrom
<1>2. ASSUME First(buf) # 1, ~EndsLine(buf, First(buf) - 1) PROVE FALSE
  <2>1. First(buf) - 1 \in 1 .. Len(buf) + 1
    BY <1>1, <1>2
  <2>2. \A i \in First(buf) - 1 .. Len(buf) : i = First(buf) - 1 \/ i \in First(buf) .. Len(buf)
    BY <1>1
  <2>3. First(buf) - 1 \in OpenFrom(buf)
    BY Zenon, <1>1, <1>2, <2>1, <2>2 DEF OpenFrom
  <2>4. First(buf) <= First(buf) - 1
    BY Zenon, <2>3, FirstOpen
  <2> QED
    BY <1>1, <2>4
<1> QED
  BY Zenon, <1>1, <1>2

\* These three facts determine the position.
LEMMA FirstUnique ==
  ASSUME NEW buf \in Seq(Piece), NEW k \in 1 .. Len(buf) + 1,
         \A i \in k .. Len(buf) : ~EndsLine(buf, i),
         k = 1 \/ EndsLine(buf, k - 1)
  PROVE  First(buf) = k
<1>1. /\ Len(buf) \in Nat /\ First(buf) \in 1 .. Len(buf) + 1
      /\ \A i \in First(buf) .. Len(buf) : ~EndsLine(buf, i)
      /\ First(buf) = 1 \/ EndsLine(buf, First(buf) - 1)
  BY FirstForm
<1>2. ~(First(buf) < k)
  <2>1. First(buf) < k => k - 1 \in First(buf) .. Len(buf) /\ k # 1
    BY <1>1
  <2> QED
    BY Zenon, <1>1, <2>1
<1>3. ~(k < First(buf))
  <2>1. k < First(buf) => First(buf) - 1 \in k .. Len(buf) /\ First(buf) # 1
    BY <1>1
  <2> QED
    BY Zenon, <1>1, <2>1
<1> QED
  BY <1>1, <1>2, <1>3

-----------------------------------------------------------------------------
(* A text after a cut. *)

\* q is what follows the first n pieces of x, and no line goes across.
Cut(x, n, q) ==
    /\ n \in Nat /\ Len(x) = n + Len(q)
    /\ \A i \in 1 .. Len(q) : q[i] = x[n + i]
    /\ n = 0 \/ EndsLine(x, n)

LEMMA CutFirst ==
  ASSUME NEW x \in Seq(Piece), NEW q \in Seq(Piece), NEW n, Cut(x, n, q)
  PROVE  First(x) = n + First(q)
<1>1. /\ Len(q) \in Nat /\ First(q) \in 1 .. Len(q) + 1
      /\ \A i \in First(q) .. Len(q) : ~EndsLine(q, i)
      /\ First(q) = 1 \/ EndsLine(q, First(q) - 1)
  BY FirstForm
<1>2. /\ n \in Nat /\ Len(x) = n + Len(q)
      /\ n = 0 \/ EndsLine(x, n)
      /\ \A i \in 1 .. Len(q) : q[i] = x[n + i]
  BY DEF Cut
<1>3. \A i \in 1 .. Len(q) : EndsLine(x, n + i) <=> EndsLine(q, i)
  BY Zenon, <1>2 DEF EndsLine
<1>4. n + First(q) \in 1 .. Len(x) + 1
  BY <1>1, <1>2
<1>5. ASSUME NEW i \in n + First(q) .. Len(x) PROVE ~EndsLine(x, i)
  <2>1. i - n \in First(q) .. Len(q) /\ i - n \in 1 .. Len(q) /\ n + (i - n) = i
    BY <1>1, <1>2
  <2> QED
    BY <1>1, <1>3, <2>1
<1>6. n + First(q) = 1 \/ EndsLine(x, (n + First(q)) - 1)
  <2>1. CASE First(q) = 1
    <3>1. (n + First(q)) - 1 = n /\ (n = 0 => n + First(q) = 1)
      BY <1>2, <2>1
    <3> QED
      BY Zenon, <1>2, <3>1
  <2>2. CASE First(q) # 1
    <3>1. First(q) - 1 \in 1 .. Len(q) /\ n + (First(q) - 1) = (n + First(q)) - 1
      BY <1>1, <1>2, <2>2
    <3> QED
      BY <1>1, <1>3, <2>2, <3>1
  <2> QED
    BY Zenon, <2>1, <2>2
<1> DEFINE k == n + First(q)
<1>7. /\ k \in 1 .. Len(x) + 1 /\ \A i \in k .. Len(x) : ~EndsLine(x, i)
      /\ k = 1 \/ EndsLine(x, k - 1)
  BY Zenon, <1>4, <1>5, <1>6
<1> HIDE DEF k
<1>8. First(x) = k
  BY <1>7, FirstUnique
<1> QED
  BY Zenon, <1>8 DEF k

\* What the worker keeps of a text is what it keeps of the part after a cut.
LEMMA CutUnparsed ==
  ASSUME NEW x \in Seq(Piece), NEW q \in Seq(Piece), NEW n, Cut(x, n, q)
  PROVE  (TooLong(x) <=> TooLong(q)) /\ Unparsed(x) = Unparsed(q)
<1>1. /\ n \in Nat /\ Len(q) \in Nat /\ Len(x) = n + Len(q) /\ First(x) = n + First(q)
      /\ First(q) \in 1 .. Len(q) + 1 /\ \A i \in 1 .. Len(q) : q[i] = x[n + i]
  BY CutFirst, FirstForm DEF Cut
<1>2. TooLong(x) <=> TooLong(q)
  BY <1>1, ConstantsAssumption DEF TooLong
<1>3. SubSeq(x, First(x), Len(x)) = SubSeq(q, First(q), Len(q))
  <2>0. First(x) \in 1 .. Len(x) + 1 /\ Len(x) \in Nat
    BY FirstForm
  <2>1. /\ Len(SubSeq(x, First(x), Len(x))) = Len(q) - First(q) + 1
        /\ \A i \in 1 .. Len(q) - First(q) + 1 : SubSeq(x, First(x), Len(x))[i] = x[First(x) + i - 1]
    <3>1. Len(x) - First(x) + 1 = Len(q) - First(q) + 1
      BY <1>1
    <3>2. /\ Len(SubSeq(x, First(x), Len(x))) = Len(x) - First(x) + 1
          /\ \A i \in 1 .. Len(x) - First(x) + 1 : SubSeq(x, First(x), Len(x))[i] = x[First(x) + i - 1]
      BY <2>0
    <3> QED
      BY Zenon, <3>1, <3>2
  <2>2. /\ Len(SubSeq(q, First(q), Len(q))) = Len(q) - First(q) + 1
        /\ \A i \in 1 .. Len(q) - First(q) + 1 : SubSeq(q, First(q), Len(q))[i] = q[First(q) + i - 1]
    BY <1>1
  <2>3. \A i \in 1 .. Len(q) - First(q) + 1 : x[First(x) + i - 1] = q[First(q) + i - 1]
    <3> TAKE i \in 1 .. Len(q) - First(q) + 1
    <3>1. First(q) + i - 1 \in 1 .. Len(q) /\ First(x) + i - 1 = n + (First(q) + i - 1)
      BY <1>1
    <3> QED
      BY Zenon, <1>1, <3>1
  <2>4. SubSeq(x, First(x), Len(x)) \in Seq(Piece) /\ SubSeq(q, First(q), Len(q)) \in Seq(Piece)
    BY <1>1
  <2> DEFINE u == SubSeq(x, First(x), Len(x))
             v == SubSeq(q, First(q), Len(q))
  <2>5. Len(u) = Len(v) /\ u \in Seq(Piece) /\ v \in Seq(Piece) /\ \A i \in 1 .. Len(u) : u[i] = v[i]
    BY Zenon, <2>1, <2>2, <2>3, <2>4
  <2> HIDE DEF u, v
  <2>6. u = v
    BY <2>5
  <2> QED
    BY Zenon, <2>6 DEF u, v
<1> QED
  BY Zenon, <1>2, <1>3, UnparsedForm

\* A line after a cut is a metric, or broken, as if nothing came before.
LEMMA CutParses ==
  ASSUME NEW x \in Seq(Piece), NEW q \in Seq(Piece), NEW n, Cut(x, n, q), NEW i \in 1 .. Len(q)
  PROVE  /\ EndsLine(x, n + i) <=> EndsLine(q, i)
         /\ Parses(x, n + i) <=> Parses(q, i)
<1>1. /\ n \in Nat /\ Len(q) \in Nat /\ Len(x) = n + Len(q)
      /\ n = 0 \/ EndsLine(x, n)
      /\ \A j \in 1 .. Len(q) : q[j] = x[n + j]
  BY DEF Cut
<1>2. \A j \in 1 .. Len(q) : EndsLine(x, n + j) <=> EndsLine(q, j)
  BY Zenon, <1>1 DEF EndsLine
<1>3. \A j \in 1 .. Len(q) : StartsLine(x, n + j) <=> StartsLine(q, j)
  <2> TAKE j \in 1 .. Len(q)
  <2>1. CASE j = 1
    <3>1. (n + j) - 1 = n /\ (n + j = 1 <=> n = 0)
      BY <1>1, <2>1
    <3> QED
      BY Zenon, <1>1, <2>1, <3>1 DEF StartsLine
  <2>2. CASE j # 1
    <3>1. j - 1 \in 1 .. Len(q) /\ n + (j - 1) = (n + j) - 1 /\ n + j # 1
      BY <1>1, <2>2
    <3> QED
      BY <1>2, <2>2, <3>1 DEF StartsLine
  <2> QED
    BY Zenon, <2>1, <2>2
<1>4. Parses(x, n + i) <=> Parses(q, i)
  <2>1. CASE i = 1
    <3>1. (n + i) - 1 = n /\ ~(i > 1) /\ n + i \in Nat
      BY <1>1, <2>1
    <3>2. ASSUME n + i > 1, x[(n + i) - 1] = HeadOf(x[n + i].of) PROVE FALSE
      <4>1. n # 0
        BY <1>1, <2>1, <3>2
      <4>2. x[n].part # "head"
        BY Zenon, <1>1, <4>1 DEF EndsLine
      <4> QED
        BY <3>1, <3>2, <4>2 DEF HeadOf
    <3> QED
      BY Zenon, <1>1, <1>3, <3>1, <3>2 DEF Parses
  <2>2. CASE i # 1
    <3>1. i - 1 \in 1 .. Len(q) /\ n + (i - 1) = (n + i) - 1 /\ n + i > 1 /\ i > 1
      BY <1>1, <2>2
    <3>2. x[(n + i) - 1] = q[i - 1] /\ (StartsLine(x, (n + i) - 1) <=> StartsLine(q, i - 1))
      BY <1>1, <1>3, <3>1
    <3> QED
      BY Zenon, <1>1, <1>3, <3>1, <3>2 DEF Parses
  <2> QED
    BY Zenon, <2>1, <2>2
<1> QED
  BY Zenon, <1>2, <1>4

-----------------------------------------------------------------------------
(* New text after what the worker keeps. *)

\* The samples of the lines the parser yields.
Lines(buf) == {Parsed(buf)[i] : i \in DOMAIN Parsed(buf)}

LEMMA LinesForm ==
  ASSUME NEW buf
  PROVE  Lines(buf) = {buf[i].of : i \in {j \in 1 .. Len(buf) : Parses(buf, j)}}
BY DEF Lines, Parsed

\* The unfinished line of t, which the worker keeps.
LastLine(t) == SubSeq(t, First(t), Len(t))

\* New text d read after the unfinished line of t is the end of the whole text.
LEMMA KeptCut ==
  ASSUME NEW t \in Seq(Piece), NEW d \in Seq(Piece)
  PROVE  /\ LastLine(t) \in Seq(Piece) /\ LastLine(t) \o d \in Seq(Piece) /\ t \o d \in Seq(Piece)
         /\ Cut(t \o d, First(t) - 1, LastLine(t) \o d)
<1> DEFINE r == LastLine(t)
           q == r \o d
           x == t \o d
           n == First(t) - 1
<1>1. /\ Len(t) \in Nat /\ First(t) \in 1 .. Len(t) + 1
      /\ First(t) = 1 \/ EndsLine(t, First(t) - 1)
  BY FirstForm
<1>2. /\ r \in Seq(Piece) /\ Len(r) = Len(t) - First(t) + 1
      /\ \A i \in 1 .. Len(t) - First(t) + 1 : r[i] = t[First(t) + i - 1]
  BY <1>1 DEF LastLine
<1> HIDE DEF r
<1>3. x \in Seq(Piece) /\ q \in Seq(Piece) /\ Len(d) \in Nat
  BY <1>2
<1>4. n \in Nat /\ Len(x) = n + Len(q)
  <2>1. r \in Seq(Piece)
    BY Zenon, <1>2
  <2>2. Len(x) = Len(t) + Len(d) /\ Len(q) = Len(r) + Len(d)
    BY ONLY <2>1, t \in Seq(Piece), d \in Seq(Piece)
  <2>3. First(t) \in Nat /\ Len(r) = Len(t) - First(t) + 1
    BY <1>1, <1>2
  <2> HIDE DEF x, q
  <2> QED
    BY <1>1, <1>3, <2>2, <2>3
<1>5. ASSUME NEW i \in 1 .. Len(q) PROVE q[i] = x[n + i]
  <2>1. CASE i <= Len(r)
    <3>1. i \in 1 .. Len(t) - First(t) + 1 /\ n + i = First(t) + i - 1 /\ n + i \in 1 .. Len(t)
      BY <1>1, <1>2, <2>1
    <3>2. q[i] = r[i] /\ x[n + i] = t[n + i]
      BY <1>2, <2>1, <3>1
    <3> QED
      BY <1>2, <3>1, <3>2
  <2>2. CASE ~(i <= Len(r))
    <3>1. q[i] = d[i - Len(r)]
      BY <1>2, <2>2
    <3>2. /\ n + i \in 1 .. Len(t) + Len(d) /\ ~(n + i <= Len(t))
          /\ (n + i) - Len(t) = i - Len(r)
      BY <1>1, <1>2, <1>3, <2>2
    <3>3. x[n + i] = d[(n + i) - Len(t)]
      BY <3>2
    <3> QED
      BY Zenon, <3>1, <3>2, <3>3
  <2> QED
    BY Zenon, <2>1, <2>2
<1>6. n = 0 \/ EndsLine(x, n)
  <2>1. n = 0 \/ (n \in 1 .. Len(t) /\ EndsLine(t, n))
    BY <1>1
  <2>2. n \in 1 .. Len(t) => x[n] = t[n]
    OBVIOUS
  <2> QED
    BY Zenon, <2>1, <2>2 DEF EndsLine
<1> HIDE DEF q, x, n
<1>7. Cut(x, n, q)
  BY Zenon, <1>4, <1>5, <1>6 DEF Cut
<1> QED
  BY Zenon, <1>2, <1>3, <1>7 DEF q, x, n, r

\* The lines of earlier text are not changed by what comes later.
LEMMA PrefixParses ==
  ASSUME NEW t \in Seq(Piece), NEW d \in Seq(Piece), NEW i \in 1 .. Len(t)
  PROVE  /\ (t \o d)[i] = t[i]
         /\ EndsLine(t \o d, i) <=> EndsLine(t, i)
         /\ Parses(t \o d, i) <=> Parses(t, i)
<1> DEFINE x == t \o d
<1>1. \A j \in 1 .. Len(t) : x[j] = t[j]
  OBVIOUS
<1>2. i # 1 => i - 1 \in 1 .. Len(t) /\ i > 1
  OBVIOUS
<1>3. i - 1 # 1 /\ i # 1 => i - 1 - 1 \in 1 .. Len(t)
  OBVIOUS
<1>4. ~(1 > 1)
  OBVIOUS
<1> HIDE DEF x
<1>5. \A j \in 1 .. Len(t) : EndsLine(x, j) <=> EndsLine(t, j)
  BY Zenon, <1>1 DEF EndsLine
<1>6. StartsLine(x, i) <=> StartsLine(t, i)
  BY Zenon, <1>2, <1>5 DEF StartsLine
<1>7. i # 1 => (StartsLine(x, i - 1) <=> StartsLine(t, i - 1))
  BY Zenon, <1>3, <1>5 DEF StartsLine
<1>8. Parses(x, i) <=> Parses(t, i)
  <2>1. CASE i = 1
    BY Zenon, <1>1, <1>4, <1>6, <2>1 DEF Parses
  <2>2. CASE i # 1
    BY Zenon, <1>1, <1>2, <1>6, <1>7, <2>2 DEF Parses
  <2> QED
    BY Zenon, <2>1, <2>2
<1> QED
  BY Zenon, <1>1, <1>5, <1>8 DEF x

\* What the parser makes of the whole text it made of the earlier text or
\* makes of the unfinished line and the new text.
LEMMA WholeText ==
  ASSUME NEW t \in Seq(Piece), NEW d \in Seq(Piece)
  PROVE  /\ Lines(t \o d) \subseteq Lines(t) \cup Lines(LastLine(t) \o d)
         /\ Broken(t \o d) \subseteq Broken(t) \cup Broken(LastLine(t) \o d)
<1> DEFINE q == LastLine(t) \o d
           x == t \o d
           n == First(t) - 1
<1>1. x \in Seq(Piece) /\ q \in Seq(Piece) /\ Cut(x, n, q)
  BY Zenon, KeptCut
<1>2. \A i \in 1 .. Len(t) : /\ x[i] = t[i]
                             /\ EndsLine(x, i) <=> EndsLine(t, i)
                             /\ Parses(x, i) <=> Parses(t, i)
  BY Zenon, PrefixParses
<1>3. n \in Nat /\ n <= Len(t) /\ Len(t) \in Nat
  BY FirstForm
<1> HIDE DEF q, x, n
<1>4. Len(x) = n + Len(q) /\ \A i \in 1 .. Len(q) : q[i] = x[n + i]
  BY Zenon, <1>1 DEF Cut
<1>5. \A i \in 1 .. Len(q) : /\ EndsLine(x, n + i) <=> EndsLine(q, i)
                             /\ Parses(x, n + i) <=> Parses(q, i)
  BY Zenon, <1>1, CutParses
<1>6. ASSUME NEW i \in 1 .. Len(x)
      PROVE  i \in 1 .. Len(t) \/ (i - n \in 1 .. Len(q) /\ n + (i - n) = i)
  <2>1. Len(q) \in Nat
    BY <1>1
  <2> QED
    BY <1>3, <1>4, <2>1
<1>7. ASSUME NEW i \in 1 .. Len(x)
      PROVE  \/ \E j \in 1 .. Len(t) : /\ x[i] = t[j]
                                       /\ EndsLine(x, i) <=> EndsLine(t, j)
                                       /\ Parses(x, i) <=> Parses(t, j)
             \/ \E j \in 1 .. Len(q) : /\ x[i] = q[j]
                                       /\ EndsLine(x, i) <=> EndsLine(q, j)
                                       /\ Parses(x, i) <=> Parses(q, j)
  <2>1. CASE i \in 1 .. Len(t)
    BY Zenon, <1>2, <2>1
  <2>2. CASE i - n \in 1 .. Len(q) /\ n + (i - n) = i
    <3> DEFINE j == i - n
    <3>1. j \in 1 .. Len(q) /\ n + j = i
      BY Zenon, <2>2
    <3> HIDE DEF j
    <3> QED
      BY Zenon, <1>4, <1>5, <3>1
  <2> QED
    BY Zenon, <1>6, <2>1, <2>2
<1>8. ASSUME NEW s \in Lines(x) PROVE s \in Lines(t) \cup Lines(q)
  <2>1. PICK i \in 1 .. Len(x) : Parses(x, i) /\ s = x[i].of
    BY Zenon, <1>8, LinesForm
  <2>2. \A j \in 1 .. Len(t) : Parses(t, j) => t[j].of \in Lines(t)
    BY Zenon, LinesForm
  <2>3. \A j \in 1 .. Len(q) : Parses(q, j) => q[j].of \in Lines(q)
    BY Zenon, LinesForm
  <2> QED
    BY Zenon, <1>7, <2>1, <2>2, <2>3
<1>9. Broken(x) \subseteq Broken(t) \cup Broken(q)
  BY Zenon, <1>7 DEF Broken
<1> QED
  BY Zenon, <1>8, <1>9 DEF q, x

-----------------------------------------------------------------------------
(* The inductive invariant. *)

TextTypes ==
    /\ queue \in [Worker -> Seq(Task)]
    /\ short \in [Worker -> SUBSET Sample]
    /\ long \in [Worker -> SUBSET Sample]
    /\ lost \in [Counter -> SUBSET Sample]
    /\ buffers \in [Worker -> [Addr -> [times : 0 .. MaxTimes - 1, data : Seq(Piece)] \cup {NoBuffer}]]
    /\ text \in [Worker -> [Addr -> Seq(Piece)]]
    /\ idle \in [Worker -> [Addr -> 0 .. MaxTimes]]

\* PiecewiseIsWhole for one worker and address.
WholeAt(w, a) ==
    /\ Kept(w, a) = Unparsed(text[w][a])
    /\ Lines(text[w][a]) \subseteq short[w] \cup lost["AGG_ERRORS"]
    /\ Broken(text[w][a]) \subseteq lost["PARSE_ERRORS"]

\* The entry of an address counts the rotations since its last text.
AgeAt(w, a) ==
    idle[w][a] = IF buffers[w][a] = NoBuffer THEN MaxTimes ELSE buffers[w][a].times

\* The line the worker keeps is the whole unfinished line: a text whose last
\* line was given up is no longer part of the history.
TextInv ==
    /\ TextTypes
    /\ \A w \in Worker, a \in Addr : WholeAt(w, a) /\ AgeAt(w, a) /\ ~TooLong(text[w][a])

LEMMA EmptyText ==
  /\ <<>> \in Seq(Piece) /\ First(<<>>) = 1 /\ ~TooLong(<<>>)
  /\ Unparsed(<<>>) = <<>> /\ Lines(<<>>) = {} /\ Broken(<<>>) = {}
<1>1. <<>> \in Seq(Piece) /\ Len(<<>>) = 0
  OBVIOUS
<1>2. First(<<>>) = 1
  <2>1. First(<<>>) \in 1 .. Len(<<>>) + 1
    BY Zenon, <1>1, FirstForm
  <2> QED
    BY <1>1, <2>1
<1>3. ~TooLong(<<>>)
  BY <1>1, <1>2, ConstantsAssumption DEF TooLong
<1>4. Unparsed(<<>>) = SubSeq(<<>>, 1, 0)
  BY Zenon, <1>1, <1>2, <1>3, UnparsedForm
<1>5. SubSeq(<<>>, 1, 0) = <<>>
  OBVIOUS
<1>6. 1 .. Len(<<>>) = {}
  BY <1>1
<1>7. Lines(<<>>) = {}
  BY Zenon, <1>6, LinesForm
<1>8. Broken(<<>>) = {}
  BY Zenon, <1>6 DEF Broken
<1> QED
  BY Zenon, <1>1, <1>2, <1>3, <1>4, <1>5, <1>7, <1>8

LEMMA PieceFacts ==
  ASSUME NEW buf \in Seq(Piece)
  PROVE  Lines(buf) \subseteq Sample /\ Broken(buf) \subseteq Sample /\ Unparsed(buf) \in Seq(Piece)
<1>1. \A b \in Piece : b.of \in Sample
  BY ConstantsAssumption DEF Piece, EndOf, HeadOf
<1>2. \A i \in 1 .. Len(buf) : buf[i] \in Piece
  OBVIOUS
<1>3. Lines(buf) \subseteq Sample
  BY Zenon, <1>1, <1>2, LinesForm
<1>4. Broken(buf) \subseteq Sample
  BY Zenon, <1>1, <1>2 DEF Broken
<1>5. SubSeq(buf, First(buf), Len(buf)) \in Seq(Piece)
  BY FirstForm
<1> QED
  BY Zenon, <1>3, <1>4, <1>5, EmptyText, UnparsedForm

\* The parser gives up on an unfinished line exactly if it is too long.
LEMMA GivesUp ==
  ASSUME NEW buf \in Seq(Piece)
  PROVE  Unparsed(buf) = <<>> /\ buf # <<>> /\ ~EndsLine(buf, Len(buf)) <=> TooLong(buf)
<1>1. /\ Len(buf) \in Nat /\ First(buf) \in 1 .. Len(buf) + 1
      /\ \A i \in First(buf) .. Len(buf) : ~EndsLine(buf, i)
      /\ First(buf) = 1 \/ EndsLine(buf, First(buf) - 1)
  BY FirstForm
<1>2. ASSUME TooLong(buf)
      PROVE  Unparsed(buf) = <<>> /\ buf # <<>> /\ ~EndsLine(buf, Len(buf))
  <2>1. First(buf) <= Len(buf)
    BY <1>1, <1>2, ConstantsAssumption DEF TooLong
  <2>2. Len(buf) \in First(buf) .. Len(buf) /\ Len(buf) # 0
    BY <1>1, <2>1
  <2>3. buf # <<>>
    BY <2>2
  <2> QED
    BY Zenon, <1>1, <1>2, <2>2, <2>3, UnparsedForm
<1>3. ASSUME ~TooLong(buf), Unparsed(buf) = <<>>, buf # <<>>
      PROVE  EndsLine(buf, Len(buf))
  <2>1. Len(SubSeq(buf, First(buf), Len(buf))) = Len(buf) - First(buf) + 1
    BY <1>1
  <2>2. SubSeq(buf, First(buf), Len(buf)) = <<>>
    BY Zenon, <1>3, UnparsedForm
  <2>3. Len(buf) - First(buf) + 1 = 0
    BY <2>1, <2>2
  <2>4. Len(buf) # 0
    BY <1>3
  <2>5. First(buf) # 1 /\ First(buf) - 1 = Len(buf)
    BY <1>1, <2>3, <2>4
  <2> QED
    BY Zenon, <1>1, <2>5
<1> QED
  BY Zenon, <1>2, <1>3

LEMMA Refusal ==
  ASSUME NEW cache, NEW buf
  PROVE  /\ Admitted(cache, Parsed(buf)) \subseteq Lines(buf)
         /\ Admitted(cache, Parsed(buf)) \cup Refused(cache, Parsed(buf)) = Lines(buf)
<1>1. Admitted(cache, Parsed(buf)) \subseteq Lines(buf)
  BY Zenon DEF Admitted, Lines
<1> QED
  BY Zenon, <1>1 DEF Refused, Lines

-----------------------------------------------------------------------------
(* Every step keeps it. *)

\* Text of one address says nothing about another one.
LEMMA OthersKept ==
  ASSUME NEW w \in Worker, NEW a \in Addr,
         WholeAt(w, a), AgeAt(w, a), ~TooLong(text[w][a]),
         buffers'[w][a] = buffers[w][a], text'[w][a] = text[w][a], idle'[w][a] = idle[w][a],
         short[w] \subseteq short'[w], \A c \in Counter : lost[c] \subseteq lost'[c]
  PROVE  WholeAt(w, a)' /\ AgeAt(w, a)' /\ ~TooLong(text'[w][a])
<1>1. lost["AGG_ERRORS"] \subseteq lost'["AGG_ERRORS"] /\ lost["PARSE_ERRORS"] \subseteq lost'["PARSE_ERRORS"]
  BY Zenon DEF Counter
<1>2. Kept(w, a)' = Kept(w, a)
  BY Zenon DEF Kept
<1>3. WholeAt(w, a)'
  BY Zenon, <1>1, <1>2 DEF WholeAt
<1>4. AgeAt(w, a)'
  BY Zenon DEF AgeAt
<1> QED
  BY Zenon, <1>3, <1>4

LEMMA InitText == Init => TextInv
<1> SUFFICES ASSUME Init PROVE TextInv
  OBVIOUS
<1>1. TextTypes
  <2>1. MaxTimes \in 0 .. MaxTimes
    BY ConstantsAssumption
  <2>2. <<>> \in Seq(Task) /\ <<>> \in Seq(Piece)
    OBVIOUS
  <2> QED
    BY Zenon, <2>1, <2>2 DEF Init, RunnerInit, TextTypes
<1>2. ASSUME NEW w \in Worker, NEW a \in Addr
      PROVE  WholeAt(w, a) /\ AgeAt(w, a) /\ ~TooLong(text[w][a])
  <2>1. text[w][a] = <<>> /\ buffers[w][a] = NoBuffer /\ idle[w][a] = MaxTimes
    BY Zenon DEF Init, RunnerInit
  <2> QED
    BY Zenon, <2>1, EmptyText DEF WholeAt, AgeAt, Kept
<1> QED
  BY Zenon, <1>1, <1>2 DEF TextInv

LEMMA ReceiveKeeps ==
  ASSUME TextInv, ReceiveText
  PROVE  TextInv'
<1>1. PICK p \in Route, d \in Data : SendParse(p[2], p[1], d) /\ UNCHANGED history
  BY Zenon DEF ReceiveText
<1>2. p[1] \in Addr /\ p[2] \in Worker /\ d \in Seq(Piece)
  BY DataAssumption
<1> DEFINE t == [kind |-> "Parse", addr |-> p[1], data |-> d]
<1>3. t \in Task
  BY Zenon, <1>2 DEF Task
<1> HIDE DEF t
<1>4. Ends(d) \subseteq Sample
  BY Zenon DEF Ends
<1>5. queue' \in [Worker -> Seq(Task)]
  <2>1. queue' = queue \/ queue' = [queue EXCEPT ![p[2]] = Append(@, t)]
    BY Zenon, <1>1 DEF SendParse, Enqueue, t
  <2>2. \A s \in Seq(Task) : Append(s, t) \in Seq(Task)
    BY <1>3
  <2>3. queue \in [Worker -> Seq(Task)]
    BY Zenon DEF TextInv, TextTypes
  <2> QED
    BY Zenon, <1>2, <2>1, <2>2, <2>3
<1>6. lost' \in [Counter -> SUBSET Sample] /\ \A c \in Counter : lost[c] \subseteq lost'[c]
  <2>1. lost \in [Counter -> SUBSET Sample]
    BY Zenon DEF TextInv, TextTypes
  <2>2. lost' = lost \/ lost' = [lost EXCEPT !["DROPS"] = @ \cup Ends(d)]
    BY Zenon, <1>1 DEF SendParse, Lose
  <2> QED
    BY <1>4, <2>1, <2>2
<1>7. /\ buffers' = buffers /\ text' = text /\ idle' = idle
      /\ short' = short /\ long' = long
  BY Zenon, <1>1 DEF SendParse, history
<1>8. TextTypes'
  BY Zenon, <1>5, <1>6, <1>7 DEF TextInv, TextTypes
<1>9. ASSUME NEW w \in Worker, NEW a \in Addr
      PROVE  WholeAt(w, a)' /\ AgeAt(w, a)' /\ ~TooLong(text'[w][a])
  BY Zenon, <1>6, <1>7, OthersKept DEF TextInv
<1> QED
  BY Zenon, <1>8, <1>9 DEF TextInv

LEMMA AskKeeps ==
  ASSUME TextInv, NEW w \in Worker, NEW r \in Round, AskRotate(w, r)
  PROVE  TextInv'
<1> DEFINE t == [kind |-> "Rotate", round |-> r]
<1>1. t \in Task
  BY Zenon DEF Task
<1> HIDE DEF t
<1>2. queue' \in [Worker -> Seq(Task)]
  <2>1. queue' = [queue EXCEPT ![w] = Append(@, t)]
    BY Zenon DEF AskRotate, Enqueue, t
  <2>2. \A s \in Seq(Task) : Append(s, t) \in Seq(Task)
    BY <1>1
  <2>3. queue \in [Worker -> Seq(Task)]
    BY Zenon DEF TextInv, TextTypes
  <2> QED
    BY <2>1, <2>2, <2>3
<1>3. /\ buffers' = buffers /\ text' = text /\ idle' = idle
      /\ short' = short /\ long' = long /\ lost' = lost
  BY Zenon DEF AskRotate, history
<1>4. TextTypes'
  BY Zenon, <1>2, <1>3 DEF TextInv, TextTypes
<1>5. ASSUME NEW v \in Worker, NEW a \in Addr
      PROVE  WholeAt(v, a)' /\ AgeAt(v, a)' /\ ~TooLong(text'[v][a])
  BY Zenon, <1>3, OthersKept DEF TextInv
<1> QED
  BY Zenon, <1>4, <1>5 DEF TextInv

LEMMA TailType ==
  ASSUME NEW w \in Worker, queue \in [Worker -> Seq(Task)], NEW kind, TakeTask(w, kind)
  PROVE  queue' \in [Worker -> Seq(Task)] /\ Head(queue[w]) \in Task /\ Head(queue[w]).kind = kind
<1>1. /\ queue[w] \in Seq(Task) /\ queue[w] # <<>> /\ queue' = [queue EXCEPT ![w] = Tail(@)]
      /\ Head(queue[w]).kind = kind
  BY Zenon DEF TakeTask
<1>2. Tail(queue[w]) \in Seq(Task) /\ Head(queue[w]) \in Task
  BY <1>1
<1> QED
  BY Zenon, <1>1, <1>2

LEMMA RealEntry ==
  ASSUME NEW b \in [times : 0 .. MaxTimes - 1, data : Seq(Piece)]
  PROVE  b # NoBuffer
<1>1. Piece \subseteq [of : Sample, part : {"all", "head", "tail"}]
  <2>1. \A s \in Sample : EndOf(s) \in [of : Sample, part : {"all", "head", "tail"}]
    BY DEF EndOf
  <2>2. \A s \in Split : s \in Sample /\ HeadOf(s) \in [of : Sample, part : {"all", "head", "tail"}]
    BY ConstantsAssumption DEF HeadOf
  <2> QED
    BY Zenon, <2>1, <2>2 DEF Piece
<1>2. b.data \in Seq([of : Sample, part : {"all", "head", "tail"}])
  <2> DEFINE T == [of : Sample, part : {"all", "head", "tail"}]
  <2>1. Piece \subseteq T /\ b.data \in Seq(Piece)
    BY <1>1
  <2> HIDE DEF T
  <2>2. b.data \in Seq(T)
    BY <2>1
  <2> QED
    BY Zenon, <2>2 DEF T
<1>3. b.times \in Nat
  BY ConstantsAssumption
<1>4. b = [times |-> b.times, data |-> b.data]
  OBVIOUS
<1>5. b \in [times : Nat, data : Seq([of : Sample, part : {"all", "head", "tail"}])]
  BY <1>2, <1>3, <1>4
<1> QED
  BY Zenon, <1>5, ConstantsAssumption

\* The entry and its age in the history are dropped by the same rotation.
LEMMA RotateKeeps ==
  ASSUME TextInv, NEW w \in Worker, Rotate(w)
  PROVE  TextInv'
<1> DEFINE silent(a) == idle[w][a] + 1 >= MaxTimes
           S == IF rotRx[Head(queue[w]).round][w].st = "open" THEN {} ELSE long[w]
<1>1. /\ RunRotate(w)
      /\ idle' = [idle EXCEPT ![w] = [a \in Addr |-> IF silent(a) THEN MaxTimes ELSE idle[w][a] + 1]]
      /\ text' = [text EXCEPT ![w] = [a \in Addr |-> IF silent(a) THEN <<>> ELSE text[w][a]]]
  BY Zenon DEF Rotate
<1>2. /\ TakeTask(w, "Rotate") /\ short' = short
      /\ long' = [long EXCEPT ![w] = {}]
      /\ lost' = [lost EXCEPT !["DROPS"] = @ \cup S]
      /\ buffers' = [buffers EXCEPT ![w] = [a \in Addr |-> Retain(buffers[w][a])]]
  BY Zenon, <1>1 DEF RunRotate, Lose
<1>3. /\ queue \in [Worker -> Seq(Task)] /\ short \in [Worker -> SUBSET Sample]
      /\ long \in [Worker -> SUBSET Sample] /\ lost \in [Counter -> SUBSET Sample]
      /\ text \in [Worker -> [Addr -> Seq(Piece)]] /\ idle \in [Worker -> [Addr -> 0 .. MaxTimes]]
      /\ buffers \in [Worker -> [Addr -> [times : 0 .. MaxTimes - 1, data : Seq(Piece)] \cup {NoBuffer}]]
  BY Zenon DEF TextInv, TextTypes
<1>4. queue' \in [Worker -> Seq(Task)]
  BY Zenon, <1>2, <1>3, TailType
<1>5. S \subseteq Sample
  BY Zenon, <1>3
<1> HIDE DEF S
<1>6. /\ long' \in [Worker -> SUBSET Sample] /\ lost' \in [Counter -> SUBSET Sample]
      /\ \A c \in Counter : lost[c] \subseteq lost'[c]
  BY Zenon, <1>2, <1>3, <1>5
<1>7. ASSUME NEW a \in Addr
      PROVE  /\ idle'[w][a] \in 0 .. MaxTimes /\ text'[w][a] \in Seq(Piece)
             /\ buffers'[w][a] \in [times : 0 .. MaxTimes - 1, data : Seq(Piece)] \cup {NoBuffer}
             /\ WholeAt(w, a)' /\ AgeAt(w, a)' /\ ~TooLong(text'[w][a])
  <2> DEFINE b == buffers[w][a]
  <2>1. /\ idle'[w][a] = IF silent(a) THEN MaxTimes ELSE idle[w][a] + 1
        /\ text'[w][a] = IF silent(a) THEN <<>> ELSE text[w][a]
        /\ buffers'[w][a] = Retain(b)
    BY Zenon, <1>1, <1>2, <1>3
  <2>2. /\ WholeAt(w, a) /\ AgeAt(w, a) /\ ~TooLong(text[w][a])
    BY Zenon DEF TextInv
  <2>3. /\ b \in [times : 0 .. MaxTimes - 1, data : Seq(Piece)] \cup {NoBuffer}
        /\ idle[w][a] = IF b = NoBuffer THEN MaxTimes ELSE b.times
        /\ text[w][a] \in Seq(Piece)
    BY Zenon, <1>3, <2>2 DEF AgeAt
  <2>4. /\ short'[w] = short[w] /\ lost["AGG_ERRORS"] \subseteq lost'["AGG_ERRORS"]
        /\ lost["PARSE_ERRORS"] \subseteq lost'["PARSE_ERRORS"]
    BY Zenon, <1>2, <1>6 DEF Counter
  <2>5. CASE silent(a)
    <3>1. Retain(b) = NoBuffer
      BY <2>3, <2>5 DEF Retain
    <3>2. MaxTimes \in 0 .. MaxTimes
      BY ConstantsAssumption
    <3>3. idle'[w][a] = MaxTimes /\ text'[w][a] = <<>> /\ buffers'[w][a] = NoBuffer
      BY Zenon, <2>1, <2>5, <3>1
    <3>4. WholeAt(w, a)' /\ AgeAt(w, a)'
      BY Zenon, <3>3, EmptyText DEF WholeAt, AgeAt, Kept
    <3> QED
      BY Zenon, <3>2, <3>3, <3>4, EmptyText
  <2>6. CASE ~silent(a)
    <3>1. b # NoBuffer /\ b \in [times : 0 .. MaxTimes - 1, data : Seq(Piece)]
      <4>1. MaxTimes + 1 >= MaxTimes
        BY ConstantsAssumption
      <4> QED
        BY Zenon, <2>3, <2>6, <4>1
    <3>2. ~(b.times + 1 >= MaxTimes) /\ idle[w][a] = b.times
      BY Zenon, <2>3, <2>6, <3>1
    <3>3. Retain(b) = [b EXCEPT !.times = @ + 1]
      BY Zenon, <3>1, <3>2 DEF Retain
    <3>4. /\ Retain(b) \in [times : 0 .. MaxTimes - 1, data : Seq(Piece)]
          /\ Retain(b).times = b.times + 1 /\ Retain(b).data = b.data
      BY <3>1, <3>2, <3>3, ConstantsAssumption
    <3>5. Retain(b) # NoBuffer
      BY Zenon, <3>4, RealEntry
    <3>6. b.times + 1 \in 0 .. MaxTimes
      BY <3>1, <3>2, ConstantsAssumption
    <3>7. idle'[w][a] = b.times + 1 /\ text'[w][a] = text[w][a] /\ buffers'[w][a] = Retain(b)
      BY Zenon, <2>1, <2>6, <3>2
    <3> HIDE DEF b
    <3>8. AgeAt(w, a)'
      BY Zenon, <3>4, <3>5, <3>7 DEF AgeAt
    <3>9. Kept(w, a)' = Kept(w, a)
      BY Zenon, <3>1, <3>4, <3>5, <3>7 DEF Kept, b
    <3>10. WholeAt(w, a)'
      BY Zenon, <2>2, <2>4, <3>7, <3>9 DEF WholeAt
    <3> QED
      BY Zenon, <2>2, <2>3, <3>4, <3>6, <3>7, <3>8, <3>10
  <2> QED
    BY Zenon, <2>5, <2>6
<1>8. ASSUME NEW v \in Worker, v # w
      PROVE  idle'[v] = idle[v] /\ text'[v] = text[v] /\ buffers'[v] = buffers[v] /\ short'[v] = short[v]
  BY Zenon, <1>1, <1>2, <1>3, <1>8
<1>9. TextTypes'
  <2>1. idle' \in [Worker -> [Addr -> 0 .. MaxTimes]]
    <3> DEFINE g == [a \in Addr |-> IF silent(a) THEN MaxTimes ELSE idle[w][a] + 1]
    <3>1. \A a \in Addr : idle'[w][a] = g[a]
      BY Zenon, <1>1, <1>3
    <3>2. \A a \in Addr : g[a] \in 0 .. MaxTimes
      BY Zenon, <1>7, <3>1
    <3>3. g \in [Addr -> 0 .. MaxTimes]
      BY Zenon, <3>2
    <3> HIDE DEF g
    <3> QED
      BY Zenon, <1>1, <1>3, <3>3 DEF g
  <2>2. text' \in [Worker -> [Addr -> Seq(Piece)]]
    <3> DEFINE g == [a \in Addr |-> IF silent(a) THEN <<>> ELSE text[w][a]]
    <3>1. \A a \in Addr : text'[w][a] = g[a]
      BY Zenon, <1>1, <1>3
    <3>2. \A a \in Addr : g[a] \in Seq(Piece)
      BY Zenon, <1>7, <3>1
    <3>3. g \in [Addr -> Seq(Piece)]
      BY Zenon, <3>2
    <3> HIDE DEF g
    <3> QED
      BY Zenon, <1>1, <1>3, <3>3 DEF g
  <2>3. buffers' \in [Worker -> [Addr -> [times : 0 .. MaxTimes - 1, data : Seq(Piece)] \cup {NoBuffer}]]
    <3> DEFINE g == [a \in Addr |-> Retain(buffers[w][a])]
    <3>1. \A a \in Addr : buffers'[w][a] = g[a]
      BY Zenon, <1>2, <1>3
    <3>2. \A a \in Addr : g[a] \in [times : 0 .. MaxTimes - 1, data : Seq(Piece)] \cup {NoBuffer}
      BY Zenon, <1>7, <3>1
    <3>3. g \in [Addr -> [times : 0 .. MaxTimes - 1, data : Seq(Piece)] \cup {NoBuffer}]
      BY Zenon, <3>2
    <3> HIDE DEF g
    <3> QED
      BY Zenon, <1>2, <1>3, <3>3 DEF g
  <2> QED
    BY Zenon, <1>2, <1>3, <1>4, <1>6, <2>1, <2>2, <2>3 DEF TextTypes
<1>10. ASSUME NEW v \in Worker, NEW a \in Addr
       PROVE  WholeAt(v, a)' /\ AgeAt(v, a)' /\ ~TooLong(text'[v][a])
  <2>1. CASE v = w
    BY Zenon, <1>7, <2>1
  <2>2. CASE v # w
    BY Zenon, <1>6, <1>8, <2>2, OthersKept DEF TextInv
  <2> QED
    BY Zenon, <2>1, <2>2
<1> QED
  BY Zenon, <1>9, <1>10 DEF TextInv

\* Parsing what the worker keeps and the new text is parsing the whole text.
LEMMA ParseKeeps ==
  ASSUME TextInv, NEW w \in Worker, Parse(w)
  PROVE  TextInv'
<1> SUFFICES ASSUME NEW a, NEW d, a = Head(queue[w]).addr, d = Head(queue[w]).data
             PROVE  TextInv'
  OBVIOUS
<1> DEFINE q == Kept(w, a) \o d
           list == Parsed(q)
           t == text[w][a]
           b == [times |-> 0, data |-> Unparsed(q)]
           overflow == Unparsed(q) = <<>> /\ q # <<>> /\ ~EndsLine(q, Len(q))
<1>1. /\ RunParse(w)
      /\ text' = [text EXCEPT ![w][a] = IF overflow THEN <<>> ELSE @ \o d]
      /\ idle' = [idle EXCEPT ![w][a] = 0]
  BY Zenon DEF Parse
<1>2. /\ TakeTask(w, "Parse") /\ long' = long
      /\ buffers' = [buffers EXCEPT ![w][a] = b]
      /\ short' = [short EXCEPT ![w] = short[w] \cup Admitted(short[w], list)]
      /\ lost' = [lost EXCEPT !["PARSE_ERRORS"] = @ \cup Broken(q),
                              !["AGG_ERRORS"] = @ \cup Refused(short[w], list)]
  BY Zenon, <1>1 DEF RunParse
<1>3. /\ queue \in [Worker -> Seq(Task)] /\ short \in [Worker -> SUBSET Sample]
      /\ long \in [Worker -> SUBSET Sample] /\ lost \in [Counter -> SUBSET Sample]
      /\ text \in [Worker -> [Addr -> Seq(Piece)]] /\ idle \in [Worker -> [Addr -> 0 .. MaxTimes]]
      /\ buffers \in [Worker -> [Addr -> [times : 0 .. MaxTimes - 1, data : Seq(Piece)] \cup {NoBuffer}]]
  BY Zenon DEF TextInv, TextTypes
<1>4. queue' \in [Worker -> Seq(Task)]
  BY Zenon, <1>2, <1>3, TailType
<1>5. a \in Addr /\ d \in Seq(Piece)
  <2>1. Head(queue[w]) \in Task /\ Head(queue[w]).kind = "Parse"
    BY Zenon, <1>2, <1>3, TailType
  <2> QED
    BY <2>1 DEF Task
<1>6. t \in Seq(Piece) /\ WholeAt(w, a) /\ ~TooLong(t)
  BY Zenon, <1>3, <1>5 DEF TextInv
<1>7. Kept(w, a) = LastLine(t)
  BY Zenon, <1>6, UnparsedForm DEF WholeAt, LastLine
<1> HIDE DEF t
<1>8. /\ q \in Seq(Piece) /\ t \o d \in Seq(Piece)
      /\ Unparsed(t \o d) = Unparsed(q) /\ (TooLong(t \o d) <=> TooLong(q))
      /\ Lines(t \o d) \subseteq Lines(t) \cup Lines(q)
      /\ Broken(t \o d) \subseteq Broken(t) \cup Broken(q)
  <2>1. q = LastLine(t) \o d
    BY Zenon, <1>7
  <2>2. q \in Seq(Piece) /\ t \o d \in Seq(Piece) /\ Cut(t \o d, First(t) - 1, q)
    BY Zenon, <1>5, <1>6, <2>1, KeptCut
  <2>3. Unparsed(t \o d) = Unparsed(q) /\ (TooLong(t \o d) <=> TooLong(q))
    BY Zenon, <2>2, CutUnparsed
  <2>4. /\ Lines(t \o d) \subseteq Lines(t) \cup Lines(q)
        /\ Broken(t \o d) \subseteq Broken(t) \cup Broken(q)
    BY Zenon, <1>5, <1>6, <2>1, WholeText
  <2> QED
    BY Zenon, <2>2, <2>3, <2>4
<1> DEFINE y == IF overflow THEN <<>> ELSE t \o d
<1>9. /\ y \in Seq(Piece) /\ ~TooLong(y) /\ Unparsed(y) = Unparsed(q)
      /\ Lines(y) \subseteq Lines(t) \cup Lines(q) /\ Broken(y) \subseteq Broken(t) \cup Broken(q)
  <2>1. CASE overflow
    BY Zenon, <2>1, EmptyText
  <2>2. CASE ~overflow
    <3>1. ~TooLong(q)
      BY Zenon, <1>8, <2>2, GivesUp
    <3> QED
      BY Zenon, <1>8, <2>2, <3>1
  <2> QED
    BY Zenon, <2>1, <2>2
<1>10. /\ Unparsed(q) \in Seq(Piece) /\ Lines(q) \subseteq Sample /\ Broken(q) \subseteq Sample
       /\ Admitted(short[w], list) \cup Refused(short[w], list) = Lines(q)
  BY Zenon, <1>8, PieceFacts, Refusal
<1>11. text' = [text EXCEPT ![w][a] = y]
  BY Zenon, <1>1 DEF t
<1> DEFINE A == Admitted(short[w], list)
           R == Refused(short[w], list)
           B == Broken(q)
<1>12. /\ b \in [times : 0 .. MaxTimes - 1, data : Seq(Piece)] /\ b.times = 0 /\ b.data = Unparsed(q)
  <2> DEFINE u == Unparsed(q)
  <2> HIDE DEF u
  <2>1. u \in Seq(Piece) /\ 0 \in 0 .. MaxTimes - 1
    BY <1>10, ConstantsAssumption DEF u
  <2>2. b = [times |-> 0, data |-> u]
    BY Zenon DEF u
  <2> HIDE DEF b
  <2>3. b \in [times : 0 .. MaxTimes - 1, data : Seq(Piece)] /\ b.times = 0 /\ b.data = u
    BY Zenon, <2>1, <2>2
  <2> QED
    BY Zenon, <2>3 DEF u
<1>13. b # NoBuffer
  BY Zenon, <1>12, RealEntry
<1>14. /\ A \cup R = Lines(q) /\ A \subseteq Sample /\ R \subseteq Sample /\ B \subseteq Sample
       /\ short' = [short EXCEPT ![w] = short[w] \cup A]
       /\ lost' = [lost EXCEPT !["PARSE_ERRORS"] = @ \cup B, !["AGG_ERRORS"] = @ \cup R]
       /\ buffers' = [buffers EXCEPT ![w][a] = b]
       /\ Broken(y) \subseteq Broken(t) \cup B
  BY Zenon, <1>2, <1>9, <1>10
<1> HIDE DEF A, R, B, b, y
<1>15. /\ lost' \in [Counter -> SUBSET Sample] /\ \A c \in Counter : lost[c] \subseteq lost'[c]
       /\ B \subseteq lost'["PARSE_ERRORS"] /\ R \subseteq lost'["AGG_ERRORS"]
  BY Zenon, <1>3, <1>14 DEF Counter
<1>16. /\ short' \in [Worker -> SUBSET Sample] /\ A \subseteq short'[w]
       /\ \A v \in Worker : short[v] \subseteq short'[v]
  BY <1>3, <1>14
<1>17. /\ buffers'[w][a] = b /\ text'[w][a] = y /\ idle'[w][a] = 0
       /\ \A v \in Worker, c \in Addr : v # w \/ c # a =>
             buffers'[v][c] = buffers[v][c] /\ text'[v][c] = text[v][c] /\ idle'[v][c] = idle[v][c]
  <2>1. /\ buffers'[w][a] = b
        /\ \A v \in Worker, c \in Addr : v # w \/ c # a => buffers'[v][c] = buffers[v][c]
    BY Zenon, <1>3, <1>5, <1>14
  <2>2. /\ text'[w][a] = y
        /\ \A v \in Worker, c \in Addr : v # w \/ c # a => text'[v][c] = text[v][c]
    BY Zenon, <1>3, <1>5, <1>11
  <2>3. /\ idle'[w][a] = 0
        /\ \A v \in Worker, c \in Addr : v # w \/ c # a => idle'[v][c] = idle[v][c]
    BY Zenon, <1>1, <1>3, <1>5
  <2> QED
    BY Zenon, <2>1, <2>2, <2>3
<1>18. TextTypes'
  <2>1. buffers' \in [Worker -> [Addr -> [times : 0 .. MaxTimes - 1, data : Seq(Piece)] \cup {NoBuffer}]]
    BY Zenon, <1>3, <1>5, <1>12, <1>14
  <2>2. text' \in [Worker -> [Addr -> Seq(Piece)]]
    BY Zenon, <1>3, <1>5, <1>9, <1>11
  <2>3. 0 \in 0 .. MaxTimes
    BY ConstantsAssumption
  <2>4. idle' \in [Worker -> [Addr -> 0 .. MaxTimes]]
    BY Zenon, <1>1, <1>3, <1>5, <2>3
  <2> QED
    BY Zenon, <1>2, <1>3, <1>4, <1>15, <1>16, <2>1, <2>2, <2>4 DEF TextTypes
<1>19. WholeAt(w, a)' /\ AgeAt(w, a)' /\ ~TooLong(text'[w][a])
  <2>1. Kept(w, a)' = Unparsed(y)
    BY Zenon, <1>9, <1>12, <1>13, <1>17 DEF Kept
  <2>2. Lines(y) \subseteq short'[w] \cup lost'["AGG_ERRORS"]
    <3>1. Lines(t) \subseteq short[w] \cup lost["AGG_ERRORS"] /\ lost["AGG_ERRORS"] \subseteq lost'["AGG_ERRORS"]
      BY Zenon, <1>6, <1>15 DEF WholeAt, t, Counter
    <3> QED
      BY Zenon, <1>9, <1>14, <1>15, <1>16, <3>1
  <2>3. Broken(y) \subseteq lost'["PARSE_ERRORS"]
    <3>1. Broken(t) \subseteq lost["PARSE_ERRORS"] /\ lost["PARSE_ERRORS"] \subseteq lost'["PARSE_ERRORS"]
      BY Zenon, <1>6, <1>15 DEF WholeAt, t, Counter
    <3> QED
      BY Zenon, <1>14, <1>15, <3>1
  <2>4. AgeAt(w, a)'
    BY Zenon, <1>12, <1>13, <1>17 DEF AgeAt
  <2>5. WholeAt(w, a)'
    BY Zenon, <1>17, <2>1, <2>2, <2>3 DEF WholeAt
  <2> QED
    BY Zenon, <1>9, <1>17, <2>4, <2>5
<1>20. ASSUME NEW v \in Worker, NEW c \in Addr
       PROVE  WholeAt(v, c)' /\ AgeAt(v, c)' /\ ~TooLong(text'[v][c])
  <2>1. CASE v = w /\ c = a
    BY Zenon, <1>19, <2>1
  <2>2. CASE v # w \/ c # a
    BY Zenon, <1>15, <1>16, <1>17, <2>2, OthersKept DEF TextInv
  <2> QED
    BY Zenon, <2>1, <2>2
<1> QED
  BY Zenon, <1>18, <1>20 DEF TextInv

-----------------------------------------------------------------------------
(* update_metric. *)

\* The samples with index i of f that Admitted takes.
FirstOfName(f, j) == \A k \in DOMAIN f : SameName(f[k], f[j]) => j <= k

Fits(cache, f, i) ==
    /\ \A c \in cache : ~Conflict(c, f[i])
    /\ \/ \E c \in cache : SameName(c, f[i])
       \/ \A j \in DOMAIN f : FirstOfName(f, j) => ~Conflict(f[j], f[i])

LEMMA AdmittedForm ==
  ASSUME NEW cache, NEW f
  PROVE  Admitted(cache, f) = {f[i] : i \in {j \in DOMAIN f : Fits(cache, f, j)}}
BY Zenon DEF Admitted, Fits, FirstOfName

\* Two samples of a list that both fit have one type if they have one name.
LEMMA FitsApart ==
  ASSUME NEW cache, NEW f, DOMAIN f \subseteq Nat, NEW n \in DOMAIN f, NEW i \in DOMAIN f,
         Fits(cache, f, n), Fits(cache, f, i), Conflict(f[i], f[n])
  PROVE  FALSE
<1>1. NameOf[f[i]] = NameOf[f[n]] /\ TypeOf[f[i]] # TypeOf[f[n]]
  BY Zenon DEF Conflict, SameName
<1>2. CASE \E b \in cache : SameName(b, f[n])
  BY Zenon, <1>1, <1>2 DEF Fits, Conflict, SameName
<1>3. CASE ~\E b \in cache : SameName(b, f[n])
  <2> DEFINE I == {k \in DOMAIN f : NameOf[f[k]] = NameOf[f[n]]}
  <2>1. I \in SUBSET Nat /\ I # {}
    BY Zenon
  <2>2. PICK k \in I : \A j \in I : k <= j
    BY Zenon, <2>1, Smallest
  <2>3. k \in DOMAIN f /\ FirstOfName(f, k) /\ NameOf[f[k]] = NameOf[f[n]]
    BY Zenon, <2>2 DEF FirstOfName, SameName
  <2>4. ~Conflict(f[k], f[n])
    BY Zenon, <1>3, <2>3 DEF Fits
  <2>5. ~Conflict(f[k], f[i])
    BY Zenon, <1>1, <1>3, <2>3 DEF Fits, SameName
  <2> QED
    BY Zenon, <1>1, <2>3, <2>4, <2>5 DEF Conflict, SameName
<1> QED
  BY Zenon, <1>2, <1>3

\* A sample that does not fit meets one of its name and another type, in the
\* cache or, the first of its name, among those that fit.
LEMMA UnfitForCause ==
  ASSUME NEW cache, NEW f, DOMAIN f \subseteq Nat, NEW n \in DOMAIN f, ~Fits(cache, f, n)
  PROVE  \/ \E c \in cache : Conflict(c, f[n])
         \/ \E j \in DOMAIN f : Fits(cache, f, j) /\ Conflict(f[j], f[n])
<1> SUFFICES ASSUME \A c \in cache : ~Conflict(c, f[n])
             PROVE  \E j \in DOMAIN f : Fits(cache, f, j) /\ Conflict(f[j], f[n])
  BY Zenon
<1>1. /\ ~\E c \in cache : SameName(c, f[n])
      /\ \E j \in DOMAIN f : FirstOfName(f, j) /\ Conflict(f[j], f[n])
  BY Zenon DEF Fits
<1>2. PICK j \in DOMAIN f : FirstOfName(f, j) /\ Conflict(f[j], f[n])
  BY Zenon, <1>1
<1>3. NameOf[f[j]] = NameOf[f[n]]
  BY Zenon, <1>2 DEF Conflict, SameName
<1>4. \A c \in cache : ~Conflict(c, f[j])
  BY Zenon, <1>1, <1>3 DEF Conflict, SameName
<1>5. ASSUME NEW k \in DOMAIN f, FirstOfName(f, k), Conflict(f[k], f[j]) PROVE FALSE
  <2>1. NameOf[f[k]] = NameOf[f[j]] /\ TypeOf[f[k]] # TypeOf[f[j]]
    BY Zenon, <1>5 DEF Conflict, SameName
  <2>2. k <= j /\ j <= k
    BY Zenon, <1>2, <1>5, <2>1 DEF FirstOfName, SameName
  <2>3. k = j
    BY <2>2
  <2> QED
    BY Zenon, <2>1, <2>3
<1>6. Fits(cache, f, j)
  BY Zenon, <1>4, <1>5 DEF Fits
<1> QED
  BY Zenon, <1>2, <1>6

\* A text brought into a cache without conflicts.
LEMMA AdmittedApart ==
  ASSUME NEW cache, NEW f, DOMAIN f \subseteq Nat, \A s, t \in cache : ~Conflict(s, t)
  PROVE  LET u == cache \cup Admitted(cache, f)
         IN  /\ \A s, t \in u : ~Conflict(s, t)
             /\ \A s \in Refused(cache, f) : \E c \in u : Conflict(c, s)
<1> DEFINE A == Admitted(cache, f)
           u == cache \cup A
<1>1. A = {f[i] : i \in {j \in DOMAIN f : Fits(cache, f, j)}}
  BY Zenon, AdmittedForm
<1> HIDE DEF A
<1>2. \A s, t \in A : ~Conflict(s, t)
  BY Zenon, <1>1, FitsApart
<1>3. ASSUME NEW s \in cache, NEW t \in A PROVE ~Conflict(s, t) /\ ~Conflict(t, s)
  <2>1. ~Conflict(s, t)
    BY Zenon, <1>1 DEF Fits
  <2> QED
    BY Zenon, <2>1 DEF Conflict, SameName
<1>4. \A s, t \in u : ~Conflict(s, t)
  BY Zenon, <1>2, <1>3
<1>5. ASSUME NEW s \in Refused(cache, f) PROVE \E c \in u : Conflict(c, s)
  <2>1. PICK n \in DOMAIN f : s = f[n] /\ s \notin A
    BY Zenon DEF Refused, A
  <2>2. ~Fits(cache, f, n)
    BY Zenon, <1>1, <2>1
  <2>3. \/ \E c \in cache : Conflict(c, f[n])
        \/ \E j \in DOMAIN f : Fits(cache, f, j) /\ Conflict(f[j], f[n])
    BY Zenon, <2>2, UnfitForCause
  <2> QED
    BY Zenon, <1>1, <2>1, <2>3
<1> QED
  BY Zenon, <1>4, <1>5 DEF A

\* No other cache and no refusal is touched by what a worker parses.
LEMMA ParseKeepsType ==
  ASSUME TextInv, FirstTypeStays, NEW w \in Worker, Parse(w)
  PROVE  FirstTypeStays'
<1> SUFFICES ASSUME NEW q, q = Kept(w, Head(queue[w]).addr) \o Head(queue[w]).data
             PROVE  FirstTypeStays'
  BY Zenon
<1> DEFINE f == Parsed(q)
           A == Admitted(short[w], f)
           R == Refused(short[w], f)
<1>1. /\ short' = [short EXCEPT ![w] = short[w] \cup A]
      /\ lost' = [lost EXCEPT !["PARSE_ERRORS"] = @ \cup Broken(q), !["AGG_ERRORS"] = @ \cup R]
  BY Zenon DEF Parse, RunParse
<1>2. short \in [Worker -> SUBSET Sample] /\ lost \in [Counter -> SUBSET Sample]
  BY Zenon DEF TextInv, TextTypes
<1>3. DOMAIN f \subseteq Nat
  <2> DEFINE a == Head(queue[w]).addr
             d == Head(queue[w]).data
  <2>1. TakeTask(w, "Parse") /\ queue \in [Worker -> Seq(Task)]
    BY Zenon DEF Parse, RunParse, TextInv, TextTypes
  <2>2. Head(queue[w]) \in Task /\ Head(queue[w]).kind = "Parse"
    BY Zenon, <2>1, TailType
  <2>3. a \in Addr /\ d \in Seq(Piece)
    BY <2>2 DEF Task
  <2> HIDE DEF a, d
  <2>4. text[w][a] \in Seq(Piece) /\ Kept(w, a) = Unparsed(text[w][a])
    BY Zenon, <2>3 DEF TextInv, TextTypes, WholeAt
  <2>5. Kept(w, a) \in Seq(Piece)
    BY Zenon, <2>4, PieceFacts
  <2>6. Kept(w, a) \o d \in Seq(Piece)
    BY <2>3, <2>5
  <2>7. q \in Seq(Piece)
    BY Zenon, <2>6 DEF a, d
  <2>8. \A i \in 1 .. Len(q) : i \in Nat
    BY <2>7
  <2> QED
    BY Zenon, <2>8 DEF Parsed
<1>4. /\ \A s, t \in short[w] \cup A : ~Conflict(s, t)
      /\ \A s \in R : \E c \in short[w] \cup A : Conflict(c, s)
  <2>1. \A s, t \in short[w] : ~Conflict(s, t)
    BY Zenon DEF FirstTypeStays
  <2> HIDE DEF f
  <2> QED
    BY Zenon, <1>3, <2>1, AdmittedApart
<1> HIDE DEF A, R
<1>5. /\ short'[w] = short[w] \cup A
      /\ \A v \in Worker : v # w => short'[v] = short[v]
      /\ lost'["AGG_ERRORS"] = lost["AGG_ERRORS"] \cup R
  BY Zenon, <1>1, <1>2 DEF Counter
<1>6. \A v \in Worker : \A s, t \in short'[v] : ~Conflict(s, t)
  BY Zenon, <1>4, <1>5 DEF FirstTypeStays
<1>7. ASSUME NEW s \in lost'["AGG_ERRORS"] PROVE \E v \in Worker : \E c \in short'[v] : Conflict(c, s)
  <2>1. CASE s \in R
    BY Zenon, <1>4, <1>5, <2>1
  <2>2. CASE s \in lost["AGG_ERRORS"]
    <3>1. PICK v \in Worker : \E c \in short[v] : Conflict(c, s)
      BY Zenon, <2>2 DEF FirstTypeStays
    <3>2. short[v] \subseteq short'[v]
      BY Zenon, <1>5
    <3> QED
      BY Zenon, <3>1, <3>2
  <2> QED
    BY Zenon, <1>5, <1>7, <2>1, <2>2
<1> QED
  BY Zenon, <1>6, <1>7 DEF FirstTypeStays

LEMMA TypeStep == TextInv /\ FirstTypeStays /\ [Next]_vars => FirstTypeStays'
<1> SUFFICES ASSUME TextInv, FirstTypeStays, [Next]_vars PROVE FirstTypeStays'
  OBVIOUS
<1>1. ASSUME NEW w \in Worker, Parse(w) PROVE FirstTypeStays'
  BY Zenon, <1>1, ParseKeepsType
<1>2. ASSUME short' = short, lost'["AGG_ERRORS"] = lost["AGG_ERRORS"] PROVE FirstTypeStays'
  BY Zenon, <1>2 DEF FirstTypeStays
<1>3. lost \in [Counter -> SUBSET Sample]
  BY Zenon DEF TextInv, TextTypes
<1>4. ASSUME NEW S, lost' = Lose("DROPS", S) PROVE lost'["AGG_ERRORS"] = lost["AGG_ERRORS"]
  BY <1>3, <1>4 DEF Lose, Counter
<1>5. CASE ReceiveText
  <2>1. PICK p \in Route, d \in Data : SendParse(p[2], p[1], d)
    BY Zenon, <1>5 DEF ReceiveText
  <2>2. short' = short /\ (lost' = lost \/ lost' = Lose("DROPS", Ends(d)))
    BY Zenon, <2>1 DEF SendParse
  <2> QED
    BY Zenon, <1>2, <1>4, <2>2
<1>6. ASSUME NEW w \in Worker, Rotate(w) PROVE FirstTypeStays'
  <2>1. RunRotate(w)
    BY Zenon, <1>6 DEF Rotate
  <2>2. /\ short' = short
        /\ lost' = Lose("DROPS", IF rotRx[Head(queue[w]).round][w].st = "open" THEN {} ELSE long[w])
    BY Zenon, <2>1 DEF RunRotate
  <2> QED
    BY Zenon, <1>2, <1>4, <2>2
<1>7. ASSUME NEW w \in Worker, NEW r \in Round, AskRotate(w, r) PROVE FirstTypeStays'
  BY Zenon, <1>2, <1>7 DEF AskRotate
<1>8. CASE UNCHANGED vars
  BY Zenon, <1>2, <1>8 DEF vars, runnerVars
<1> QED
  BY Zenon, <1>1, <1>5, <1>6, <1>7, <1>8 DEF Next

-----------------------------------------------------------------------------
(* The theorems. *)

LEMMA TextStep == TextInv /\ [Next]_vars => TextInv'
<1> SUFFICES ASSUME TextInv, [Next]_vars PROVE TextInv'
  OBVIOUS
<1>1. CASE ReceiveText
  BY Zenon, <1>1, ReceiveKeeps
<1>2. ASSUME NEW w \in Worker, Parse(w) PROVE TextInv'
  BY Zenon, <1>2, ParseKeeps
<1>3. ASSUME NEW w \in Worker, Rotate(w) PROVE TextInv'
  BY Zenon, <1>3, RotateKeeps
<1>4. ASSUME NEW w \in Worker, NEW r \in Round, AskRotate(w, r) PROVE TextInv'
  BY Zenon, <1>4, AskKeeps
<1>5. CASE UNCHANGED vars
  <2>1. /\ queue' = queue /\ short' = short /\ long' = long /\ lost' = lost
        /\ buffers' = buffers /\ text' = text /\ idle' = idle
    BY Zenon, <1>5 DEF vars, runnerVars, history
  <2>2. TextTypes'
    BY Zenon, <2>1 DEF TextInv, TextTypes
  <2>3. ASSUME NEW w \in Worker, NEW a \in Addr
        PROVE  WholeAt(w, a)' /\ AgeAt(w, a)' /\ ~TooLong(text'[w][a])
    BY Zenon, <2>1, OthersKept DEF TextInv
  <2> QED
    BY Zenon, <2>2, <2>3 DEF TextInv
<1> QED
  BY Zenon, <1>1, <1>2, <1>3, <1>4, <1>5 DEF Next

\* Task::Parse and the `retain` of Task::Rotate keep the inductive invariant:
\* the entry of an address is the unfinished line of its whole text, with the
\* number of rotations since the last piece.
THEOREM TextInductive == Spec => []TextInv
<1> QED
  BY InitText, TextStep, PTL DEF Spec

\* Wherever the text of an address is cut, the worker ends with the same rest
\* and accounts for the same lines as for the text in one piece.
THEOREM WholeLines == Spec => []PiecewiseIsWhole
<1>1. TextInv => PiecewiseIsWhole
  BY Zenon DEF TextInv, WholeAt, PiecewiseIsWhole, Lines
<1> QED
  BY <1>1, TextInductive, PTL

\* `retain` drops the unfinished line of an address after MaxTimes rotations
\* in a row without text from it, and never earlier.
THEOREM SilenceForgets == Spec => []ForgottenBySilence
<1>1. TextInv => ForgottenBySilence
  <2> SUFFICES ASSUME TextInv, NEW w \in Worker, NEW a \in Addr
               PROVE  buffers[w][a] = NoBuffer <=> idle[w][a] = MaxTimes
    BY Zenon DEF ForgottenBySilence
  <2>1. idle[w][a] = IF buffers[w][a] = NoBuffer THEN MaxTimes ELSE buffers[w][a].times
    BY Zenon DEF TextInv, AgeAt
  <2>2. buffers[w][a] # NoBuffer => buffers[w][a].times \in 0 .. MaxTimes - 1
    BY Zenon DEF TextInv, TextTypes
  <2>3. \A n \in 0 .. MaxTimes - 1 : n # MaxTimes
    BY ConstantsAssumption
  <2> QED
    BY Zenon, <2>1, <2>2, <2>3
<1> QED
  BY <1>1, TextInductive, PTL

\* Whatever texts come, in whatever order, update_metric lets the first metric
\* of a name decide its type and refuses nothing else.
THEOREM FirstTypeDecides == Spec => []FirstTypeStays
<1>1. Init => FirstTypeStays
  <2> SUFFICES ASSUME Init PROVE FirstTypeStays
    OBVIOUS
  <2>1. /\ \A w \in Worker : short[w] = {}
        /\ lost["AGG_ERRORS"] = {}
    BY Zenon DEF Init, RunnerInit, Counter
  <2> QED
    BY Zenon, <2>1 DEF FirstTypeStays
<1> QED
  BY <1>1, TextInductive, TypeStep, PTL DEF Spec
=============================================================================
