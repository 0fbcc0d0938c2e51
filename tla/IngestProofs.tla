---------------------------- MODULE IngestProofs ----------------------------
(***************************************************************************)
(* The theorems about Ingest, for any listeners, threads, workers,         *)
(* datagrams and configurations.                                           *)
(*                                                                         *)
(* The buffers, the tasks and what came in are sequences that the model    *)
(* joins from pieces, so the module starts with what joining sequences     *)
(* does.  The invariant IngestInv says where every datagram is (one place, *)
(* given by a function own), that a buffer holds each datagram once and    *)
(* only those of its address, and that the counters are the bytes held;    *)
(* with it the order of arrival is inductive.                              *)
(***************************************************************************)
EXTENDS Ingest, WellFoundedInduction, TLAPS

\* A set of numbers has a smallest one.
LEMMA Smallest ==
  ASSUME NEW I \in SUBSET Nat, I # {}
  PROVE  \E i \in I : \A j \in I : i <= j
<1> DEFINE R == OpToRel(<, Nat)
<1>1. PICK i \in I : \A j \in I : ~(<<j, i>> \in R)
  <2>1. IsWellFoundedOn(R, Nat)
    BY Zenon, NatLessThanWellFounded
  <2> HIDE DEF R
  <2> QED
    BY Zenon, <2>1, WFMin
<1>2. R = {ss \in Nat \X Nat : ss[1] < ss[2]}
  BY Zenon DEF OpToRel
<1> HIDE DEF R
<1>3. ASSUME NEW j \in I PROVE i <= j
  <2>1. j < i => <<j, i>> \in R
    BY Zenon, <1>2
  <2> QED
    BY <1>1, <2>1
<1> QED
  BY Zenon, <1>3

\* Induction up to N for the set I of numbers.
LEMMA UpTo ==
  ASSUME NEW N \in Nat, NEW I, 0 \in I, \A n \in 1 .. N : n - 1 \in I => n \in I
  PROVE  \A n \in 0 .. N : n \in I
<1> SUFFICES ASSUME NEW n \in 0 .. N, n \notin I PROVE FALSE
  BY Zenon
<1> DEFINE Bad == {m \in 0 .. N : m \notin I}
<1>1. Bad \in SUBSET Nat /\ Bad # {}
  <2>1. 0 .. N \subseteq Nat
    OBVIOUS
  <2> QED
    BY Zenon, <2>1
<1>2. PICK m \in Bad : \A j \in Bad : m <= j
  BY Zenon, <1>1, Smallest
<1>3. m \in 0 .. N /\ m \notin I
  BY Zenon, <1>2
<1>4. m \in 1 .. N /\ m - 1 \in 0 .. N /\ ~(m <= m - 1)
  <2>1. m # 0
    BY Zenon, <1>3
  <2> QED
    BY <1>3, <2>1
<1>5. m - 1 \in I
  BY Zenon, <1>2, <1>4
<1> QED
  BY Zenon, <1>3, <1>4, <1>5

-----------------------------------------------------------------------------
(* Concatenations. *)

\* Concatenation, as one symbol.
Cat(x, y) == x \o y

\* The length and the elements of a concatenation.
LEMMA CatFacts ==
  ASSUME NEW T, NEW x \in Seq(T), NEW y \in Seq(T)
  PROVE  /\ Cat(x, y) \in Seq(T) /\ Len(Cat(x, y)) = Len(x) + Len(y)
         /\ Cat(x, <<>>) = x /\ Cat(<<>>, x) = x
         /\ \A i \in 1 .. Len(x) : Cat(x, y)[i] = x[i]
         /\ \A i \in 1 .. Len(y) : Cat(x, y)[Len(x) + i] = y[i]
BY DEF Cat

\* A sequence with those elements is the concatenation.
LEMMA IsCat ==
  ASSUME NEW T, NEW x \in Seq(T), NEW y \in Seq(T), NEW z \in Seq(T), Len(z) = Len(x) + Len(y),
         \A i \in 1 .. Len(x) : z[i] = x[i], \A i \in 1 .. Len(y) : z[Len(x) + i] = y[i]
  PROVE  z = x \o y
<1>1. Len(x) \in Nat /\ Len(y) \in Nat /\ x \o y \in Seq(T) /\ Len(x \o y) = Len(z)
  OBVIOUS
<1>2. ASSUME NEW i \in 1 .. Len(z) PROVE z[i] = (x \o y)[i]
  <2>1. CASE i <= Len(x)
    <3>1. i \in 1 .. Len(x)
      BY <1>1, <2>1
    <3> QED
      BY <1>1, <3>1
  <2>2. CASE ~(i <= Len(x))
    <3>1. i - Len(x) \in 1 .. Len(y) /\ Len(x) + (i - Len(x)) = i
      BY <1>1, <2>2
    <3>2. z[i] = y[i - Len(x)]
      BY Zenon, <3>1
    <3> QED
      BY <1>1, <2>2, <3>2
  <2> QED
    BY Zenon, <2>1, <2>2
<1> DEFINE w == x \o y
<1>3. w \in Seq(T) /\ Len(w) = Len(z) /\ \A i \in 1 .. Len(z) : z[i] = w[i]
  BY Zenon, <1>1, <1>2
<1> HIDE DEF w
<1>4. z = w
  BY <1>3
<1> QED
  BY Zenon, <1>4 DEF w

\* Concatenation is associative.
LEMMA CatAssoc ==
  ASSUME NEW T, NEW x \in Seq(T), NEW y \in Seq(T), NEW z \in Seq(T)
  PROVE  Cat(Cat(x, y), z) = Cat(x, Cat(y, z))
BY DEF Cat

\* g goes through the concatenations of the beginnings of ss.
Joins(g, ss) ==
    /\ g[0] = <<>>
    /\ \A n \in 1 .. Len(ss) : g[n] = Cat(g[n - 1], ss[n])

\* The recursion of Joined has a solution.
LEMMA JoinsExist ==
  ASSUME NEW T, NEW ss \in Seq(Seq(T))
  PROVE  \E g : Joins(g, ss)
<1> DEFINE N == Len(ss)
           From0(g, m) == g[0] = <<>> /\ \A n \in 1 .. m : g[n] = Cat(g[n - 1], ss[n])
           I == {m \in 0 .. N : \E g : From0(g, m)}
<1>1. N \in Nat
  OBVIOUS
<1> HIDE DEF N
<1>2. 0 \in I
  <2> DEFINE g == [n \in {0} |-> <<>>]
  <2>1. From0(g, 0)
    OBVIOUS
  <2>2. 0 \in 0 .. N
    BY <1>1
  <2> HIDE DEF g
  <2> QED
    BY Zenon, <2>1, <2>2
<1>3. ASSUME NEW m \in 1 .. N, m - 1 \in I PROVE m \in I
  <2>1. PICK g : From0(g, m - 1)
    BY Zenon, <1>3
  <2> DEFINE h == [n \in 0 .. m |-> IF n = m THEN Cat(g[m - 1], ss[m]) ELSE g[n]]
  <2>2. m \in Nat /\ m # 0 /\ 0 \in 0 .. m /\ m \in 0 .. m /\ m - 1 \in 0 .. m /\ m - 1 # m /\ m \in 0 .. N
    BY <1>1
  <2>3. h[0] = <<>> /\ h[m] = Cat(g[m - 1], ss[m]) /\ h[m - 1] = g[m - 1]
    BY Zenon, <2>1, <2>2
  <2>4. ASSUME NEW n \in 1 .. m PROVE h[n] = Cat(h[n - 1], ss[n])
    <3>1. CASE n = m
      BY Zenon, <2>3, <3>1
    <3>2. CASE n # m
      <4>1. n \in 0 .. m /\ n - 1 \in 0 .. m /\ n - 1 # m /\ n \in 1 .. m - 1
        BY <2>2, <3>2
      <4>2. h[n] = g[n] /\ h[n - 1] = g[n - 1]
        BY Zenon, <3>2, <4>1
      <4> QED
        BY Zenon, <2>1, <4>1, <4>2
    <3> QED
      BY Zenon, <3>1, <3>2
  <2> HIDE DEF h
  <2>5. From0(h, m)
    BY Zenon, <2>3, <2>4
  <2> QED
    BY Zenon, <2>2, <2>5
<1>4. \A n \in 0 .. N : n \in I
  <2> HIDE DEF I
  <2> QED
    BY Zenon, <1>1, <1>2, <1>3, UpTo
<1>5. N \in 0 .. N
  BY <1>1
<1>6. \E g : From0(g, N)
  BY Zenon, <1>4, <1>5
<1> QED
  BY Zenon, <1>6 DEF Joins, N

\* Its values are sequences.
LEMMA JoinsTyped ==
  ASSUME NEW T, NEW ss \in Seq(Seq(T)), NEW g, Joins(g, ss)
  PROVE  \A n \in 0 .. Len(ss) : g[n] \in Seq(T)
<1> DEFINE I == {n \in 0 .. Len(ss) : g[n] \in Seq(T)}
<1>1. Len(ss) \in Nat /\ \A n \in 1 .. Len(ss) : ss[n] \in Seq(T) /\ n \in 0 .. Len(ss)
  OBVIOUS
<1>2. 0 \in I
  <2>1. 0 \in 0 .. Len(ss) /\ <<>> \in Seq(T)
    BY <1>1
  <2> QED
    BY Zenon, <2>1 DEF Joins
<1>3. ASSUME NEW n \in 1 .. Len(ss), n - 1 \in I PROVE n \in I
  <2>1. g[n - 1] \in Seq(T) /\ ss[n] \in Seq(T) /\ g[n] = Cat(g[n - 1], ss[n])
    BY Zenon, <1>1, <1>3 DEF Joins
  <2>2. g[n] \in Seq(T)
    BY Zenon, <2>1, CatFacts
  <2> QED
    BY Zenon, <1>1, <2>2
<1>4. \A n \in 0 .. Len(ss) : n \in I
  <2> HIDE DEF I
  <2> QED
    BY Zenon, <1>1, <1>2, <1>3, UpTo
<1> QED
  BY Zenon, <1>4

\* The last of them is the concatenation.
LEMMA FlatIs ==
  ASSUME NEW T, NEW ss \in Seq(Seq(T)), NEW g, Joins(g, ss)
  PROVE  Joined(ss) = g[Len(ss)]
<1> DEFINE N == Len(ss)
           Rec(f) == [n \in 0 .. N |-> IF n = 0 THEN <<>> ELSE f[n - 1] \o ss[n]]
           f == CHOOSE h : h = Rec(h)
           h == [n \in 0 .. N |-> g[n]]
<1>1. N \in Nat /\ 0 \in 0 .. N /\ N \in 0 .. N /\ \A n \in 0 .. N : n # 0 => n \in 1 .. N /\ n - 1 \in 0 .. N
  OBVIOUS
<1>2. Joined(ss) = f[N]
  BY Zenon DEF Joined
<1>3. g[0] = <<>> /\ \A n \in 1 .. N : g[n] = Cat(g[n - 1], ss[n])
  BY Zenon DEF Joins
<1> HIDE DEF N
<1>4. \A n \in 0 .. N : h[n] = IF n = 0 THEN <<>> ELSE h[n - 1] \o ss[n]
  BY Zenon, <1>1, <1>3 DEF Cat
<1>5. h = [n \in 0 .. N |-> h[n]] /\ h[N] = g[N]
  BY Zenon, <1>1
<1> HIDE DEF h
<1>6. h = Rec(h)
  BY Zenon, <1>4, <1>5
<1>7. f = Rec(f)
  BY Zenon, <1>6
<1> HIDE DEF f
<1> DEFINE I == {n \in 0 .. N : f[n] = h[n]}
<1>8. 0 \in I
  BY Zenon, <1>1, <1>6, <1>7
<1>9. ASSUME NEW n \in 1 .. N, n - 1 \in I PROVE n \in I
  <2>1. n \in 0 .. N /\ n # 0
    BY <1>1
  <2>2. f[n] = f[n - 1] \o ss[n] /\ h[n] = h[n - 1] \o ss[n]
    BY Zenon, <1>6, <1>7, <2>1
  <2> QED
    BY Zenon, <1>9, <2>1, <2>2
<1>10. N \in I
  <2> HIDE DEF I
  <2> QED
    BY Zenon, <1>1, <1>8, <1>9, UpTo
<1> QED
  BY Zenon, <1>2, <1>5, <1>10 DEF N

\* Joining sequences gives a sequence.
LEMMA FlatType ==
  ASSUME NEW T, NEW ss \in Seq(Seq(T))
  PROVE  Joined(ss) \in Seq(T)
<1>1. PICK g : Joins(g, ss)
  BY Zenon, JoinsExist
<1>2. Len(ss) \in 0 .. Len(ss)
  OBVIOUS
<1>3. g[Len(ss)] \in Seq(T)
  BY Zenon, <1>1, <1>2, JoinsTyped
<1> QED
  BY Zenon, <1>1, <1>3, FlatIs

\* Concatenations of nothing, or with one part only.
LEMMA FlatNone ==
  ASSUME NEW T, NEW ss \in Seq(Seq(T)), \A n \in 1 .. Len(ss) : ss[n] = <<>>
  PROVE  Joined(ss) = <<>>
<1> DEFINE g == [n \in 0 .. Len(ss) |-> <<>>]
<1>1. Len(ss) \in 0 .. Len(ss) /\ 0 \in 0 .. Len(ss) /\ \A n \in 1 .. Len(ss) : n \in 0 .. Len(ss) /\ n - 1 \in 0 .. Len(ss)
  OBVIOUS
<1>2. Cat(<<>>, <<>>) = <<>>
  BY DEF Cat
<1>3. Joins(g, ss)
  BY Zenon, <1>1, <1>2 DEF Joins
<1>4. g[Len(ss)] = <<>>
  BY Zenon, <1>1
<1> HIDE DEF g
<1> QED
  BY Zenon, <1>3, <1>4, FlatIs

\* Joining sequences that are empty but for one gives that one.
LEMMA FlatOne ==
  ASSUME NEW T, NEW ss \in Seq(Seq(T)), NEW k \in 1 .. Len(ss),
         \A n \in 1 .. Len(ss) : n # k => ss[n] = <<>>
  PROVE  Joined(ss) = ss[k]
<1> DEFINE g == [n \in 0 .. Len(ss) |-> IF n < k THEN <<>> ELSE ss[k]]
<1>1. /\ Len(ss) \in 0 .. Len(ss) /\ 0 \in 0 .. Len(ss) /\ 0 < k /\ ~(Len(ss) < k)
      /\ \A n \in 1 .. Len(ss) : n \in 0 .. Len(ss) /\ n - 1 \in 0 .. Len(ss)
  OBVIOUS
<1>2. g[0] = <<>> /\ g[Len(ss)] = ss[k]
  BY Zenon, <1>1
<1>3. ASSUME NEW n \in 1 .. Len(ss) PROVE g[n] = Cat(g[n - 1], ss[n])
  <2>0. Cat(<<>>, <<>>) = <<>> /\ Cat(<<>>, ss[k]) = ss[k] /\ Cat(ss[k], <<>>) = ss[k]
    <3>1. ss[k] \in Seq(T)
      OBVIOUS
    <3> QED
      BY <3>1 DEF Cat
  <2>1. CASE n < k
    <3>1. n - 1 < k /\ n # k
      BY <2>1
    <3> QED
      BY Zenon, <1>1, <2>0, <2>1, <3>1
  <2>2. CASE n = k
    <3>1. n - 1 < k /\ ~(n < k)
      BY <2>2
    <3>2. g[n] = ss[k] /\ g[n - 1] = <<>>
      BY Zenon, <1>1, <3>1
    <3> HIDE DEF g
    <3> QED
      BY Zenon, <2>0, <2>2, <3>2
  <2>3. CASE ~(n < k) /\ n # k
    <3>1. ~(n - 1 < k)
      BY <2>3
    <3>2. g[n] = ss[k] /\ g[n - 1] = ss[k] /\ ss[n] = <<>>
      BY Zenon, <1>1, <2>3, <3>1
    <3> HIDE DEF g
    <3> QED
      BY Zenon, <2>0, <3>2
  <2> QED
    BY Zenon, <2>1, <2>2, <2>3
<1> HIDE DEF g
<1>4. Joins(g, ss)
  BY Zenon, <1>2, <1>3 DEF Joins
<1> QED
  BY Zenon, <1>2, <1>4, FlatIs

\* The concatenation of two lists of parts.
LEMMA FlatJoin ==
  ASSUME NEW T, NEW ss \in Seq(Seq(T)), NEW tt \in Seq(Seq(T))
  PROVE  Joined(ss \o tt) = Joined(ss) \o Joined(tt)
<1>1. PICK g : Joins(g, ss)
  BY Zenon, JoinsExist
<1>2. PICK h : Joins(h, tt)
  BY Zenon, JoinsExist
<1> DEFINE M == Len(ss)
           N == Len(tt)
           u == ss \o tt
           f == [n \in 0 .. M + N |-> IF n <= M THEN g[n] ELSE Cat(g[M], h[n - M])]
<1>3. /\ M \in Nat /\ N \in Nat /\ Len(u) = M + N /\ u \in Seq(Seq(T))
      /\ \A n \in 1 .. M : u[n] = ss[n]
      /\ \A n \in 1 .. N : u[M + n] = tt[n]
      /\ \A n \in 1 .. N : tt[n] \in Seq(T)
  OBVIOUS
<1>4. g[0] = <<>> /\ \A n \in 1 .. M : g[n] = Cat(g[n - 1], ss[n])
  BY Zenon, <1>1 DEF Joins
<1>5. h[0] = <<>> /\ \A n \in 1 .. N : h[n] = Cat(h[n - 1], tt[n])
  BY Zenon, <1>2 DEF Joins
<1>6. (\A n \in 0 .. M : g[n] \in Seq(T)) /\ (\A n \in 0 .. N : h[n] \in Seq(T))
  BY Zenon, <1>1, <1>2, JoinsTyped
<1>7. Joined(ss) = g[M] /\ Joined(tt) = h[N]
  BY Zenon, <1>1, <1>2, FlatIs
<1> HIDE DEF M, N, u
<1>8. M \in 0 .. M /\ 0 \in 0 .. M /\ N \in 0 .. N /\ 0 \in 0 .. M + N /\ 0 <= M /\ M + N \in 0 .. M + N
  BY <1>3
<1>9. g[M] \in Seq(T) /\ Cat(g[M], <<>>) = g[M]
  <2>1. g[M] \in Seq(T)
    BY Zenon, <1>6, <1>8
  <2> QED
    BY Zenon, <2>1, CatFacts
<1>10. ASSUME NEW n \in 1 .. M + N PROVE f[n] = Cat(f[n - 1], u[n])
  <2>1. n \in 0 .. M + N /\ n - 1 \in 0 .. M + N
    BY <1>3
  <2>2. CASE n <= M
    <3>1. n - 1 <= M /\ n \in 1 .. M
      BY <1>3, <2>2
    <3>2. f[n] = g[n] /\ f[n - 1] = g[n - 1]
      BY Zenon, <2>1, <2>2, <3>1
    <3> HIDE DEF f
    <3> QED
      BY Zenon, <1>3, <1>4, <3>1, <3>2
  <2>3. CASE ~(n <= M)
    <3> DEFINE k == n - M
    <3>1. k \in 1 .. N /\ k - 1 \in 0 .. N /\ M + k = n /\ (n - 1) - M = k - 1
      BY <1>3, <2>3
    <3>2. f[n] = Cat(g[M], h[k])
      BY Zenon, <2>1, <2>3
    <3>3. f[n - 1] = Cat(g[M], h[k - 1])
      <4>1. CASE n - 1 <= M
        <5>1. n - 1 = M /\ k - 1 = 0
          BY <1>3, <2>3, <4>1
        <5>2. f[n - 1] = g[M]
          BY Zenon, <2>1, <4>1, <5>1
        <5> HIDE DEF f
        <5> QED
          BY Zenon, <1>5, <1>9, <5>1, <5>2
      <4>2. CASE ~(n - 1 <= M)
        <5>1. f[n - 1] = Cat(g[M], h[(n - 1) - M])
          BY Zenon, <2>1, <4>2
        <5> HIDE DEF f
        <5> QED
          BY Zenon, <3>1, <5>1
      <4> QED
        BY Zenon, <4>1, <4>2
    <3> HIDE DEF f, k
    <3>4. u[n] = tt[k] /\ h[k] = Cat(h[k - 1], tt[k]) /\ tt[k] \in Seq(T) /\ h[k - 1] \in Seq(T)
      BY Zenon, <1>3, <1>5, <1>6, <3>1
    <3>5. Cat(Cat(g[M], h[k - 1]), tt[k]) = Cat(g[M], Cat(h[k - 1], tt[k]))
      BY <1>9, <3>4, CatAssoc
    <3> QED
      BY Zenon, <3>2, <3>3, <3>4, <3>5
  <2> QED
    BY Zenon, <2>2, <2>3
<1>11. f[0] = <<>>
  BY Zenon, <1>4, <1>8
<1>12. f[M + N] = Cat(g[M], h[N])
  <2>1. CASE M + N <= M
    <3>1. N = 0 /\ M + N = M
      BY <1>3, <2>1
    <3>2. f[M + N] = g[M]
      BY Zenon, <1>8, <2>1, <3>1
    <3> HIDE DEF f
    <3> QED
      BY Zenon, <1>5, <1>9, <3>1, <3>2
  <2>2. CASE ~(M + N <= M)
    <3>1. (M + N) - M = N
      BY <1>3
    <3> QED
      BY Zenon, <1>8, <2>2, <3>1
  <2> QED
    BY Zenon, <2>1, <2>2
<1> HIDE DEF f
<1>13. Joins(f, u)
  BY Zenon, <1>3, <1>10, <1>11 DEF Joins
<1>14. Joined(u) = f[Len(u)]
  BY Zenon, <1>3, <1>13, FlatIs
<1> QED
  BY Zenon, <1>3, <1>7, <1>12, <1>14 DEF u, Cat

\* The elements of a sequence, and sequences without repetition.
Distinct(s) == \A i, j \in 1 .. Len(s) : s[i] = s[j] => i = j

\* The elements of a sequence are what its indices give.
LEMMA InSeq ==
  ASSUME NEW T, NEW s \in Seq(T)
  PROVE  /\ Len(s) \in Nat /\ \A e : e \in Range(s) <=> \E i \in 1 .. Len(s) : e = s[i]
         /\ Range(s) \subseteq T
<1>1. Len(s) \in Nat /\ DOMAIN s = 1 .. Len(s) /\ \A i \in 1 .. Len(s) : s[i] \in T
  OBVIOUS
<1> QED
  BY Zenon, <1>1 DEF Range

\* The empty sequence has no element.
LEMMA NothingIn == Range(<<>>) = {} /\ Distinct(<<>>) /\ 1 .. 0 = {}
<1>1. 1 .. 0 = {}
  OBVIOUS
<1>2. Len(<<>>) = 0 /\ <<>> \in Seq({})
  OBVIOUS
<1>3. ASSUME NEW s, s = <<>> PROVE Range(s) = {} /\ Distinct(s)
  <2>1. Len(s) = 0 /\ s \in Seq({})
    BY Zenon, <1>2, <1>3
  <2>2. \A e : e \in Range(s) <=> \E i \in 1 .. Len(s) : e = s[i]
    BY Zenon, <2>1, InSeq
  <2>3. 1 .. Len(s) = {}
    BY Zenon, <1>1, <2>1
  <2>4. Range(s) = {}
    BY Zenon, <2>2, <2>3
  <2>5. Distinct(s)
    BY Zenon, <2>3 DEF Distinct
  <2> QED
    BY Zenon, <2>4, <2>5
<1> QED
  BY Zenon, <1>1, <1>3

\* An index of a concatenation lies in one part or in the other.
LEMMA CatIndex ==
  ASSUME NEW T, NEW x \in Seq(T), NEW y \in Seq(T), NEW i \in 1 .. Len(Cat(x, y))
  PROVE  \/ i \in 1 .. Len(x) /\ Cat(x, y)[i] = x[i]
         \/ /\ ~(i <= Len(x)) /\ i - Len(x) \in 1 .. Len(y) /\ Cat(x, y)[i] = y[i - Len(x)]
            /\ Len(x) + (i - Len(x)) = i
BY DEF Cat

\* The elements of a concatenation.
LEMMA CatSet ==
  ASSUME NEW T, NEW x \in Seq(T), NEW y \in Seq(T)
  PROVE  \A e : e \in Range(Cat(x, y)) <=> e \in Range(x) \/ e \in Range(y)
<1> DEFINE z == Cat(x, y)
<1>1. /\ z \in Seq(T) /\ Len(x) \in Nat /\ Len(y) \in Nat /\ Len(z) = Len(x) + Len(y)
      /\ \A i \in 1 .. Len(x) : z[i] = x[i]
      /\ \A i \in 1 .. Len(y) : z[Len(x) + i] = y[i]
  BY DEF Cat
<1>2. (\A i \in 1 .. Len(x) : i \in 1 .. Len(z)) /\ \A i \in 1 .. Len(y) : Len(x) + i \in 1 .. Len(z)
  <2> HIDE DEF z
  <2> QED
    BY <1>1
<1>3. ASSUME NEW i \in 1 .. Len(z)
      PROVE  (\E j \in 1 .. Len(x) : z[i] = x[j]) \/ (\E j \in 1 .. Len(y) : z[i] = y[j])
  <2>1. \/ i \in 1 .. Len(x) /\ z[i] = x[i]
        \/ i - Len(x) \in 1 .. Len(y) /\ z[i] = y[i - Len(x)]
    BY Zenon, CatIndex
  <2> QED
    BY Zenon, <2>1
<1> HIDE DEF z
<1>4. \A e \in Range(z) : e \in Range(x) \/ e \in Range(y)
  <2>1. ASSUME NEW i \in 1 .. Len(z) PROVE z[i] \in Range(x) \/ z[i] \in Range(y)
    BY Zenon, <1>3, InSeq
  <2>2. \A e \in Range(z) : \E i \in 1 .. Len(z) : e = z[i]
    <3>1. z \in Seq(T)
      BY Zenon, <1>1
    <3> QED
      BY Zenon, <3>1, InSeq
  <2> QED
    BY Zenon, <2>1, <2>2
<1>5. ASSUME NEW i \in 1 .. Len(x) PROVE x[i] \in Range(z)
  <2>1. x[i] = z[i] /\ i \in 1 .. Len(z)
    BY Zenon, <1>1, <1>2
  <2> QED
    BY Zenon, <1>1, <2>1, InSeq
<1>6. ASSUME NEW i \in 1 .. Len(y) PROVE y[i] \in Range(z)
  <2>1. y[i] = z[Len(x) + i] /\ Len(x) + i \in 1 .. Len(z)
    BY Zenon, <1>1, <1>2
  <2> QED
    BY Zenon, <1>1, <2>1, InSeq
<1>7. Range(x) \subseteq Range(z) /\ Range(y) \subseteq Range(z)
  <2>1. \A e \in Range(x) : \E i \in 1 .. Len(x) : e = x[i]
    BY Zenon, InSeq
  <2>2. \A e \in Range(y) : \E i \in 1 .. Len(y) : e = y[i]
    BY Zenon, InSeq
  <2> QED
    BY Zenon, <2>1, <2>2, <1>5, <1>6
<1> QED
  BY Zenon, <1>4, <1>7 DEF z

\* A concatenation of two sequences without a common element repeats none.
LEMMA CatDistinct ==
  ASSUME NEW T, NEW x \in Seq(T), NEW y \in Seq(T), Distinct(x), Distinct(y),
         \A e \in Range(x) : e \notin Range(y)
  PROVE  Distinct(Cat(x, y))
<1> DEFINE z == Cat(x, y)
<1>1. \A i \in 1 .. Len(x), j \in 1 .. Len(y) : x[i] # y[j]
  <2> TAKE i \in 1 .. Len(x), j \in 1 .. Len(y)
  <2>1. x[i] \in Range(x) /\ y[j] \in Range(y)
    BY Zenon, InSeq
  <2> QED
    BY Zenon, <2>1
<1>a. ASSUME NEW i \in 1 .. Len(z)
      PROVE  \/ i \in 1 .. Len(x) /\ z[i] = x[i]
             \/ i - Len(x) \in 1 .. Len(y) /\ z[i] = y[i - Len(x)] /\ Len(x) + (i - Len(x)) = i
  BY Zenon, CatIndex
<1> HIDE DEF z
<1>2. ASSUME NEW i \in 1 .. Len(z), NEW j \in 1 .. Len(z), z[i] = z[j] PROVE i = j
  <2>1. \/ i \in 1 .. Len(x) /\ z[i] = x[i]
        \/ i - Len(x) \in 1 .. Len(y) /\ z[i] = y[i - Len(x)] /\ Len(x) + (i - Len(x)) = i
    BY Zenon, <1>a
  <2>2. \/ j \in 1 .. Len(x) /\ z[j] = x[j]
        \/ j - Len(x) \in 1 .. Len(y) /\ z[j] = y[j - Len(x)] /\ Len(x) + (j - Len(x)) = j
    BY Zenon, <1>a
  <2>3. CASE i \in 1 .. Len(x) /\ z[i] = x[i]
    BY Zenon, <1>1, <1>2, <2>2, <2>3 DEF Distinct
  <2>4. CASE i - Len(x) \in 1 .. Len(y) /\ z[i] = y[i - Len(x)] /\ Len(x) + (i - Len(x)) = i
    <3> DEFINE p == i - Len(x)
               q == j - Len(x)
    <3>1. p \in 1 .. Len(y) /\ z[i] = y[p] /\ Len(x) + p = i
      BY Zenon, <2>4
    <3>2. \/ j \in 1 .. Len(x) /\ z[j] = x[j]
          \/ q \in 1 .. Len(y) /\ z[j] = y[q] /\ Len(x) + q = j
      BY Zenon, <2>2
    <3> HIDE DEF p, q
    <3>3. p = q
      BY Zenon, <1>1, <1>2, <3>1, <3>2 DEF Distinct
    <3>4. Len(x) + q = j
      BY Zenon, <1>1, <1>2, <3>1, <3>2
    <3> QED
      BY Zenon, <3>1, <3>3, <3>4
  <2> QED
    BY Zenon, <2>1, <2>3, <2>4
<1>3. Distinct(z)
  BY Zenon, <1>2 DEF Distinct
<1> QED
  BY Zenon, <1>3 DEF z

\* The elements of joined sequences.
LEMMA FlatSet ==
  ASSUME NEW T, NEW ss \in Seq(Seq(T)), NEW e
  PROVE  e \in Range(Joined(ss)) <=> \E n \in 1 .. Len(ss) : e \in Range(ss[n])
<1>1. PICK g : Joins(g, ss)
  BY Zenon, JoinsExist
<1> DEFINE N == Len(ss)
           I == {n \in 0 .. N : e \in Range(g[n]) <=> \E m \in 1 .. n : e \in Range(ss[m])}
<1>2. N \in Nat /\ \A n \in 1 .. N : ss[n] \in Seq(T) /\ n \in 0 .. N /\ n - 1 \in 0 .. N
  OBVIOUS
<1>3. (\A n \in 0 .. N : g[n] \in Seq(T)) /\ g[0] = <<>> /\ \A n \in 1 .. N : g[n] = Cat(g[n - 1], ss[n])
  BY Zenon, <1>1, JoinsTyped DEF Joins
<1> HIDE DEF N
<1>4. 0 \in I
  <2>1. 0 \in 0 .. N
    <3>1. N \in Nat
      BY Zenon, <1>2
    <3> QED
      BY <3>1
  <2>2. Range(g[0]) = {} /\ Distinct(g[0])
    BY Zenon, <1>3, NothingIn
  <2> QED
    BY Zenon, <2>1, <2>2, NothingIn
<1>5. ASSUME NEW n \in 1 .. N, n - 1 \in I PROVE n \in I
  <2>1. n \in 1 .. n /\ \A m : m \in 1 .. n <=> m \in 1 .. n - 1 \/ m = n
    BY <1>2
  <2>2. \A x : x \in Range(g[n]) <=> x \in Range(g[n - 1]) \/ x \in Range(ss[n])
    <3>1. g[n - 1] \in Seq(T) /\ ss[n] \in Seq(T) /\ g[n] = Cat(g[n - 1], ss[n])
      BY Zenon, <1>2, <1>3
    <3> QED
      BY Zenon, <3>1, CatSet
  <2>3. e \in Range(g[n - 1]) <=> \E m \in 1 .. n - 1 : e \in Range(ss[m])
    BY Zenon, <1>5
  <2>4. e \in Range(g[n]) <=> \E m \in 1 .. n : e \in Range(ss[m])
    BY Zenon, <2>1, <2>2, <2>3
  <2> QED
    BY Zenon, <1>2, <2>4
<1>6. N \in I
  <2>1. N \in 0 .. N
    BY <1>2
  <2> HIDE DEF I
  <2> QED
    BY Zenon, <1>2, <1>4, <1>5, <2>1, UpTo
<1>7. Joined(ss) = g[N]
  BY Zenon, <1>1, FlatIs DEF N
<1> QED
  BY Zenon, <1>6, <1>7 DEF N

\* Joined sequences without common elements repeat none.
LEMMA FlatDistinct ==
  ASSUME NEW T, NEW ss \in Seq(Seq(T)), \A n \in 1 .. Len(ss) : Distinct(ss[n]),
         \A m, n \in 1 .. Len(ss) : m < n => \A e \in Range(ss[m]) : e \notin Range(ss[n])
  PROVE  Distinct(Joined(ss))
<1>1. PICK g : Joins(g, ss)
  BY Zenon, JoinsExist
<1> DEFINE N == Len(ss)
           In(n) == \A e \in Range(g[n]) : \E m \in 1 .. n : e \in Range(ss[m])
           I == {n \in 0 .. N : Distinct(g[n]) /\ In(n)}
<1>2. N \in Nat /\ \A n \in 1 .. N : ss[n] \in Seq(T) /\ n \in 0 .. N /\ n - 1 \in 0 .. N
  OBVIOUS
<1>3. (\A n \in 0 .. N : g[n] \in Seq(T)) /\ g[0] = <<>> /\ \A n \in 1 .. N : g[n] = Cat(g[n - 1], ss[n])
  BY Zenon, <1>1, JoinsTyped DEF Joins
<1>a. /\ \A n \in 1 .. N : Distinct(ss[n])
      /\ \A m, n \in 1 .. N : m < n => \A e \in Range(ss[m]) : e \notin Range(ss[n])
  BY Zenon
<1> HIDE DEF N
<1>4. 0 \in I
  <2>1. 0 \in 0 .. N
    <3>1. N \in Nat
      BY Zenon, <1>2
    <3> QED
      BY <3>1
  <2>2. Range(g[0]) = {} /\ Distinct(g[0])
    BY Zenon, <1>3, NothingIn
  <2> QED
    BY Zenon, <2>1, <2>2, NothingIn
<1>5. ASSUME NEW n \in 1 .. N, n - 1 \in I PROVE n \in I
  <2>1. n \in 1 .. n /\ \A m \in 1 .. n - 1 : m \in 1 .. n /\ m < n /\ m \in 1 .. N
    BY <1>2
  <2>2. \A x : x \in Range(g[n]) <=> x \in Range(g[n - 1]) \/ x \in Range(ss[n])
    <3>1. g[n - 1] \in Seq(T) /\ ss[n] \in Seq(T) /\ g[n] = Cat(g[n - 1], ss[n])
      BY Zenon, <1>2, <1>3
    <3> QED
      BY ONLY Zenon, <3>1, CatSet
  <2>3. In(n - 1) /\ Distinct(g[n - 1])
    BY Zenon, <1>5
  <2>4. In(n)
    BY Zenon, <2>1, <2>2, <2>3
  <2>5. \A e \in Range(g[n - 1]) : e \notin Range(ss[n])
    BY Zenon, <1>a, <2>1, <2>3
  <2>6. Distinct(Cat(g[n - 1], ss[n]))
    BY Zenon, <1>2, <1>3, <1>a, <2>3, <2>5, CatDistinct
  <2> QED
    BY Zenon, <1>2, <1>3, <2>4, <2>6
<1>6. N \in I
  <2>1. N \in 0 .. N
    BY <1>2
  <2> HIDE DEF I
  <2> QED
    BY Zenon, <1>2, <1>4, <1>5, <2>1, UpTo
<1>7. Joined(ss) = g[N]
  BY Zenon, <1>1, FlatIs DEF N
<1> QED
  BY Zenon, <1>6, <1>7

\* Joining the elements of a sequence, one by one, gives it back.
LEMMA FlatSelf ==
  ASSUME NEW T, NEW s \in Seq(T), NEW ss \in Seq(Seq(T)), Len(ss) = Len(s),
         \A n \in 1 .. Len(s) : ss[n] = <<s[n]>>
  PROVE  Joined(ss) = s
<1> DEFINE g == [n \in 0 .. Len(s) |-> SubSeq(s, 1, n)]
<1>1. /\ Len(s) \in 0 .. Len(s) /\ 0 \in 0 .. Len(s)
      /\ \A n \in 1 .. Len(s) : n \in 0 .. Len(s) /\ n - 1 \in 0 .. Len(s)
  OBVIOUS
<1>2. SubSeq(s, 1, 0) = <<>> /\ SubSeq(s, 1, Len(s)) = s
  OBVIOUS
<1>3. ASSUME NEW n \in 1 .. Len(s) PROVE SubSeq(s, 1, n) = Cat(SubSeq(s, 1, n - 1), <<s[n]>>)
  BY DEF Cat
<1>4. \A n \in 1 .. Len(s) : g[n] = Cat(g[n - 1], ss[n])
  BY Zenon, <1>1, <1>3
<1>5. g[0] = <<>> /\ g[Len(s)] = s
  BY Zenon, <1>1, <1>2
<1> HIDE DEF g
<1>6. Joins(g, ss)
  BY Zenon, <1>4, <1>5 DEF Joins
<1> QED
  BY Zenon, <1>5, <1>6, FlatIs

\* A sequence of one element.
LEMMA SingleIn ==
  ASSUME NEW x
  PROVE  (\A e : e \in Range(<<x>>) <=> e = x) /\ Distinct(<<x>>)
<1>1. Len(<<x>>) = 1 /\ <<x>> \in Seq({x}) /\ <<x>>[1] = x
  OBVIOUS
<1>2. \A i : i \in 1 .. 1 <=> i = 1
  OBVIOUS
<1> DEFINE s == <<x>>
<1>3. Len(s) = 1 /\ s \in Seq({x}) /\ s[1] = x
  BY Zenon, <1>1
<1> HIDE DEF s
<1>4. \A e : e \in Range(s) <=> \E i \in 1 .. Len(s) : e = s[i]
  BY Zenon, <1>3, InSeq
<1>5. (\A e : e \in Range(s) <=> e = x) /\ Distinct(s)
  <2>1. \A i : i \in 1 .. Len(s) <=> i = 1
    BY Zenon, <1>2, <1>3
  <2>2. \A e : e \in Range(s) <=> e = x
    BY <1>3, <1>4, <2>1
  <2>3. Distinct(s)
    BY <2>1 DEF Distinct
  <2> QED
    BY Zenon, <2>2, <2>3
<1> QED
  BY Zenon, <1>5 DEF s

\* The elements of s at the indices in U, in their order.
Picked(s, U) == Joined([i \in 1 .. Len(s) |-> IF i \in U THEN <<s[i]>> ELSE <<>>])

\* What is picked from a sequence.
LEMMA PickedFacts ==
  ASSUME NEW T, NEW s \in Seq(T), NEW U
  PROVE  /\ Picked(s, U) \in Seq(T)
         /\ \A e : e \in Range(Picked(s, U)) <=> \E i \in 1 .. Len(s) : i \in U /\ e = s[i]
         /\ Distinct(s) => Distinct(Picked(s, U))
         /\ (\A i \in 1 .. Len(s) : i \in U) => Picked(s, U) = s
         /\ (\A i \in 1 .. Len(s) : i \notin U) => Picked(s, U) = <<>>
<1> DEFINE ss == [i \in 1 .. Len(s) |-> IF i \in U THEN <<s[i]>> ELSE <<>>]
<1>1. Len(s) \in Nat /\ \A i \in 1 .. Len(s) : s[i] \in T
  OBVIOUS
<1>2. \A i \in 1 .. Len(s) : ss[i] = IF i \in U THEN <<s[i]>> ELSE <<>>
  BY Zenon
<1>3. ss \in Seq(Seq(T)) /\ Len(ss) = Len(s)
  BY <1>1
<1>4. Picked(s, U) = Joined(ss)
  BY Zenon DEF Picked
<1> HIDE DEF ss
<1>5. Picked(s, U) \in Seq(T)
  BY Zenon, <1>3, <1>4, FlatType
<1>6. ASSUME NEW i \in 1 .. Len(s)
      PROVE  /\ \A e : e \in Range(ss[i]) <=> i \in U /\ e = s[i]
             /\ Distinct(ss[i])
  <2>1. CASE i \in U
    <3>1. ss[i] = <<s[i]>>
      BY Zenon, <1>2, <2>1
    <3> QED
      BY Zenon, <2>1, <3>1, SingleIn
  <2>2. CASE i \notin U
    <3>1. ss[i] = <<>>
      BY Zenon, <1>2, <2>2
    <3>2. Range(ss[i]) = {} /\ Distinct(ss[i])
      BY Zenon, <3>1, NothingIn
    <3> QED
      BY Zenon, <2>2, <3>2
  <2> QED
    BY Zenon, <2>1, <2>2
<1>7. \A e : e \in Range(Joined(ss)) <=> \E i \in 1 .. Len(ss) : e \in Range(ss[i])
  BY Zenon, <1>3, FlatSet
<1>8. \A e : e \in Range(Picked(s, U)) <=> \E i \in 1 .. Len(s) : i \in U /\ e = s[i]
  <2> TAKE e
  <2>1. (\E i \in 1 .. Len(s) : e \in Range(ss[i])) <=> \E i \in 1 .. Len(s) : i \in U /\ e = s[i]
    BY Zenon, <1>6
  <2> QED
    BY Zenon, <1>3, <1>4, <1>7, <2>1
<1>9. ASSUME Distinct(s) PROVE Distinct(Picked(s, U))
  <2>1. ASSUME NEW m \in 1 .. Len(ss), NEW n \in 1 .. Len(ss), m < n,
               NEW e \in Range(ss[m]), e \in Range(ss[n])
        PROVE  FALSE
    <3>1. m \in 1 .. Len(s) /\ n \in 1 .. Len(s)
      BY Zenon, <1>3
    <3>2. s[m] = s[n]
      BY Zenon, <1>6, <2>1, <3>1
    <3>3. m = n
      BY Zenon, <1>9, <3>1, <3>2 DEF Distinct
    <3> QED
      BY <1>1, <2>1, <3>1, <3>3
  <2>2. \A m, n \in 1 .. Len(ss) : m < n => \A e \in Range(ss[m]) : e \notin Range(ss[n])
    BY Zenon, <2>1
  <2>3. \A n \in 1 .. Len(ss) : Distinct(ss[n])
    BY Zenon, <1>3, <1>6
  <2> QED
    BY Zenon, <1>3, <1>4, <2>2, <2>3, FlatDistinct
<1>10. ASSUME \A i \in 1 .. Len(s) : i \in U PROVE Picked(s, U) = s
  <2>1. \A n \in 1 .. Len(s) : ss[n] = <<s[n]>>
    BY Zenon, <1>2, <1>10
  <2> QED
    BY Zenon, <1>3, <1>4, <2>1, FlatSelf
<1>11. ASSUME \A i \in 1 .. Len(s) : i \notin U PROVE Picked(s, U) = <<>>
  <2>1. \A n \in 1 .. Len(ss) : ss[n] = <<>>
    BY Zenon, <1>2, <1>3, <1>11
  <2> QED
    BY Zenon, <1>3, <1>4, <2>1, FlatNone
<1> QED
  BY Zenon, <1>5, <1>8, <1>9, <1>10, <1>11

-----------------------------------------------------------------------------
(* The operators of Ingest. *)

\* What a buffer takes from the data received is what came from its address.
LEMMA FromFacts ==
  ASSUME NEW data \in Seq(Datagram), NEW a
  PROVE  /\ From(a, data) \in Seq(Datagram)
         /\ \A d : d \in Range(From(a, data)) <=> d \in Range(data) /\ AddrOf[d] = a
         /\ Distinct(data) => Distinct(From(a, data))
<1> DEFINE U == {i \in 1 .. Len(data) : AddrOf[data[i]] = a}
<1>1. DOMAIN data = 1 .. Len(data)
  OBVIOUS
<1>2. From(a, data) = Picked(data, U)
  <2>1. \A i \in 1 .. Len(data) : AddrOf[data[i]] = a <=> i \in U
    BY Zenon
  <2> HIDE DEF U
  <2> DEFINE ss == [i \in 1 .. Len(data) |-> IF AddrOf[data[i]] = a THEN <<data[i]>> ELSE <<>>]
             tt == [i \in 1 .. Len(data) |-> IF i \in U THEN <<data[i]>> ELSE <<>>]
  <2>2. ss = tt
    BY Zenon, <2>1
  <2> QED
    BY Zenon, <1>1, <2>2 DEF From, Picked
<1>3. /\ Picked(data, U) \in Seq(Datagram)
      /\ \A e : e \in Range(Picked(data, U)) <=> \E i \in 1 .. Len(data) : i \in U /\ e = data[i]
      /\ Distinct(data) => Distinct(Picked(data, U))
  <2> HIDE DEF U
  <2> QED
    BY ONLY PickedFacts, data \in Seq(Datagram)
<1>4. \A d : d \in Range(data) <=> \E i \in 1 .. Len(data) : d = data[i]
  BY Zenon, InSeq
<1>5. \A d : (\E i \in 1 .. Len(data) : i \in U /\ d = data[i]) <=> d \in Range(data) /\ AddrOf[d] = a
  BY Zenon, <1>4
<1> HIDE DEF U
<1> QED
  BY Zenon, <1>2, <1>3, <1>5

\* What is left of s without D.
Drop(s, D) == Joined([i \in DOMAIN s |-> IF s[i] \in D THEN <<>> ELSE <<s[i]>>])

\* What is left of a sequence when the elements of D are dropped.
LEMMA DropFacts ==
  ASSUME NEW T, NEW s \in Seq(T), NEW D
  PROVE  /\ Drop(s, D) \in Seq(T)
         /\ (\A e \in Range(s) : e \notin D) => Drop(s, D) = s
         /\ (\A e \in Range(s) : e \in D) => Drop(s, D) = <<>>
<1> DEFINE U == {i \in 1 .. Len(s) : s[i] \notin D}
<1>1. DOMAIN s = 1 .. Len(s)
  OBVIOUS
<1>2. \A i \in 1 .. Len(s) : s[i] \in D <=> i \notin U
  BY Zenon
<1>3. Drop(s, D) = Picked(s, U)
  <2> HIDE DEF U
  <2> DEFINE ss == [i \in 1 .. Len(s) |-> IF s[i] \in D THEN <<>> ELSE <<s[i]>>]
             tt == [i \in 1 .. Len(s) |-> IF i \in U THEN <<s[i]>> ELSE <<>>]
  <2>2. ss = tt
    BY Zenon, <1>2
  <2> QED
    BY Zenon, <1>1, <2>2 DEF Drop, Picked
<1>4. \A i \in 1 .. Len(s) : s[i] \in Range(s)
  BY Zenon, InSeq
<1> HIDE DEF U
<1>5. /\ Picked(s, U) \in Seq(T)
      /\ (\A i \in 1 .. Len(s) : i \in U) => Picked(s, U) = s
      /\ (\A i \in 1 .. Len(s) : i \notin U) => Picked(s, U) = <<>>
  BY Zenon, PickedFacts
<1> QED
  BY Zenon, <1>2, <1>3, <1>4, <1>5

\* Dropping from a concatenation.
LEMMA DropCat ==
  ASSUME NEW T, NEW x \in Seq(T), NEW y \in Seq(T), NEW D
  PROVE  Drop(Cat(x, y), D) = Cat(Drop(x, D), Drop(y, D))
<1> DEFINE z == Cat(x, y)
           Cut(s) == [i \in DOMAIN s |-> IF s[i] \in D THEN <<>> ELSE <<s[i]>>]
<1>1. /\ z \in Seq(T) /\ Len(z) = Len(x) + Len(y) /\ Len(x) \in Nat /\ Len(y) \in Nat
      /\ \A i \in 1 .. Len(x) : z[i] = x[i]
      /\ \A i \in 1 .. Len(y) : z[Len(x) + i] = y[i]
  BY DEF Cat
<1>2. ASSUME NEW s \in Seq(T)
      PROVE  Cut(s) \in Seq(Seq(T)) /\ Len(Cut(s)) = Len(s) /\ Drop(s, D) = Joined(Cut(s))
             /\ \A i \in 1 .. Len(s) : Cut(s)[i] = IF s[i] \in D THEN <<>> ELSE <<s[i]>>
  <2>1. DOMAIN s = 1 .. Len(s) /\ Len(s) \in Nat
    OBVIOUS
  <2>2. Cut(s) \in Seq(Seq(T)) /\ Len(Cut(s)) = Len(s)
    BY <2>1
  <2>3. Drop(s, D) = Joined(Cut(s))
    BY Zenon DEF Drop
  <2> QED
    BY Zenon, <2>1, <2>2, <2>3
<1> HIDE DEF z, Cut
<1>3. Cut(z) = Cut(x) \o Cut(y)
  <2> DEFINE p == Cut(x)
             q == Cut(y)
             r == Cut(z)
  <2>1. /\ p \in Seq(Seq(T)) /\ q \in Seq(Seq(T)) /\ r \in Seq(Seq(T))
        /\ Len(p) = Len(x) /\ Len(q) = Len(y) /\ Len(r) = Len(x) + Len(y)
    BY Zenon, <1>1, <1>2
  <2>2. ASSUME NEW i \in 1 .. Len(x) PROVE r[i] = p[i]
    <3>1. i \in 1 .. Len(z)
      BY <1>1
    <3> QED
      BY Zenon, <1>1, <1>2, <3>1
  <2>3. ASSUME NEW i \in 1 .. Len(y) PROVE r[Len(x) + i] = q[i]
    <3> DEFINE k == Len(x) + i
    <3>1. k \in 1 .. Len(z)
      BY <1>1
    <3>2. z[k] = y[i]
      BY Zenon, <1>1
    <3> HIDE DEF k
    <3>3. r[k] = IF z[k] \in D THEN <<>> ELSE <<z[k]>>
      BY Zenon, <1>1, <1>2, <3>1
    <3>4. q[i] = IF y[i] \in D THEN <<>> ELSE <<y[i]>>
      BY Zenon, <1>2
    <3>5. r[k] = q[i]
      BY ONLY <3>2, <3>3, <3>4
    <3> QED
      BY Zenon, <3>5 DEF k
  <2> HIDE DEF p, q, r
  <2>4. r = p \o q
    <3>1. /\ Len(r) = Len(p) + Len(q)
          /\ \A i \in 1 .. Len(p) : r[i] = p[i]
          /\ \A i \in 1 .. Len(q) : r[Len(p) + i] = q[i]
      BY Zenon, <2>1, <2>2, <2>3
    <3> QED
      BY ONLY Zenon, <2>1, <3>1, IsCat
  <2> QED
    BY Zenon, <2>4 DEF p, q, r
<1>4. Joined(Cut(x) \o Cut(y)) = Joined(Cut(x)) \o Joined(Cut(y))
  BY Zenon, <1>2, FlatJoin
<1>5. Drop(z, D) = Joined(Cut(z)) /\ Drop(x, D) = Joined(Cut(x)) /\ Drop(y, D) = Joined(Cut(y))
  BY Zenon, <1>1, <1>2
<1> QED
  BY Zenon, <1>3, <1>4, <1>5 DEF z, Cat

Task == [addr : Addr, data : Seq(Datagram)]

\* The parts of a task in a queue.
LEMMA TaskParts ==
  ASSUME NEW q \in Seq(Task), NEW i \in 1 .. Len(q)
  PROVE  q[i] \in Task /\ q[i].addr \in Addr /\ q[i].data \in Seq(Datagram)
<1>1. q[i] \in Task
  OBVIOUS
<1> QED
  BY <1>1 DEF Task

\* What waits in the tasks of q for an address.
LEMMA WaitingFacts ==
  ASSUME NEW q \in Seq(Task), NEW a
  PROVE  /\ Waiting(q, a) \in Seq(Datagram)
         /\ \A d \in Range(Waiting(q, a)) : \E i \in 1 .. Len(q) : d \in Range(q[i].data)
         /\ \A k \in 1 .. Len(q) : q[k].addr = a /\ (\A i \in 1 .. Len(q) : q[i].addr = a => i = k)
                 => Waiting(q, a) = q[k].data
         /\ (\A i \in 1 .. Len(q) : q[i].addr # a) => Waiting(q, a) = <<>>
<1> DEFINE ss == [i \in DOMAIN q |-> IF q[i].addr = a THEN q[i].data ELSE <<>>]
<1>1. DOMAIN q = 1 .. Len(q) /\ Len(q) \in Nat
  OBVIOUS
<1>2. \A i \in 1 .. Len(q) : ss[i] = IF q[i].addr = a THEN q[i].data ELSE <<>>
  BY Zenon, <1>1
<1>3. \A i \in 1 .. Len(q) : q[i].data \in Seq(Datagram)
  BY Zenon, TaskParts
<1>4. ss \in Seq(Seq(Datagram)) /\ Len(ss) = Len(q)
  BY <1>1, <1>3
<1>5. Waiting(q, a) = Joined(ss)
  BY Zenon DEF Waiting
<1> HIDE DEF ss
<1>6. Waiting(q, a) \in Seq(Datagram)
  BY Zenon, <1>4, <1>5, FlatType
<1>7. ASSUME NEW d \in Range(Waiting(q, a)) PROVE \E i \in 1 .. Len(q) : d \in Range(q[i].data)
  <2>1. d \in Range(Joined(ss)) <=> \E n \in 1 .. Len(ss) : d \in Range(ss[n])
    BY Zenon, <1>4, FlatSet
  <2>2. PICK n \in 1 .. Len(q) : d \in Range(ss[n])
    BY Zenon, <1>4, <1>5, <1>7, <2>1
  <2>3. CASE q[n].addr = a
    BY Zenon, <1>2, <2>2, <2>3
  <2>4. CASE q[n].addr # a
    <3>1. ss[n] = <<>>
      BY Zenon, <1>2, <2>4
    <3>2. Range(ss[n]) = {}
      BY Zenon, <3>1, NothingIn
    <3> QED
      BY Zenon, <2>2, <3>2
  <2> QED
    BY Zenon, <2>3, <2>4
<1>8. ASSUME NEW k \in 1 .. Len(q), q[k].addr = a, \A i \in 1 .. Len(q) : q[i].addr = a => i = k
      PROVE  Waiting(q, a) = q[k].data
  <2>1. k \in 1 .. Len(ss) /\ \A n \in 1 .. Len(ss) : n # k => ss[n] = <<>>
    BY Zenon, <1>2, <1>4, <1>8
  <2>2. Joined(ss) = ss[k]
    BY Zenon, <1>4, <2>1, FlatOne
  <2> QED
    BY Zenon, <1>2, <1>5, <1>8, <2>2
<1>9. ASSUME \A i \in 1 .. Len(q) : q[i].addr # a PROVE Waiting(q, a) = <<>>
  <2>1. \A n \in 1 .. Len(ss) : ss[n] = <<>>
    BY Zenon, <1>2, <1>4, <1>9
  <2> QED
    BY Zenon, <1>4, <1>5, <2>1, FlatNone
<1> QED
  BY Zenon, <1>6, <1>7, <1>8, <1>9

\* What waits in a queue when tasks are appended.
LEMMA WaitingCat ==
  ASSUME NEW x \in Seq(Task), NEW y \in Seq(Task), NEW a
  PROVE  Waiting(Cat(x, y), a) = Cat(Waiting(x, a), Waiting(y, a))
<1> DEFINE z == Cat(x, y)
           Cut(s) == [i \in DOMAIN s |-> IF s[i].addr = a THEN s[i].data ELSE <<>>]
<1>1. /\ z \in Seq(Task) /\ Len(z) = Len(x) + Len(y) /\ Len(x) \in Nat /\ Len(y) \in Nat
      /\ \A i \in 1 .. Len(x) : z[i] = x[i]
      /\ \A i \in 1 .. Len(y) : z[Len(x) + i] = y[i]
  BY DEF Cat
<1>2. ASSUME NEW s \in Seq(Task)
      PROVE  Cut(s) \in Seq(Seq(Datagram)) /\ Len(Cut(s)) = Len(s) /\ Waiting(s, a) = Joined(Cut(s))
             /\ \A i \in 1 .. Len(s) : Cut(s)[i] = IF s[i].addr = a THEN s[i].data ELSE <<>>
  <2>1. DOMAIN s = 1 .. Len(s) /\ Len(s) \in Nat
    OBVIOUS
  <2>2. \A i \in 1 .. Len(s) : s[i].data \in Seq(Datagram)
    BY Zenon, TaskParts
  <2>3. Cut(s) \in Seq(Seq(Datagram)) /\ Len(Cut(s)) = Len(s)
    BY <2>1, <2>2
  <2>4. Waiting(s, a) = Joined(Cut(s))
    BY Zenon DEF Waiting
  <2> QED
    BY Zenon, <2>1, <2>3, <2>4
<1> HIDE DEF z, Cut
<1>3. Cut(z) = Cut(x) \o Cut(y)
  <2> DEFINE p == Cut(x)
             q == Cut(y)
             r == Cut(z)
             S == Seq(Datagram)
  <2>1. /\ p \in Seq(S) /\ q \in Seq(S) /\ r \in Seq(S)
        /\ Len(p) = Len(x) /\ Len(q) = Len(y) /\ Len(r) = Len(x) + Len(y)
    BY Zenon, <1>1, <1>2
  <2>2. ASSUME NEW i \in 1 .. Len(x) PROVE r[i] = p[i]
    <3>1. i \in 1 .. Len(z)
      BY <1>1
    <3> QED
      BY Zenon, <1>1, <1>2, <3>1
  <2>3. ASSUME NEW i \in 1 .. Len(y) PROVE r[Len(x) + i] = q[i]
    <3> DEFINE k == Len(x) + i
    <3>1. k \in 1 .. Len(z)
      BY <1>1
    <3>2. z[k] = y[i]
      BY Zenon, <1>1
    <3> HIDE DEF k
    <3>3. r[k] = IF z[k].addr = a THEN z[k].data ELSE <<>>
      BY Zenon, <1>1, <1>2, <3>1
    <3>4. q[i] = IF y[i].addr = a THEN y[i].data ELSE <<>>
      BY Zenon, <1>2
    <3>5. r[k] = q[i]
      BY ONLY <3>2, <3>3, <3>4
    <3> QED
      BY Zenon, <3>5 DEF k
  <2> HIDE DEF p, q, r, S
  <2>4. r = p \o q
    <3>1. /\ Len(r) = Len(p) + Len(q)
          /\ \A i \in 1 .. Len(p) : r[i] = p[i]
          /\ \A i \in 1 .. Len(q) : r[Len(p) + i] = q[i]
      BY Zenon, <2>1, <2>2, <2>3
    <3> QED
      BY ONLY <2>1, <3>1, IsCat
  <2> QED
    BY Zenon, <2>4 DEF p, q, r
<1>4. Joined(Cut(x) \o Cut(y)) = Joined(Cut(x)) \o Joined(Cut(y))
  BY Zenon, <1>2, FlatJoin
<1>5. Waiting(z, a) = Joined(Cut(z)) /\ Waiting(x, a) = Joined(Cut(x)) /\ Waiting(y, a) = Joined(Cut(y))
  BY Zenon, <1>1, <1>2
<1> QED
  BY Zenon, <1>3, <1>4, <1>5 DEF z, Cat

\* What waits in a queue when its first task is taken.
LEMMA WaitingTail ==
  ASSUME NEW q \in Seq(Task), q # <<>>, NEW a
  PROVE  Waiting(q, a) = IF Head(q).addr = a THEN Cat(Head(q).data, Waiting(Tail(q), a))
                         ELSE Waiting(Tail(q), a)
<1> DEFINE h == <<Head(q)>>
           t == Tail(q)
<1>1. /\ q = h \o t /\ h \in Seq(Task) /\ t \in Seq(Task) /\ Len(h) = 1 /\ h[1] = Head(q)
      /\ 1 \in 1 .. Len(h) /\ \A i \in 1 .. Len(h) : i = 1
  OBVIOUS
<1> HIDE DEF h, t
<1>2. Waiting(q, a) = Cat(Waiting(h, a), Waiting(t, a))
  <2>1. q = Cat(h, t)
    BY Zenon, <1>1 DEF Cat
  <2>2. h \in Seq(Task) /\ t \in Seq(Task)
    BY Zenon, <1>1
  <2>3. Waiting(Cat(h, t), a) = Cat(Waiting(h, a), Waiting(t, a))
    BY ONLY <2>2, WaitingCat
  <2> QED
    BY Zenon, <2>1, <2>3
<1>3. Waiting(t, a) \in Seq(Datagram)
  BY Zenon, <1>1, WaitingFacts
<1>4. CASE Head(q).addr = a
  <2>1. Waiting(h, a) = h[1].data
    BY Zenon, <1>1, <1>4, WaitingFacts
  <2> QED
    BY Zenon, <1>1, <1>2, <1>4, <2>1 DEF t
<1>5. CASE Head(q).addr # a
  <2>1. Waiting(h, a) = <<>>
    BY Zenon, <1>1, <1>5, WaitingFacts
  <2>2. Cat(<<>>, Waiting(t, a)) = Waiting(t, a)
    BY Zenon, <1>3, CatFacts
  <2> QED
    BY Zenon, <1>2, <1>5, <2>1, <2>2 DEF t
<1> QED
  BY Zenon, <1>4, <1>5

\* The tasks a flush makes for worker w: one for every buffer whose target
\* is w, and no two for one address.
TasksOk(tasks, w, l, bufmap, order) ==
    /\ tasks \in Seq(Task)
    /\ \A i \in 1 .. Len(tasks) : \E k \in 1 .. Len(order) :
          Target(l, order, k) = w /\ tasks[i].addr = order[k] /\ tasks[i].data = bufmap[order[k]]
    /\ \A k \in 1 .. Len(order) : Target(l, order, k) = w =>
          \E i \in 1 .. Len(tasks) : tasks[i].addr = order[k]
    /\ \A i, j \in 1 .. Len(tasks) : tasks[i].addr = tasks[j].addr => i = j

\* TasksFor makes such tasks.
LEMMA TasksFacts ==
  ASSUME NEW w, NEW l, NEW bufmap \in [Addr -> Seq(Datagram)], NEW order \in Seq(Addr), Distinct(order)
  PROVE  TasksOk(TasksFor(w, l, bufmap, order), w, l, bufmap, order)
<1> SUFFICES ASSUME NEW tasks, tasks = TasksFor(w, l, bufmap, order)
             PROVE  TasksOk(tasks, w, l, bufmap, order)
  BY Zenon
<1> DEFINE U == {k \in 1 .. Len(order) : Target(l, order, k) = w}
           task(k) == [addr |-> order[k], data |-> bufmap[order[k]]]
           s == [k \in 1 .. Len(order) |-> task(k)]
           ss == [k \in 1 .. Len(order) |-> IF Target(l, order, k) = w THEN <<task(k)>> ELSE <<>>]
           tt == [k \in 1 .. Len(order) |-> IF k \in U THEN <<s[k]>> ELSE <<>>]
<1>1. DOMAIN order = 1 .. Len(order) /\ Len(order) \in Nat /\ \A k \in 1 .. Len(order) : order[k] \in Addr
  OBVIOUS
<1>2. \A k \in 1 .. Len(order) : s[k] = task(k) /\ (k \in U <=> Target(l, order, k) = w)
  BY Zenon
<1>3. ASSUME NEW k \in 1 .. Len(order)
      PROVE task(k) \in Task /\ task(k).addr = order[k] /\ task(k).data = bufmap[order[k]]
  BY <1>1 DEF Task
<1>4. s \in Seq(Task) /\ Len(s) = Len(order)
  <2>1. \A k \in 1 .. Len(order) : task(k) \in Task
    BY Zenon, <1>3
  <2> HIDE DEF task
  <2> QED
    BY <1>1, <2>1
<1>5. tasks = Joined(ss)
  BY Zenon, <1>1 DEF TasksFor
<1> HIDE DEF U, s
<1>6. ss = tt
  BY Zenon, <1>2
<1>7. tasks = Picked(s, U)
  BY Zenon, <1>4, <1>5, <1>6 DEF Picked
<1> HIDE DEF task, ss, tt
<1>8. /\ tasks \in Seq(Task)
      /\ \A e : e \in Range(tasks) <=> \E i \in 1 .. Len(s) : i \in U /\ e = s[i]
      /\ Distinct(s) => Distinct(tasks)
  BY ONLY <1>4, <1>7, PickedFacts
<1>9. Distinct(s)
  <2> SUFFICES ASSUME NEW i \in 1 .. Len(s), NEW j \in 1 .. Len(s), s[i] = s[j] PROVE i = j
    BY Zenon DEF Distinct
  <2>1. i \in 1 .. Len(order) /\ j \in 1 .. Len(order)
    BY Zenon, <1>4
  <2>2. task(i) = task(j)
    BY Zenon, <1>2, <2>1
  <2>3. order[i] = order[j]
    BY Zenon, <1>3, <2>1, <2>2
  <2> QED
    BY Zenon, <2>1, <2>3 DEF Distinct
<1>10. \A e : e \in Range(tasks) <=> \E i \in 1 .. Len(tasks) : e = tasks[i]
  <2>1. tasks \in Seq(Task)
    BY Zenon, <1>8
  <2> QED
    BY ONLY Zenon, <2>1, InSeq
<1>11. ASSUME NEW i \in 1 .. Len(tasks)
       PROVE \E k \in 1 .. Len(order) : Target(l, order, k) = w /\ tasks[i] = task(k)
  <2>1. tasks[i] \in Range(tasks)
    BY Zenon, <1>10
  <2>2. PICK k \in 1 .. Len(s) : k \in U /\ tasks[i] = s[k]
    BY Zenon, <1>8, <2>1
  <2> QED
    BY Zenon, <1>2, <1>4, <2>2
<1>12. ASSUME NEW k \in 1 .. Len(order), Target(l, order, k) = w
       PROVE \E i \in 1 .. Len(tasks) : tasks[i].addr = order[k]
  <2>1. k \in 1 .. Len(s) /\ k \in U /\ s[k] = task(k)
    BY Zenon, <1>2, <1>4, <1>12
  <2>2. s[k] \in Range(tasks)
    BY Zenon, <1>8, <2>1
  <2>3. PICK i \in 1 .. Len(tasks) : s[k] = tasks[i]
    BY Zenon, <1>10, <2>2
  <2>4. tasks[i].addr = order[k]
    BY Zenon, <1>3, <2>1, <2>3
  <2> QED
    BY Zenon, <2>4
<1>13. ASSUME NEW i \in 1 .. Len(tasks), NEW j \in 1 .. Len(tasks), tasks[i].addr = tasks[j].addr
       PROVE  i = j
  <2>1. PICK k \in 1 .. Len(order) : tasks[i] = task(k)
    BY Zenon, <1>11
  <2>2. PICK m \in 1 .. Len(order) : tasks[j] = task(m)
    BY Zenon, <1>11
  <2>3. order[k] = order[m]
    BY Zenon, <1>3, <1>13, <2>1, <2>2
  <2>4. k = m
    BY Zenon, <2>3 DEF Distinct
  <2>5. tasks[i] = tasks[j]
    BY Zenon, <2>1, <2>2, <2>4
  <2>6. Distinct(tasks)
    BY Zenon, <1>8, <1>9
  <2> QED
    BY Zenon, <2>5, <2>6 DEF Distinct
<1>14. \A i \in 1 .. Len(tasks) : \E k \in 1 .. Len(order) :
         Target(l, order, k) = w /\ tasks[i].addr = order[k] /\ tasks[i].data = bufmap[order[k]]
  <2> TAKE i \in 1 .. Len(tasks)
  <2>1. PICK k \in 1 .. Len(order) : Target(l, order, k) = w /\ tasks[i] = task(k)
    BY Zenon, <1>11
  <2>2. tasks[i].addr = order[k] /\ tasks[i].data = bufmap[order[k]]
    BY Zenon, <1>3, <2>1
  <2> QED
    BY Zenon, <2>1, <2>2
<1>15. tasks \in Seq(Task)
  BY Zenon, <1>8
<1> QED
  BY Zenon, <1>12, <1>13, <1>14, <1>15 DEF TasksOk

\* A drain order is a sequence of all the addresses, each once.
LEMMA OrderFacts ==
  ASSUME NEW S, Cardinality(S) \in Nat, NEW order \in Bijection(1 .. Cardinality(S), S)
  PROVE  order \in Seq(S) /\ Distinct(order) /\ \A a \in S : \E k \in 1 .. Len(order) : order[k] = a
<1> DEFINE N == Cardinality(S)
<1>1. order \in [1 .. N -> S] /\ IsInjective(order) /\ \A a \in S : \E k \in 1 .. N : order[k] = a
  BY Zenon DEF Bijection, Injection, Surjection
<1>2. N \in Nat
  BY Zenon
<1> HIDE DEF N
<1>3. order \in Seq(S) /\ Len(order) = N /\ DOMAIN order = 1 .. N
  BY <1>1, <1>2
<1> QED
  BY Zenon, <1>1, <1>3 DEF Distinct, IsInjective

\* What one receive call returns: datagrams that were on the wire, each once.
LEMMA ReceivedFacts ==
  ASSUME NEW data \in Received, wire \subseteq Datagram, MmPackets \in Nat
  PROVE  data \in Seq(Datagram) /\ Distinct(data) /\ Range(data) \subseteq wire
<1>1. CASE config.multimessage
  <2>1. PICK n \in 1 .. MmPackets : data \in Injection(1 .. n, wire)
    BY Zenon, <1>1 DEF Received
  <2>2. data \in [1 .. n -> wire] /\ IsInjective(data) /\ DOMAIN data = 1 .. n
    BY Zenon, <2>1 DEF Injection
  <2>3. data \in Seq(Datagram) /\ Len(data) = n
    BY <2>2
  <2>4. Range(data) \subseteq wire
    BY Zenon, <2>2 DEF Range
  <2>5. Distinct(data)
    BY Zenon, <2>2, <2>3 DEF Distinct, IsInjective
  <2> QED
    BY Zenon, <2>3, <2>4, <2>5
<1>2. CASE ~config.multimessage
  <2>1. PICK d \in wire : data = <<d>>
    BY Zenon, <1>2 DEF Received
  <2>2. d \in Datagram
    BY Zenon, <2>1
  <2>3. data \in Seq(Datagram)
    BY <2>1, <2>2
  <2>4. Distinct(data) /\ \A e : e \in Range(data) <=> e = d
    BY Zenon, <2>1, SingleIn
  <2> QED
    BY Zenon, <2>1, <2>3, <2>4
<1> QED
  BY Zenon, <1>1, <1>2

-----------------------------------------------------------------------------
(* The inductive invariant. *)

HeldIn(bufmap) == UNION {Range(bufmap[a]) : a \in Addr}

\* Every buffer of bufmap holds datagrams of its own address, each once.
Sorted(bufmap) ==
    \A a \in Addr : Distinct(bufmap[a]) /\ \A d \in Range(bufmap[a]) : AddrOf[d] = a

State == [alive : BOOLEAN, bufmap : [Addr -> Seq(Datagram)], counter : Nat, next : Worker]

IngestTypes ==
    /\ config \in Config
    /\ wire \subseteq Datagram /\ lost \subseteq Datagram
    /\ listeners \in [Listener -> State]
    /\ flags \in [Thread -> BOOLEAN]
    /\ queue \in [Worker -> Seq(Task)]
    /\ arrived \in [Addr -> Seq(Datagram)]

\* The places of a datagram.
AtWire == <<"wire", 0, 0>>
AtLost == <<"lost", 0, 0>>
AtListener(l) == <<"held", l, 0>>
AtTask(w, i) == <<"queue", w, i>>

\* own gives the one place of every datagram.
Placed(own) ==
    \A d \in Datagram :
        /\ d \in wire <=> own[d] = AtWire
        /\ d \in lost <=> own[d] = AtLost
        /\ \A l \in Listener : d \in Range(listeners[l].bufmap[AddrOf[d]]) <=> own[d] = AtListener(l)
        /\ \A w \in Worker : \A i \in 1 .. Len(queue[w]) :
               d \in Range(queue[w][i].data) <=> own[d] = AtTask(w, i)
        /\ \/ own[d] \in {AtWire, AtLost}
           \/ \E l \in Listener : own[d] = AtListener(l)
           \/ \E w \in Worker : \E i \in 1 .. Len(queue[w]) : own[d] = AtTask(w, i)

\* Buffers are sorted, tasks are not empty, and a listener that was never
\* started is not alive.
Tidy ==
    /\ \A l \in Listener : Sorted(listeners[l].bufmap) /\ (listeners[l].alive => l \in config.listeners)
    /\ \A w \in Worker : \A i \in 1 .. Len(queue[w]) : queue[w][i].data # <<>>
    /\ lost # {} => \E l \in config.listeners : ~listeners[l].alive

Counted ==
    \A l \in Listener :
        /\ listeners[l].counter = Bytes(HeldIn(listeners[l].bufmap))
        /\ HeldIn(listeners[l].bufmap) # {} => listeners[l].counter < FlushLength

IngestInv == IngestTypes /\ (\E own : Placed(own)) /\ Tidy /\ Counted /\ InArrivalOrder

\* The facts about finite sets that the steps need.
Counting ==
    /\ \A S \in SUBSET Addr : Cardinality(S) \in Nat
    /\ Bytes({}) = 0
    /\ \A D \in SUBSET Datagram : Bytes(D) \in Nat
    /\ \A D, E \in SUBSET Datagram : (\A d \in D : d \notin E) => Bytes(D \cup E) = Bytes(D) + Bytes(E)

\* The places are different.
LEMMA Apart ==
  /\ AtWire # AtLost
  /\ \A l : AtListener(l) # AtWire /\ AtListener(l) # AtLost
  /\ \A w, i : AtTask(w, i) # AtWire /\ AtTask(w, i) # AtLost
  /\ \A l, w, i : AtTask(w, i) # AtListener(l)
  /\ \A l, m : AtListener(l) = AtListener(m) => l = m
  /\ \A w, i, v, j : AtTask(w, i) = AtTask(v, j) => w = v /\ i = j
BY DEF AtWire, AtLost, AtListener, AtTask

\* The parts of the state of a listener.
LEMMA StateParts ==
  ASSUME NEW r \in State
  PROVE  r.alive \in BOOLEAN /\ r.bufmap \in [Addr -> Seq(Datagram)] /\ r.counter \in Nat /\ r.next \in Worker
BY DEF State

\* What sorted buffers hold is in the buffer of its address.
LEMMA HeldIs ==
  ASSUME NEW b \in [Addr -> Seq(Datagram)], Sorted(b)
  PROVE  \A d : d \in HeldIn(b) <=> d \in Datagram /\ d \in Range(b[AddrOf[d]])
<1>1. ASSUME NEW d, d \in HeldIn(b) PROVE d \in Datagram /\ d \in Range(b[AddrOf[d]])
  <2>1. PICK a \in Addr : d \in Range(b[a])
    BY Zenon, <1>1 DEF HeldIn
  <2>2. AddrOf[d] = a
    BY Zenon, <2>1 DEF Sorted
  <2>3. b[a] \in Seq(Datagram)
    BY Zenon
  <2>4. d \in Datagram
    BY Zenon, <2>1, <2>3, InSeq
  <2> QED
    BY Zenon, <2>1, <2>2, <2>4
<1>2. ASSUME NEW d \in Datagram, d \in Range(b[AddrOf[d]]) PROVE d \in HeldIn(b)
  BY Zenon, <1>2 DEF HeldIn, Addr
<1> QED
  BY Zenon, <1>1, <1>2

\* The buffers after data came in.
LEMMA BufferedFacts ==
  ASSUME NEW b \in [Addr -> Seq(Datagram)], Sorted(b), NEW data \in Seq(Datagram), Distinct(data),
         \A d \in Range(data) : d \notin Range(b[AddrOf[d]]), NEW c, c = Buffered(b, data)
  PROVE  /\ c \in [Addr -> Seq(Datagram)] /\ Sorted(c)
         /\ \A a \in Addr : c[a] = Cat(b[a], From(a, data))
         /\ \A d \in Datagram : d \in Range(c[AddrOf[d]]) <=> d \in Range(b[AddrOf[d]]) \/ d \in Range(data)
         /\ HeldIn(c) = HeldIn(b) \cup Range(data)
<1>1. c = [a \in Addr |-> Cat(b[a], From(a, data))]
  BY Zenon DEF Buffered, Cat
<1>2. \A a \in Addr : c[a] = Cat(b[a], From(a, data))
  BY Zenon, <1>1
<1>3. ASSUME NEW a \in Addr
      PROVE  /\ c[a] \in Seq(Datagram) /\ Distinct(c[a])
             /\ \A d : d \in Range(c[a]) <=> d \in Range(b[a]) \/ (d \in Range(data) /\ AddrOf[d] = a)
  <2> DEFINE f == From(a, data)
  <2>1. /\ f \in Seq(Datagram) /\ Distinct(f)
        /\ \A d : d \in Range(f) <=> d \in Range(data) /\ AddrOf[d] = a
    BY ONLY data \in Seq(Datagram), Distinct(data), FromFacts
  <2>2. b[a] \in Seq(Datagram) /\ c[a] = Cat(b[a], f)
    BY Zenon, <1>2
  <2>3. Distinct(b[a]) /\ \A d \in Range(b[a]) : AddrOf[d] = a
    BY Zenon DEF Sorted
  <2> HIDE DEF f
  <2>4. \A d \in Range(b[a]) : d \notin Range(f)
    BY Zenon, <2>1, <2>3
  <2>5. f \in Seq(Datagram)
    BY Zenon, <2>1
  <2>6. Cat(b[a], f) \in Seq(Datagram)
    BY Zenon, <2>2, <2>5, CatFacts
  <2>7. Distinct(Cat(b[a], f))
    BY Zenon, <2>1, <2>2, <2>3, <2>4, CatDistinct
  <2>8. \A d : d \in Range(Cat(b[a], f)) <=> d \in Range(b[a]) \/ d \in Range(f)
    BY ONLY Zenon, <2>2, <2>5, CatSet
  <2>9. \A d : d \in Range(c[a]) <=> d \in Range(b[a]) \/ (d \in Range(data) /\ AddrOf[d] = a)
    BY Zenon, <2>1, <2>2, <2>8
  <2> QED
    BY Zenon, <2>2, <2>6, <2>7, <2>9
<1>4. c \in [Addr -> Seq(Datagram)]
  <2>1. \A a \in Addr : c[a] \in Seq(Datagram)
    BY Zenon, <1>3
  <2>2. c = [a \in Addr |-> c[a]]
    BY Zenon, <1>1
  <2> QED
    BY Zenon, <2>1, <2>2
<1>5. Sorted(c)
  <2> SUFFICES ASSUME NEW a \in Addr PROVE Distinct(c[a]) /\ \A d \in Range(c[a]) : AddrOf[d] = a
    BY Zenon DEF Sorted
  <2>1. \A d \in Range(b[a]) : AddrOf[d] = a
    BY Zenon DEF Sorted
  <2> QED
    BY Zenon, <1>3, <2>1
<1>6. ASSUME NEW d \in Datagram
      PROVE  d \in Range(c[AddrOf[d]]) <=> d \in Range(b[AddrOf[d]]) \/ d \in Range(data)
  <2>1. AddrOf[d] \in Addr
    BY Zenon DEF Addr
  <2> QED
    BY Zenon, <1>3, <2>1
<1>7. HeldIn(c) = HeldIn(b) \cup Range(data)
  <2>1. \A d : d \in HeldIn(b) <=> d \in Datagram /\ d \in Range(b[AddrOf[d]])
    BY Zenon, HeldIs
  <2>2. \A d : d \in HeldIn(c) <=> d \in Datagram /\ d \in Range(c[AddrOf[d]])
    BY ONLY Zenon, <1>4, <1>5, HeldIs
  <2>3. \A d \in Range(data) : d \in Datagram
    BY Zenon, InSeq
  <2>4. \A d : d \in HeldIn(c) <=> d \in HeldIn(b) \/ d \in Range(data)
    BY Zenon, <1>6, <2>1, <2>2, <2>3
  <2> QED
    BY Zenon, <2>4
<1> QED
  BY Zenon, <1>2, <1>4, <1>5, <1>6, <1>7

-----------------------------------------------------------------------------
(* The steps. *)

\* What a listener reads was on the wire and goes to its buffers, whether
\* they are flushed then or not.
LEMMA ReadFacts ==
  ASSUME IngestInv, Counting, NEW l \in Listener, NEW data \in Received, NEW own, Placed(own),
         NEW old, old = listeners[l].bufmap, NEW b, b = Buffered(old, data)
  PROVE  /\ old \in [Addr -> Seq(Datagram)] /\ Sorted(old)
         /\ data \in Seq(Datagram) /\ Range(data) \subseteq wire /\ wire \subseteq Datagram
         /\ b \in [Addr -> Seq(Datagram)] /\ Sorted(b)
         /\ \A a \in Addr : b[a] = Cat(old[a], From(a, data)) /\ From(a, data) \in Seq(Datagram)
         /\ \A d \in Datagram : d \in Range(b[AddrOf[d]]) <=> d \in Range(old[AddrOf[d]]) \/ d \in Range(data)
         /\ Bytes(HeldIn(b)) = listeners[l].counter + Bytes(Range(data))
         /\ listeners[l].counter + Bytes(Range(data)) \in Nat
<1>1. listeners \in [Listener -> State] /\ wire \subseteq Datagram
  BY Zenon DEF IngestInv, IngestTypes
<1>2. old \in [Addr -> Seq(Datagram)] /\ Sorted(old)
  <2>1. listeners[l] \in State
    BY Zenon, <1>1
  <2>2. Sorted(listeners[l].bufmap)
    BY Zenon DEF IngestInv, Tidy
  <2> QED
    BY Zenon, <2>1, <2>2, StateParts
<1>3. data \in Seq(Datagram) /\ Distinct(data) /\ Range(data) \subseteq wire
  <2>1. MmPackets \in Nat
    BY Zenon, IngestAssumption
  <2> QED
    BY Zenon, <1>1, <2>1, ReceivedFacts
<1>4. ASSUME NEW d \in Range(data) PROVE d \notin Range(old[AddrOf[d]])
  <2>1. d \in Datagram /\ d \in wire
    BY Zenon, <1>1, <1>3
  <2>2. own[d] = AtWire /\ (d \in Range(listeners[l].bufmap[AddrOf[d]]) <=> own[d] = AtListener(l))
    BY Zenon, <2>1 DEF Placed
  <2> QED
    BY Zenon, <2>2, Apart
<1>5. /\ b \in [Addr -> Seq(Datagram)] /\ Sorted(b)
      /\ \A a \in Addr : b[a] = Cat(old[a], From(a, data))
      /\ \A d \in Datagram : d \in Range(b[AddrOf[d]]) <=> d \in Range(old[AddrOf[d]]) \/ d \in Range(data)
      /\ HeldIn(b) = HeldIn(old) \cup Range(data)
  <2>1. b = Buffered(old, data)
    BY Zenon
  <2> QED
    BY ONLY <1>2, <1>3, <1>4, <2>1, BufferedFacts
<1>6. \A a \in Addr : From(a, data) \in Seq(Datagram)
  BY Zenon, <1>3, FromFacts
<1>7. listeners[l].counter = Bytes(HeldIn(old))
  BY Zenon DEF IngestInv, Counted
<1>8. \A d : d \in HeldIn(old) <=> d \in Datagram /\ d \in Range(old[AddrOf[d]])
  BY ONLY Zenon, <1>2, HeldIs
<1>9. HeldIn(old) \in SUBSET Datagram /\ Range(data) \in SUBSET Datagram
      /\ \A d \in HeldIn(old) : d \notin Range(data)
  BY Zenon, <1>1, <1>3, <1>4, <1>8
<1>10. Bytes(HeldIn(b)) = Bytes(HeldIn(old)) + Bytes(Range(data))
  BY Zenon, <1>5, <1>9 DEF Counting
<1>11. Bytes(HeldIn(old)) \in Nat /\ Bytes(Range(data)) \in Nat
  BY Zenon, <1>9 DEF Counting
<1>12. listeners[l].counter + Bytes(Range(data)) \in Nat
  <2> DEFINE m == Bytes(HeldIn(old))
             n == Bytes(Range(data))
  <2>1. m \in Nat /\ n \in Nat /\ listeners[l].counter = m
    BY Zenon, <1>7, <1>11
  <2> HIDE DEF m, n
  <2>2. m + n \in Nat
    BY <2>1
  <2> QED
    BY Zenon, <2>1, <2>2 DEF n
<1> QED
  BY Zenon, <1>1, <1>2, <1>3, <1>5, <1>6, <1>7, <1>10, <1>12

\* The listeners of a configuration are listeners.
LEMMA ConfigParts ==
  ASSUME config \in Config
  PROVE  config.listeners \subseteq Listener
<1>1. config \in [consistent : BOOLEAN, multimessage : BOOLEAN, timer : BOOLEAN,
                   listeners : SUBSET Listener \ {{}}]
  BY Zenon, IngestAssumption
<1> QED
  BY <1>1

\* Data that is kept.
LEMMA KeepStep ==
  ASSUME IngestInv, Counting, NEW l \in Listener, NEW data \in Received, Receive(l, data),
         ~ShouldFlush(l, listeners[l].counter + Bytes(Range(data)))
  PROVE  IngestInv'
<1> SUFFICES ASSUME NEW old, old = listeners[l].bufmap, NEW b, b = Buffered(old, data),
                    NEW n, n = listeners[l].counter + Bytes(Range(data)), NEW own, Placed(own)
             PROVE  IngestInv'
  BY Zenon DEF IngestInv
<1>1. /\ old \in [Addr -> Seq(Datagram)] /\ Sorted(old)
      /\ data \in Seq(Datagram) /\ Range(data) \subseteq wire /\ wire \subseteq Datagram
      /\ b \in [Addr -> Seq(Datagram)] /\ Sorted(b)
      /\ \A a \in Addr : b[a] = Cat(old[a], From(a, data)) /\ From(a, data) \in Seq(Datagram)
      /\ \A d \in Datagram : d \in Range(b[AddrOf[d]]) <=> d \in Range(old[AddrOf[d]]) \/ d \in Range(data)
      /\ Bytes(HeldIn(b)) = n /\ n \in Nat
  BY ReadFacts
<1>2. /\ config' = config /\ lost' = lost /\ queue' = queue /\ wire' = wire \ Range(data)
      /\ flags' = [flags EXCEPT ![ThreadOf[l]] = FALSE]
      /\ arrived' = [a \in Addr |-> arrived[a] \o From(a, data)]
      /\ listeners' = [listeners EXCEPT ![l].bufmap = b, ![l].counter = n]
      /\ listeners[l].alive
  BY Zenon DEF Receive, Keep
<1>3. /\ listeners \in [Listener -> State] /\ config \in Config /\ lost \subseteq Datagram
      /\ flags \in [Thread -> BOOLEAN] /\ queue \in [Worker -> Seq(Task)]
      /\ arrived \in [Addr -> Seq(Datagram)]
  BY Zenon DEF IngestInv, IngestTypes
<1>4. /\ listeners' \in [Listener -> State]
      /\ listeners'[l].bufmap = b /\ listeners'[l].counter = n /\ listeners'[l].alive = listeners[l].alive
      /\ \A m \in Listener : m # l => listeners'[m] = listeners[m]
  <2>1. /\ listeners \in [Listener -> State] /\ b \in [Addr -> Seq(Datagram)] /\ n \in Nat
        /\ listeners' = [listeners EXCEPT ![l].bufmap = b, ![l].counter = n]
    BY Zenon, <1>1, <1>2, <1>3
  <2> QED
    BY ONLY l \in Listener, <2>1 DEF State
<1>5. arrived' \in [Addr -> Seq(Datagram)] /\ \A a \in Addr : arrived'[a] = Cat(arrived[a], From(a, data))
  <2>1. \A a \in Addr : Cat(arrived[a], From(a, data)) \in Seq(Datagram)
    BY Zenon, <1>1, <1>3, CatFacts
  <2>2. arrived' = [a \in Addr |-> Cat(arrived[a], From(a, data))]
    BY Zenon, <1>2 DEF Cat
  <2> QED
    BY Zenon, <2>1, <2>2
<1>6. IngestTypes'
  <2>1. flags' \in [Thread -> BOOLEAN]
    BY Zenon, <1>2, <1>3
  <2>2. wire' \subseteq Datagram
    BY Zenon, <1>1, <1>2
  <2> QED
    BY Zenon, <1>2, <1>3, <1>4, <1>5, <2>1, <2>2 DEF IngestTypes
<1>7. \E o : Placed(o)'
  <2> DEFINE o == [d \in Datagram |-> IF d \in Range(data) THEN AtListener(l) ELSE own[d]]
  <2>1. ASSUME NEW d \in Datagram
        PROVE  /\ d \in wire' <=> o[d] = AtWire
               /\ d \in lost' <=> o[d] = AtLost
               /\ \A m \in Listener : d \in Range(listeners'[m].bufmap[AddrOf[d]]) <=> o[d] = AtListener(m)
               /\ \A w \in Worker : \A i \in 1 .. Len(queue'[w]) :
                      d \in Range(queue'[w][i].data) <=> o[d] = AtTask(w, i)
               /\ \/ o[d] \in {AtWire, AtLost}
                  \/ \E m \in Listener : o[d] = AtListener(m)
                  \/ \E w \in Worker : \E i \in 1 .. Len(queue'[w]) : o[d] = AtTask(w, i)
    <3>1. /\ d \in wire <=> own[d] = AtWire
          /\ d \in lost <=> own[d] = AtLost
          /\ \A m \in Listener : d \in Range(listeners[m].bufmap[AddrOf[d]]) <=> own[d] = AtListener(m)
          /\ \A w \in Worker : \A i \in 1 .. Len(queue[w]) :
                 d \in Range(queue[w][i].data) <=> own[d] = AtTask(w, i)
          /\ \/ own[d] \in {AtWire, AtLost}
             \/ \E m \in Listener : own[d] = AtListener(m)
             \/ \E w \in Worker : \E i \in 1 .. Len(queue[w]) : own[d] = AtTask(w, i)
      BY Zenon DEF Placed
    <3>2. CASE d \in Range(data)
      <4>1. o[d] = AtListener(l) /\ own[d] = AtWire
        BY Zenon, <1>1, <3>1, <3>2
      <4>2. d \notin wire' /\ d \notin lost'
        BY Zenon, <1>2, <3>1, <3>2, <4>1, Apart
      <4>3. ASSUME NEW m \in Listener PROVE d \in Range(listeners'[m].bufmap[AddrOf[d]]) <=> m = l
        <5>1. CASE m = l
          BY Zenon, <1>1, <1>4, <3>2, <5>1
        <5>2. CASE m # l
          BY Zenon, <1>4, <3>1, <4>1, <5>2, Apart
        <5> QED
          BY Zenon, <5>1, <5>2
      <4>4. \A w \in Worker : \A i \in 1 .. Len(queue'[w]) : d \notin Range(queue'[w][i].data)
        <5>1. queue' = queue
          BY Zenon, <1>2
        <5>2. \A w \in Worker : \A i \in 1 .. Len(queue[w]) : d \notin Range(queue[w][i].data)
          <6> TAKE w \in Worker
          <6> TAKE i \in 1 .. Len(queue[w])
          <6>1. d \in Range(queue[w][i].data) <=> own[d] = AtTask(w, i)
            BY Zenon, <3>1
          <6>2. AtTask(w, i) # AtWire
            BY Zenon, Apart
          <6> QED
            BY Zenon, <4>1, <6>1, <6>2
        <5> QED
          BY Zenon, <5>1, <5>2
      <4>5. /\ o[d] # AtWire /\ o[d] # AtLost /\ \A w, i : o[d] # AtTask(w, i)
            /\ \A m : o[d] = AtListener(m) <=> m = l
        <5>1. o[d] # AtWire /\ o[d] # AtLost
          BY Zenon, <4>1, Apart
        <5>2. \A w, i : o[d] # AtTask(w, i)
          BY Zenon, <4>1, Apart
        <5>3. \A m : o[d] = AtListener(m) <=> m = l
          BY Zenon, <4>1, Apart
        <5> QED
          BY Zenon, <5>1, <5>2, <5>3
      <4> HIDE DEF o
      <4>6. \A m \in Listener : d \in Range(listeners'[m].bufmap[AddrOf[d]]) <=> o[d] = AtListener(m)
        BY Zenon, <4>3, <4>5
      <4>7. \A w \in Worker : \A i \in 1 .. Len(queue'[w]) :
                d \in Range(queue'[w][i].data) <=> o[d] = AtTask(w, i)
        BY Zenon, <4>4, <4>5
      <4> QED
        BY Zenon, <4>1, <4>2, <4>5, <4>6, <4>7
    <3>3. CASE d \notin Range(data)
      <4>1. o[d] = own[d]
        BY Zenon, <3>3
      <4>2. (d \in wire' <=> d \in wire) /\ (d \in lost' <=> d \in lost)
        BY Zenon, <1>2, <3>3
      <4>3. ASSUME NEW m \in Listener
            PROVE  d \in Range(listeners'[m].bufmap[AddrOf[d]]) <=> d \in Range(listeners[m].bufmap[AddrOf[d]])
        <5>1. CASE m = l
          BY Zenon, <1>1, <1>4, <3>3, <5>1
        <5>2. CASE m # l
          BY Zenon, <1>4, <5>2
        <5> QED
          BY Zenon, <5>1, <5>2
      <4> HIDE DEF o
      <4> QED
        BY Zenon, <1>2, <3>1, <4>1, <4>2, <4>3
    <3> QED
      BY Zenon, <3>2, <3>3
  <2> HIDE DEF o
  <2>2. Placed(o)'
    BY Zenon, <2>1 DEF Placed
  <2> QED
    BY Zenon, <2>2
<1>8. Tidy'
  <2>1. Tidy
    BY Zenon DEF IngestInv
  <2>2. ASSUME NEW m \in Listener
        PROVE  Sorted(listeners'[m].bufmap) /\ listeners'[m].alive = listeners[m].alive
    <3>1. CASE m = l
      BY Zenon, <1>1, <1>4, <3>1
    <3>2. CASE m # l
      BY Zenon, <1>4, <2>1, <3>2 DEF Tidy
    <3> QED
      BY Zenon, <3>1, <3>2
  <2>3. config.listeners \subseteq Listener
    BY Zenon, <1>3, ConfigParts
  <2>4. \A m \in Listener : listeners'[m].alive => m \in config'.listeners
    BY Zenon, <1>2, <2>1, <2>2 DEF Tidy
  <2>5. lost' # {} => \E m \in config'.listeners : ~listeners'[m].alive
    BY Zenon, <1>2, <2>1, <2>2, <2>3 DEF Tidy
  <2>6. \A w \in Worker : \A i \in 1 .. Len(queue'[w]) : queue'[w][i].data # <<>>
    BY Zenon, <1>2, <2>1 DEF Tidy
  <2>7. \A m \in Listener : Sorted(listeners'[m].bufmap)
    BY Zenon, <2>2
  <2> QED
    BY Zenon, <2>4, <2>5, <2>6, <2>7 DEF Tidy, Sorted
<1>9. Counted'
  <2>1. n < FlushLength
    <3>1. ~(n >= FlushLength)
      BY Zenon DEF ShouldFlush
    <3>2. FlushLength \in Nat /\ n \in Nat
      BY Zenon, <1>1, IngestAssumption
    <3> QED
      BY <3>1, <3>2
  <2>2. ASSUME NEW m \in Listener
        PROVE  /\ listeners'[m].counter = Bytes(HeldIn(listeners'[m].bufmap))
               /\ HeldIn(listeners'[m].bufmap) # {} => listeners'[m].counter < FlushLength
    <3>1. CASE m = l
      BY Zenon, <1>1, <1>4, <2>1, <3>1
    <3>2. CASE m # l
      BY Zenon, <1>4, <3>2 DEF IngestInv, Counted
    <3> QED
      BY Zenon, <3>1, <3>2
  <2> QED
    BY Zenon, <2>2 DEF Counted, Bytes, HeldIn
<1>10. InArrivalOrder'
  <2> SUFFICES ASSUME config'.consistent, Alone', NEW m \in config'.listeners, NEW a \in Addr
               PROVE  Waiting(queue'[HashOf[a]], a) \o listeners'[m].bufmap[a] = arrived'[a]
    BY Zenon DEF InArrivalOrder, Waiting, Joined
  <2>1. m = l
    <3>1. l \in config.listeners
      BY Zenon, <1>2 DEF IngestInv, Tidy
    <3> QED
      BY Zenon, <1>2, <3>1 DEF Alone
  <2>2. Waiting(queue[HashOf[a]], a) \o old[a] = arrived[a]
    BY Zenon, <1>2, <2>1 DEF IngestInv, InArrivalOrder, Alone
  <2> DEFINE q == queue[HashOf[a]]
             w == Waiting(q, a)
             f == From(a, data)
  <2>3. w \in Seq(Datagram)
    <3>1. q \in Seq(Task)
      BY Zenon, <1>3, IngestAssumption
    <3> QED
      BY Zenon, <3>1, WaitingFacts
  <2>4. old[a] \in Seq(Datagram) /\ f \in Seq(Datagram)
    BY Zenon, <1>1
  <2>5. Waiting(queue'[HashOf[a]], a) = w
    BY Zenon, <1>2
  <2>6. listeners'[m].bufmap[a] = Cat(old[a], f) /\ arrived'[a] = Cat(Cat(w, old[a]), f)
    BY Zenon, <1>1, <1>4, <1>5, <2>1, <2>2 DEF Cat
  <2> HIDE DEF w, f
  <2>7. Cat(w, Cat(old[a], f)) = Cat(Cat(w, old[a]), f)
    BY <2>3, <2>4, CatAssoc
  <2> QED
    BY Zenon, <2>5, <2>6, <2>7 DEF Cat
<1> QED
  BY Zenon, <1>6, <1>7, <1>8, <1>9, <1>10 DEF IngestInv

\* Empty buffers.
LEMMA Nothing ==
  /\ NoBuffers \in [Addr -> Seq(Datagram)] /\ Sorted(NoBuffers) /\ HeldIn(NoBuffers) = {}
  /\ \A a \in Addr : NoBuffers[a] = <<>> /\ Range(NoBuffers[a]) = {}
<1>1. \A a \in Addr : NoBuffers[a] = <<>>
  BY Zenon DEF NoBuffers
<1>2. \A a \in Addr : Range(NoBuffers[a]) = {} /\ Distinct(NoBuffers[a])
  BY Zenon, <1>1, NothingIn
<1>3. NoBuffers \in [Addr -> Seq(Datagram)]
  BY DEF NoBuffers
<1>4. Sorted(NoBuffers)
  BY Zenon, <1>2 DEF Sorted
<1>5. HeldIn(NoBuffers) = {}
  <2>1. \A d : d \notin HeldIn(NoBuffers)
    BY Zenon, <1>2 DEF HeldIn
  <2> QED
    BY Zenon, <2>1
<1> QED
  BY Zenon, <1>1, <1>2, <1>3, <1>4, <1>5

\* What waits in a queue is in one of its tasks.
LEMMA WaitingPlaced ==
  ASSUME NEW own, Placed(own), NEW w \in Worker, queue[w] \in Seq(Task), NEW a,
         NEW d \in Range(Waiting(queue[w], a))
  PROVE  d \in Datagram /\ \E i \in 1 .. Len(queue[w]) : own[d] = AtTask(w, i)
<1>1. PICK i \in 1 .. Len(queue[w]) : d \in Range(queue[w][i].data)
  BY Zenon, WaitingFacts
<1>2. queue[w][i].data \in Seq(Datagram)
  BY Zenon, TaskParts
<1>3. d \in Datagram
  BY Zenon, <1>1, <1>2, InSeq
<1>4. own[d] = AtTask(w, i)
  BY Zenon, <1>1, <1>3 DEF Placed
<1> QED
  BY Zenon, <1>3, <1>4

\* A listener that ends: what it held, and the empty datagram it read, are
\* lost.
LEMMA EndStep ==
  ASSUME IngestInv, Counting, NEW l \in Listener, NEW gone \in SUBSET wire, End(l, gone)
  PROVE  IngestInv'
<1> SUFFICES ASSUME NEW old, old = listeners[l].bufmap, NEW held, held = HeldIn(old), NEW own, Placed(own)
             PROVE  IngestInv'
  BY Zenon DEF IngestInv
<1>1. config' = config /\ queue' = queue /\ flags' = flags
  BY Zenon DEF End
<1>2. wire' = wire \ gone /\ \A d : d \in lost' <=> d \in lost \/ d \in gone \/ d \in held
  BY Zenon DEF End, HeldBy, HeldIn
<1>3. /\ listeners \in [Listener -> State] /\ config \in Config /\ lost \subseteq Datagram
      /\ flags \in [Thread -> BOOLEAN] /\ queue \in [Worker -> Seq(Task)]
      /\ arrived \in [Addr -> Seq(Datagram)] /\ wire \subseteq Datagram
  BY Zenon DEF IngestInv, IngestTypes
<1>4. old \in [Addr -> Seq(Datagram)] /\ Sorted(old)
  <2>1. listeners[l] \in State
    BY Zenon, <1>3
  <2>2. Sorted(listeners[l].bufmap)
    BY Zenon DEF IngestInv, Tidy
  <2> QED
    BY Zenon, <2>1, <2>2, StateParts
<1>5. \A d : d \in held <=> d \in Datagram /\ d \in Range(old[AddrOf[d]])
  BY ONLY Zenon, <1>4, HeldIs, held = HeldIn(old)
<1>6. /\ listeners' \in [Listener -> State]
      /\ listeners'[l].bufmap = NoBuffers /\ listeners'[l].counter = 0 /\ listeners'[l].alive = FALSE
      /\ \A m \in Listener : m # l => listeners'[m] = listeners[m]
  <2>1. listeners' = [listeners EXCEPT ![l].alive = FALSE, ![l].bufmap = NoBuffers, ![l].counter = 0]
    BY Zenon DEF End
  <2>2. listeners \in [Listener -> State] /\ NoBuffers \in [Addr -> Seq(Datagram)]
    BY Zenon, <1>3, Nothing
  <2> QED
    BY ONLY l \in Listener, <2>1, <2>2 DEF State
<1>7. arrived' \in [Addr -> Seq(Datagram)] /\ \A a \in Addr : arrived'[a] = Drop(arrived[a], held)
  <2>1. arrived' = [a \in Addr |-> Drop(arrived[a], held)]
    BY Zenon DEF End, HeldBy, Without, Drop, HeldIn
  <2>2. \A a \in Addr : Drop(arrived[a], held) \in Seq(Datagram)
    BY Zenon, <1>3, DropFacts
  <2> QED
    BY Zenon, <2>1, <2>2
<1>8. listeners[l].alive /\ l \in config.listeners
  BY Zenon DEF End, IngestInv, Tidy
<1>9. IngestTypes'
  <2>1. wire' \subseteq Datagram /\ lost' \subseteq Datagram
    BY Zenon, <1>2, <1>3, <1>5
  <2> QED
    BY Zenon, <1>1, <1>3, <1>6, <1>7, <2>1 DEF IngestTypes
<1>10. \E o : Placed(o)'
  <2> DEFINE o == [d \in Datagram |-> IF d \in gone \/ own[d] = AtListener(l) THEN AtLost ELSE own[d]]
  <2>1. ASSUME NEW d \in Datagram
        PROVE  /\ d \in wire' <=> o[d] = AtWire
               /\ d \in lost' <=> o[d] = AtLost
               /\ \A m \in Listener : d \in Range(listeners'[m].bufmap[AddrOf[d]]) <=> o[d] = AtListener(m)
               /\ \A w \in Worker : \A i \in 1 .. Len(queue'[w]) :
                      d \in Range(queue'[w][i].data) <=> o[d] = AtTask(w, i)
               /\ \/ o[d] \in {AtWire, AtLost}
                  \/ \E m \in Listener : o[d] = AtListener(m)
                  \/ \E w \in Worker : \E i \in 1 .. Len(queue'[w]) : o[d] = AtTask(w, i)
    <3>1. /\ d \in wire <=> own[d] = AtWire
          /\ d \in lost <=> own[d] = AtLost
          /\ \A m \in Listener : d \in Range(listeners[m].bufmap[AddrOf[d]]) <=> own[d] = AtListener(m)
      BY Zenon DEF Placed
    <3>2. \A w \in Worker : \A i \in 1 .. Len(queue'[w]) :
              d \in Range(queue'[w][i].data) <=> own[d] = AtTask(w, i)
      BY Zenon, <1>1 DEF Placed
    <3>3. \/ own[d] \in {AtWire, AtLost}
          \/ \E m \in Listener : own[d] = AtListener(m)
          \/ \E w \in Worker : \E i \in 1 .. Len(queue'[w]) : own[d] = AtTask(w, i)
      BY Zenon, <1>1 DEF Placed
    <3>4. (d \in held <=> own[d] = AtListener(l)) /\ (d \in gone => own[d] = AtWire)
      BY Zenon, <1>5, <3>1
    <3>5. ASSUME NEW m \in Listener
          PROVE  d \in Range(listeners'[m].bufmap[AddrOf[d]]) <=> m # l /\ own[d] = AtListener(m)
      <4>1. CASE m = l
        <5>1. AddrOf[d] \in Addr
          BY Zenon DEF Addr
        <5> QED
          BY Zenon, <1>6, <4>1, <5>1, Nothing
      <4>2. CASE m # l
        BY Zenon, <1>6, <3>1, <4>2
      <4> QED
        BY Zenon, <4>1, <4>2
    <3>6. CASE d \in gone \/ own[d] = AtListener(l)
      <4>1. o[d] = AtLost /\ d \in lost' /\ d \notin wire'
        <5>1. own[d] = AtWire => d \in gone
          BY Zenon, <3>6, Apart
        <5> QED
          BY Zenon, <1>2, <3>1, <3>4, <3>6, <5>1
      <4>2. o[d] # AtWire /\ \A m : o[d] # AtListener(m)
        BY Zenon, <4>1, Apart
      <4>3. \A w, i : o[d] # AtTask(w, i) /\ own[d] # AtTask(w, i)
        BY Zenon, <3>4, <3>6, <4>1, Apart
      <4> HIDE DEF o
      <4>4. \A m \in Listener : m # l => own[d] # AtListener(m)
        BY Zenon, <3>4, <3>6, Apart
      <4>5. \A m \in Listener : d \in Range(listeners'[m].bufmap[AddrOf[d]]) <=> o[d] = AtListener(m)
        BY Zenon, <3>5, <4>2, <4>4
      <4>6. \A w \in Worker : \A i \in 1 .. Len(queue'[w]) :
                d \in Range(queue'[w][i].data) <=> o[d] = AtTask(w, i)
        BY Zenon, <3>2, <4>3
      <4> QED
        BY Zenon, <4>1, <4>2, <4>5, <4>6
    <3>7. CASE ~(d \in gone \/ own[d] = AtListener(l))
      <4>1. o[d] = own[d]
        BY Zenon, <3>7
      <4>2. (d \in wire' <=> d \in wire) /\ (d \in lost' <=> d \in lost)
        BY Zenon, <1>2, <3>4, <3>7
      <4>3. \A m \in Listener : d \in Range(listeners'[m].bufmap[AddrOf[d]]) <=> own[d] = AtListener(m)
        BY Zenon, <3>5, <3>7
      <4> HIDE DEF o
      <4> QED
        BY Zenon, <3>1, <3>2, <3>3, <4>1, <4>2, <4>3
    <3> QED
      BY Zenon, <3>6, <3>7
  <2> HIDE DEF o
  <2>2. Placed(o)'
    BY Zenon, <2>1 DEF Placed
  <2> QED
    BY Zenon, <2>2
<1>11. Tidy'
  <2>1. Tidy
    BY Zenon DEF IngestInv
  <2>2. ASSUME NEW m \in Listener
        PROVE  Sorted(listeners'[m].bufmap) /\ (listeners'[m].alive => listeners[m].alive)
    <3>1. CASE m = l
      BY Zenon, <1>6, <3>1, Nothing
    <3>2. CASE m # l
      BY Zenon, <1>6, <2>1, <3>2 DEF Tidy
    <3> QED
      BY Zenon, <3>1, <3>2
  <2>3. \A m \in Listener : listeners'[m].alive => m \in config'.listeners
    BY Zenon, <1>1, <2>1, <2>2 DEF Tidy
  <2>4. \E m \in config'.listeners : ~listeners'[m].alive
    BY Zenon, <1>1, <1>6, <1>8
  <2>5. \A w \in Worker : \A i \in 1 .. Len(queue'[w]) : queue'[w][i].data # <<>>
    BY Zenon, <1>1, <2>1 DEF Tidy
  <2>6. \A m \in Listener : Sorted(listeners'[m].bufmap)
    BY Zenon, <2>2
  <2> QED
    BY Zenon, <2>3, <2>4, <2>5, <2>6 DEF Tidy, Sorted
<1>12. Counted'
  <2>1. ASSUME NEW m \in Listener
        PROVE  /\ listeners'[m].counter = Bytes(HeldIn(listeners'[m].bufmap))
               /\ HeldIn(listeners'[m].bufmap) # {} => listeners'[m].counter < FlushLength
    <3>1. CASE m = l
      BY Zenon, <1>6, <3>1, Nothing DEF Counting
    <3>2. CASE m # l
      BY Zenon, <1>6, <3>2 DEF IngestInv, Counted
    <3> QED
      BY Zenon, <3>1, <3>2
  <2> QED
    BY Zenon, <2>1 DEF Counted, Bytes, HeldIn
<1>13. InArrivalOrder'
  <2> SUFFICES ASSUME config'.consistent, Alone', NEW m \in config'.listeners, NEW a \in Addr
               PROVE  Waiting(queue'[HashOf[a]], a) \o listeners'[m].bufmap[a] = arrived'[a]
    BY Zenon DEF InArrivalOrder, Waiting, Joined
  <2>1. m = l
    BY Zenon, <1>1, <1>8 DEF Alone
  <2> DEFINE q == queue[HashOf[a]]
             w == Waiting(q, a)
  <2>2. Cat(w, old[a]) = arrived[a]
    BY Zenon, <1>1, <2>1 DEF IngestInv, InArrivalOrder, Alone, Cat
  <2>3. HashOf[a] \in Worker /\ q \in Seq(Task)
    BY Zenon, <1>3, IngestAssumption
  <2>4. w \in Seq(Datagram) /\ old[a] \in Seq(Datagram)
    BY Zenon, <1>4, <2>3, WaitingFacts
  <2>5. ASSUME NEW d \in Range(w) PROVE d \notin held
    <3>1. d \in Datagram /\ \E i \in 1 .. Len(q) : own[d] = AtTask(HashOf[a], i)
      BY ONLY Placed(own), <2>3, WaitingPlaced
    <3>2. own[d] # AtListener(l)
      BY Zenon, <3>1, Apart
    <3> QED
      BY Zenon, <1>5, <3>1, <3>2 DEF Placed
  <2>6. \A d \in Range(old[a]) : d \in held
    BY Zenon DEF HeldIn
  <2>7. Waiting(queue'[HashOf[a]], a) = w /\ listeners'[m].bufmap[a] = <<>>
    BY Zenon, <1>1, <1>6, <2>1, Nothing
  <2> HIDE DEF w
  <2>8. Drop(w, held) = w /\ Drop(old[a], held) = <<>>
    <3>1. Drop(w, held) = w
      BY ONLY <2>4, <2>5, DropFacts
    <3>2. Drop(old[a], held) = <<>>
      BY ONLY <2>4, <2>6, DropFacts
    <3> QED
      BY Zenon, <3>1, <3>2
  <2>9. Drop(Cat(w, old[a]), held) = Cat(Drop(w, held), Drop(old[a], held))
    BY ONLY <2>4, DropCat
  <2>10. arrived'[a] = Cat(w, <<>>)
    BY Zenon, <1>7, <2>2, <2>8, <2>9
  <2> QED
    BY Zenon, <2>7, <2>10 DEF Cat
<1> QED
  BY Zenon, <1>9, <1>10, <1>11, <1>12, <1>13 DEF IngestInv

\* A worker takes its next task: what was in it is sent again.
LEMMA ParseStep ==
  ASSUME IngestInv, NEW w \in Worker, Parse(w)
  PROVE  IngestInv'
<1> SUFFICES ASSUME NEW q, q = queue[w], NEW D, D = Range(Head(q).data), NEW own, Placed(own)
             PROVE  IngestInv'
  BY Zenon DEF IngestInv
<1>1. config' = config /\ listeners' = listeners /\ flags' = flags /\ lost' = lost
  BY Zenon DEF Parse
<1>2. q # <<>> /\ wire' = wire \cup D /\ queue' = [queue EXCEPT ![w] = Tail(@)]
  BY Zenon DEF Parse
<1>3. /\ listeners \in [Listener -> State] /\ config \in Config /\ lost \subseteq Datagram
      /\ flags \in [Thread -> BOOLEAN] /\ queue \in [Worker -> Seq(Task)]
      /\ arrived \in [Addr -> Seq(Datagram)] /\ wire \subseteq Datagram
  BY Zenon DEF IngestInv, IngestTypes
<1>4. q \in Seq(Task)
  BY Zenon, <1>3
<1> DEFINE r == Tail(q)
           N == Len(q)
<1>5. /\ r \in Seq(Task) /\ N \in Nat /\ N # 0 /\ Len(r) = N - 1 /\ Head(q) = q[1] /\ 1 \in 1 .. N
      /\ \A i \in 1 .. Len(r) : r[i] = q[i + 1]
  BY <1>2, <1>4
<1>a. \A i \in 1 .. Len(r) : i + 1 \in 2 .. N /\ i + 1 \in 1 .. N /\ i \in 1 .. N /\ (i + 1) - 1 = i
  <2>1. N \in Nat /\ Len(r) = N - 1
    BY Zenon, <1>5
  <2> HIDE DEF r, N
  <2> QED
    BY <2>1
<1>b. \A i \in 2 .. N : i - 1 \in 1 .. Len(r) /\ (i - 1) + 1 = i /\ i \in 1 .. N /\ i # 1
  <2>1. N \in Nat /\ Len(r) = N - 1
    BY Zenon, <1>5
  <2> HIDE DEF r, N
  <2> QED
    BY <2>1
<1>6. queue' \in [Worker -> Seq(Task)] /\ queue'[w] = r /\ \A v \in Worker : v # w => queue'[v] = queue[v]
  BY Zenon, <1>2, <1>3, <1>5
<1> HIDE DEF r, N
<1>7. D \subseteq Datagram /\ \A d : d \in D <=> d \in Range(q[1].data)
  <2>1. q[1].data \in Seq(Datagram)
    BY Zenon, <1>4, <1>5, TaskParts DEF N
  <2>2. D = Range(q[1].data)
    BY Zenon, <1>5
  <2> QED
    BY Zenon, <2>1, <2>2, InSeq
<1>8. arrived' \in [Addr -> Seq(Datagram)] /\ \A a \in Addr : arrived'[a] = Drop(arrived[a], D)
  <2>1. arrived' = [a \in Addr |-> Drop(arrived[a], D)]
    BY Zenon DEF Parse, Without, Drop
  <2>2. \A a \in Addr : Drop(arrived[a], D) \in Seq(Datagram)
    BY Zenon, <1>3, DropFacts
  <2> QED
    BY Zenon, <2>1, <2>2
<1>9. IngestTypes'
  <2>1. wire' \subseteq Datagram
    BY Zenon, <1>2, <1>3, <1>7
  <2> QED
    BY Zenon, <1>1, <1>3, <1>6, <1>8, <2>1 DEF IngestTypes
<1>10. ASSUME NEW d \in Datagram
       PROVE  /\ d \in wire <=> own[d] = AtWire
              /\ d \in lost <=> own[d] = AtLost
              /\ \A m \in Listener : d \in Range(listeners[m].bufmap[AddrOf[d]]) <=> own[d] = AtListener(m)
              /\ \A v \in Worker : \A i \in 1 .. Len(queue[v]) :
                     d \in Range(queue[v][i].data) <=> own[d] = AtTask(v, i)
              /\ \/ own[d] \in {AtWire, AtLost}
                 \/ \E m \in Listener : own[d] = AtListener(m)
                 \/ \E v \in Worker : \E i \in 1 .. Len(queue[v]) : own[d] = AtTask(v, i)
              /\ d \in D <=> own[d] = AtTask(w, 1)
              /\ \A i \in 1 .. Len(r) : d \in Range(r[i].data) <=> own[d] = AtTask(w, i + 1)
  <2>1. \A v \in Worker : \A i \in 1 .. Len(queue[v]) : d \in Range(queue[v][i].data) <=> own[d] = AtTask(v, i)
    BY Zenon DEF Placed
  <2>2. \A i \in 1 .. N : d \in Range(q[i].data) <=> own[d] = AtTask(w, i)
    BY Zenon, <2>1 DEF N
  <2>3. d \in D <=> own[d] = AtTask(w, 1)
    BY Zenon, <1>5, <1>7, <2>2
  <2>4. \A i \in 1 .. Len(r) : d \in Range(r[i].data) <=> own[d] = AtTask(w, i + 1)
    BY Zenon, <1>5, <1>a, <2>2
  <2> QED
    BY Zenon, <2>1, <2>3, <2>4 DEF Placed
<1>11. \E o : Placed(o)'
  <2> DEFINE Later(d) == \E i \in 2 .. N : own[d] = AtTask(w, i)
             o == [d \in Datagram |->
                     IF own[d] = AtTask(w, 1) THEN AtWire
                     ELSE IF Later(d) THEN AtTask(w, (CHOOSE i \in 2 .. N : own[d] = AtTask(w, i)) - 1)
                     ELSE own[d]]
  <2>1. ASSUME NEW d \in Datagram
        PROVE  /\ d \in wire' <=> o[d] = AtWire
               /\ d \in lost' <=> o[d] = AtLost
               /\ \A m \in Listener : d \in Range(listeners'[m].bufmap[AddrOf[d]]) <=> o[d] = AtListener(m)
               /\ \A v \in Worker : \A i \in 1 .. Len(queue'[v]) :
                      d \in Range(queue'[v][i].data) <=> o[d] = AtTask(v, i)
               /\ \/ o[d] \in {AtWire, AtLost}
                  \/ \E m \in Listener : o[d] = AtListener(m)
                  \/ \E v \in Worker : \E i \in 1 .. Len(queue'[v]) : o[d] = AtTask(v, i)
    <3>1. /\ d \in wire' <=> d \in wire \/ own[d] = AtTask(w, 1)
          /\ d \in wire <=> own[d] = AtWire
          /\ d \in lost' <=> own[d] = AtLost
          /\ \A m \in Listener : d \in Range(listeners'[m].bufmap[AddrOf[d]]) <=> own[d] = AtListener(m)
      BY Zenon, <1>1, <1>2, <1>10
    <3>2. ASSUME NEW v \in Worker, NEW i \in 1 .. Len(queue'[v])
          PROVE  d \in Range(queue'[v][i].data) <=> IF v = w THEN own[d] = AtTask(w, i + 1) ELSE own[d] = AtTask(v, i)
      <4>1. CASE v = w
        <5>1. queue'[v] = r
          BY Zenon, <1>6, <4>1
        <5> QED
          BY Zenon, <1>10, <4>1, <5>1
      <4>2. CASE v # w
        <5>1. queue'[v] = queue[v]
          BY Zenon, <1>6, <4>2
        <5> QED
          BY Zenon, <1>10, <4>2, <5>1
      <4> QED
        BY Zenon, <4>1, <4>2
    <3>3. CASE own[d] = AtTask(w, 1)
      <4>1. o[d] = AtWire
        BY Zenon, <3>3
      <4> HIDE DEF o
      <4>2. \A v, i : o[d] # AtTask(v, i)
        BY Zenon, <4>1, Apart
      <4>3. o[d] # AtLost /\ own[d] # AtLost /\ \A m : o[d] # AtListener(m) /\ own[d] # AtListener(m)
        BY Zenon, <3>3, <4>1, Apart
      <4>4. ASSUME NEW v \in Worker, NEW i \in 1 .. Len(queue'[v]) PROVE d \notin Range(queue'[v][i].data)
        <5>1. CASE v = w
          <6>1. i \in 1 .. Len(r)
            BY Zenon, <1>6, <5>1
          <6>2. i + 1 # 1
            BY Zenon, <1>a, <1>b, <6>1
          <6>3. own[d] # AtTask(w, i + 1)
            BY Zenon, <3>3, <6>2, Apart
          <6> QED
            BY Zenon, <3>2, <5>1, <6>3
        <5>2. CASE v # w
          <6>1. own[d] # AtTask(v, i)
            BY Zenon, <3>3, <5>2, Apart
          <6> QED
            BY Zenon, <3>2, <5>2, <6>1
        <5> QED
          BY Zenon, <5>1, <5>2
      <4>5. \A v \in Worker : \A i \in 1 .. Len(queue'[v]) :
                d \in Range(queue'[v][i].data) <=> o[d] = AtTask(v, i)
        BY Zenon, <4>2, <4>4
      <4>6. \A m \in Listener : d \in Range(listeners'[m].bufmap[AddrOf[d]]) <=> o[d] = AtListener(m)
        BY Zenon, <3>1, <4>3
      <4> QED
        BY Zenon, <3>1, <3>3, <4>1, <4>3, <4>5, <4>6
    <3>4. ASSUME own[d] # AtTask(w, 1), NEW k \in 2 .. N, own[d] = AtTask(w, k)
          PROVE  /\ d \in wire' <=> o[d] = AtWire
                 /\ d \in lost' <=> o[d] = AtLost
                 /\ \A m \in Listener : d \in Range(listeners'[m].bufmap[AddrOf[d]]) <=> o[d] = AtListener(m)
                 /\ \A v \in Worker : \A i \in 1 .. Len(queue'[v]) :
                        d \in Range(queue'[v][i].data) <=> o[d] = AtTask(v, i)
                 /\ \E v \in Worker : \E i \in 1 .. Len(queue'[v]) : o[d] = AtTask(v, i)
      <4> DEFINE j == CHOOSE i \in 2 .. N : own[d] = AtTask(w, i)
      <4>1. j \in 2 .. N /\ own[d] = AtTask(w, j)
        BY Zenon, <3>4
      <4>2. j = k
        BY Zenon, <3>4, <4>1, Apart
      <4>3. o[d] = AtTask(w, j - 1)
        BY Zenon, <3>4
      <4> HIDE DEF j, o
      <4>a. o[d] = AtTask(w, k - 1)
        BY Zenon, <4>2, <4>3
      <4>4. k - 1 \in 1 .. Len(r) /\ (k - 1) + 1 = k
        BY Zenon, <1>b
      <4>5. /\ own[d] # AtWire /\ own[d] # AtLost /\ \A m : own[d] # AtListener(m)
            /\ o[d] # AtWire /\ o[d] # AtLost /\ \A m : o[d] # AtListener(m)
        <5>1. own[d] # AtWire /\ own[d] # AtLost /\ \A m : own[d] # AtListener(m)
          BY Zenon, <3>4, Apart
        <5>2. o[d] # AtWire /\ o[d] # AtLost /\ \A m : o[d] # AtListener(m)
          BY Zenon, <4>a, Apart
        <5> QED
          BY Zenon, <5>1, <5>2
      <4>6. ASSUME NEW v \in Worker, NEW i \in 1 .. Len(queue'[v])
            PROVE  d \in Range(queue'[v][i].data) <=> o[d] = AtTask(v, i)
        <5>1. CASE v = w
          <6>1. i \in 1 .. Len(r) /\ (i + 1) - 1 = i
            BY Zenon, <1>6, <1>a, <5>1
          <6>2. own[d] = AtTask(w, i + 1) <=> k = i + 1
            BY Zenon, <3>4, Apart
          <6>3. o[d] = AtTask(w, i) <=> k - 1 = i
            BY ONLY <4>a, Apart
          <6>4. k = i + 1 <=> k - 1 = i
            BY Zenon, <4>4, <6>1
          <6> QED
            BY Zenon, <3>2, <5>1, <6>2, <6>3, <6>4
        <5>2. CASE v # w
          <6>1. own[d] # AtTask(v, i)
            BY Zenon, <3>4, <5>2, Apart
          <6>2. o[d] # AtTask(v, i)
            BY Zenon, <4>a, <5>2, Apart
          <6> QED
            BY Zenon, <3>2, <5>2, <6>1, <6>2
        <5> QED
          BY Zenon, <5>1, <5>2
      <4>7. \E v \in Worker : \E i \in 1 .. Len(queue'[v]) : o[d] = AtTask(v, i)
        BY Zenon, <1>6, <4>a, <4>4
      <4>8. \A m \in Listener : d \in Range(listeners'[m].bufmap[AddrOf[d]]) <=> o[d] = AtListener(m)
        BY Zenon, <3>1, <4>5
      <4>9. (d \in wire' <=> o[d] = AtWire) /\ (d \in lost' <=> o[d] = AtLost)
        BY Zenon, <3>1, <3>4, <4>5
      <4> QED
        BY Zenon, <4>6, <4>7, <4>8, <4>9
    <3>5. CASE own[d] # AtTask(w, 1) /\ ~Later(d)
      <4>1. o[d] = own[d] /\ \A i \in 2 .. N : own[d] # AtTask(w, i)
        BY Zenon, <3>5
      <4> HIDE DEF o
      <4>2. \A i \in 1 .. N : own[d] # AtTask(w, i)
        <5>1. N \in Nat /\ \A i \in 1 .. N : i = 1 \/ i \in 2 .. N
          BY <1>5
        <5> QED
          BY Zenon, <3>5, <4>1, <5>1
      <4>3. ASSUME NEW v \in Worker, NEW i \in 1 .. Len(queue'[v])
            PROVE  d \in Range(queue'[v][i].data) <=> own[d] = AtTask(v, i)
        <5>1. CASE v = w
          <6>1. i \in 1 .. N /\ i + 1 \in 1 .. N
            BY Zenon, <1>6, <1>a, <5>1
          <6> QED
            BY Zenon, <3>2, <4>2, <5>1, <6>1
        <5>2. CASE v # w
          BY Zenon, <3>2, <5>2
        <5> QED
          BY Zenon, <5>1, <5>2
      <4>4. \/ own[d] \in {AtWire, AtLost}
            \/ \E m \in Listener : own[d] = AtListener(m)
            \/ \E v \in Worker : \E i \in 1 .. Len(queue'[v]) : own[d] = AtTask(v, i)
        <5>1. SUFFICES ASSUME NEW v \in Worker, NEW i \in 1 .. Len(queue[v]), own[d] = AtTask(v, i)
                       PROVE  \E u \in Worker : \E j \in 1 .. Len(queue'[u]) : own[d] = AtTask(u, j)
          BY Zenon, <1>10
        <5>2. v # w
          BY Zenon, <4>2, <5>1 DEF N
        <5>3. queue'[v] = queue[v]
          BY Zenon, <1>6, <5>2
        <5> QED
          BY Zenon, <5>1, <5>3
      <4>5. (d \in wire' <=> own[d] = AtWire) /\ (d \in lost' <=> own[d] = AtLost)
        BY Zenon, <3>1, <3>5
      <4>6. \A m \in Listener : d \in Range(listeners'[m].bufmap[AddrOf[d]]) <=> own[d] = AtListener(m)
        BY Zenon, <3>1
      <4>7. o[d] = own[d]
        BY Zenon, <4>1
      <4> QED
        BY ONLY Zenon, <4>3, <4>4, <4>5, <4>6, <4>7
    <3> QED
      BY Zenon, <3>3, <3>4, <3>5
  <2> HIDE DEF o
  <2>2. Placed(o)'
    BY Zenon, <2>1 DEF Placed
  <2> QED
    BY Zenon, <2>2
<1>12. Tidy'
  <2>1. Tidy
    BY Zenon DEF IngestInv
  <2>2. ASSUME NEW v \in Worker, NEW i \in 1 .. Len(queue'[v]) PROVE queue'[v][i].data # <<>>
    <3>1. CASE v = w
      <4>1. i \in 1 .. Len(r) /\ i + 1 \in 1 .. Len(queue[w]) /\ queue'[v][i] = queue[w][i + 1]
        BY Zenon, <1>5, <1>6, <1>a, <3>1 DEF N
      <4> QED
        BY Zenon, <2>1, <4>1 DEF Tidy
    <3>2. CASE v # w
      BY Zenon, <1>6, <2>1, <3>2 DEF Tidy
    <3> QED
      BY Zenon, <3>1, <3>2
  <2> QED
    BY Zenon, <1>1, <2>1, <2>2 DEF Tidy, Sorted
<1>13. Counted'
  <2>1. \A l \in Listener :
          /\ listeners'[l].counter = Bytes(HeldIn(listeners'[l].bufmap))
          /\ HeldIn(listeners'[l].bufmap) # {} => listeners'[l].counter < FlushLength
    BY Zenon, <1>1 DEF IngestInv, Counted
  <2> QED
    BY Zenon, <2>1 DEF Counted, Bytes, HeldIn
<1>14. InArrivalOrder'
  <2> SUFFICES ASSUME config'.consistent, Alone', NEW m \in config'.listeners, NEW a \in Addr
               PROVE  Waiting(queue'[HashOf[a]], a) \o listeners'[m].bufmap[a] = arrived'[a]
    BY Zenon DEF InArrivalOrder, Waiting, Joined
  <2> SUFFICES ASSUME NEW v, v = HashOf[a], NEW b, b = listeners[m].bufmap[a], NEW x, x = Waiting(queue[v], a)
               PROVE  Waiting(queue'[v], a) \o b = arrived'[a]
    BY Zenon, <1>1
  <2>1. Cat(x, b) = arrived[a]
    BY Zenon, <1>1 DEF IngestInv, InArrivalOrder, Alone, Cat
  <2>2. v \in Worker /\ queue[v] \in Seq(Task)
    BY Zenon, <1>3, IngestAssumption
  <2>3. m \in Listener
    BY Zenon, <1>1, <1>3, ConfigParts
  <2>4. b \in Seq(Datagram) /\ x \in Seq(Datagram)
    <3>1. listeners[m] \in State
      BY Zenon, <1>3, <2>3
    <3>2. listeners[m].bufmap \in [Addr -> Seq(Datagram)]
      BY Zenon, <3>1, StateParts
    <3> QED
      BY Zenon, <2>2, <3>2, WaitingFacts
  <2>5. \A d \in Range(b) : d \notin D
    <3> TAKE d \in Range(b)
    <3>1. AddrOf[d] = a
      BY Zenon, <2>3 DEF IngestInv, Tidy, Sorted
    <3>2. d \in Datagram
      BY Zenon, <2>4, InSeq
    <3>3. own[d] = AtListener(m)
      BY Zenon, <1>10, <2>3, <3>1, <3>2
    <3>4. own[d] # AtTask(w, 1)
      BY Zenon, <3>3, Apart
    <3> QED
      BY Zenon, <1>10, <3>2, <3>4
  <2>6. Drop(b, D) = b
    BY ONLY <2>4, <2>5, DropFacts
  <2>7. Drop(Cat(x, b), D) = Cat(Drop(x, D), Drop(b, D))
    BY ONLY <2>4, DropCat
  <2>8. arrived'[a] = Cat(Drop(x, D), b)
    BY Zenon, <1>8, <2>1, <2>6, <2>7
  <2>9. CASE v # w
    <3>1. ASSUME NEW d \in Range(x) PROVE d \notin D
      <4>1. d \in Datagram /\ \E i \in 1 .. Len(queue[v]) : own[d] = AtTask(v, i)
        BY ONLY Placed(own), <2>2, WaitingPlaced, d \in Range(x), x = Waiting(queue[v], a)
      <4>2. own[d] # AtTask(w, 1)
        <5>1. PICK i \in 1 .. Len(queue[v]) : own[d] = AtTask(v, i)
          BY Zenon, <4>1
        <5> QED
          BY ONLY Zenon, <2>9, <5>1, Apart
      <4> QED
        BY Zenon, <1>10, <4>1, <4>2
    <3>2. Drop(x, D) = x
      BY ONLY <2>4, <3>1, DropFacts
    <3> QED
      BY Zenon, <1>6, <2>2, <2>8, <2>9, <3>2 DEF Cat
  <2>10. CASE v = w
    <3> DEFINE y == Waiting(r, a)
    <3>1. y \in Seq(Datagram) /\ \A d \in Range(y) : \E i \in 1 .. Len(r) : d \in Range(r[i].data)
      <4>1. r \in Seq(Task)
        BY Zenon, <1>5
      <4> QED
        BY ONLY Zenon, <4>1, WaitingFacts
    <3>2. x = IF Head(q).addr = a THEN Cat(Head(q).data, y) ELSE y
      <4>1. q = queue[v]
        BY Zenon, <2>10
      <4> QED
        BY Zenon, <1>2, <1>4, <4>1, WaitingTail DEF r
    <3>3. ASSUME NEW d \in Range(y) PROVE d \notin D
      <4>1. PICK i \in 1 .. Len(r) : d \in Range(r[i].data)
        BY Zenon, <3>1
      <4>2. d \in Datagram
        BY Zenon, <3>1, InSeq
      <4>3. own[d] = AtTask(w, i + 1) /\ i + 1 # 1
        BY Zenon, <1>10, <1>a, <1>b, <4>1, <4>2
      <4>4. own[d] # AtTask(w, 1)
        BY Zenon, <4>3, Apart
      <4> QED
        BY Zenon, <1>10, <4>2, <4>4
    <3> HIDE DEF y
    <3>4. Drop(y, D) = y
      BY ONLY <3>1, <3>3, DropFacts
    <3>5. Drop(x, D) = y
      <4>1. CASE Head(q).addr = a
        <5> DEFINE h == Head(q).data
        <5>1. h \in Seq(Datagram) /\ \A d \in Range(h) : d \in D
          BY Zenon, <1>4, <1>5, TaskParts DEF N
        <5>2. x = Cat(h, y)
          BY Zenon, <3>2, <4>1
        <5> HIDE DEF h
        <5>3. Drop(h, D) = <<>>
          BY ONLY <5>1, DropFacts
        <5>4. Drop(Cat(h, y), D) = Cat(Drop(h, D), Drop(y, D))
          BY ONLY <3>1, <5>1, DropCat
        <5>5. Cat(<<>>, y) = y
          BY Zenon, <3>1, CatFacts
        <5> QED
          BY Zenon, <3>4, <5>2, <5>3, <5>4, <5>5
      <4>2. CASE Head(q).addr # a
        BY Zenon, <3>2, <3>4, <4>2
      <4> QED
        BY Zenon, <4>1, <4>2
    <3> QED
      BY Zenon, <1>6, <2>8, <2>10, <3>5 DEF Cat, y
  <2> QED
    BY Zenon, <2>9, <2>10
<1> QED
  BY Zenon, <1>9, <1>11, <1>12, <1>13, <1>14 DEF IngestInv

\* z is x with y after it, element by element.
Appended(x, y, z) ==
    /\ \A i \in 1 .. Len(x) : i \in 1 .. Len(z) /\ z[i] = x[i]
    /\ \A j \in 1 .. Len(y) : /\ Len(x) + j \in 1 .. Len(z) /\ Len(x) + j \notin 1 .. Len(x)
                              /\ z[Len(x) + j] = y[j]
    /\ \A i \in 1 .. Len(z) : i \in 1 .. Len(x) \/ \E j \in 1 .. Len(y) : i = Len(x) + j
    /\ \A i, j \in 1 .. Len(y) : Len(x) + i = Len(x) + j => i = j

\* A concatenation, element by element.
LEMMA CatParts ==
  ASSUME NEW T, NEW x \in Seq(T), NEW y \in Seq(T)
  PROVE  Cat(x, y) \in Seq(T) /\ Appended(x, y, Cat(x, y))
<1> DEFINE z == Cat(x, y)
<1>1. /\ z \in Seq(T) /\ Len(x) \in Nat /\ Len(y) \in Nat /\ Len(z) = Len(x) + Len(y)
      /\ \A i \in 1 .. Len(x) : z[i] = x[i]
      /\ \A i \in 1 .. Len(y) : z[Len(x) + i] = y[i]
  BY DEF Cat
<1> HIDE DEF z
<1> SUFFICES ASSUME NEW m \in Nat, m = Len(x), NEW n \in Nat, n = Len(y), NEW k \in Nat, k = Len(z), k = m + n
             PROVE  /\ \A i \in 1 .. m : i \in 1 .. k
                    /\ \A j \in 1 .. n : m + j \in 1 .. k /\ m + j \notin 1 .. m
                    /\ \A i \in 1 .. k : i \in 1 .. m \/ \E j \in 1 .. n : i = m + j
                    /\ \A i, j \in 1 .. n : m + i = m + j => i = j
  <2>1. Len(z) \in Nat
    BY <1>1
  <2>2. Cat(x, y) = z /\ z \in Seq(T)
    BY Zenon, <1>1 DEF z
  <2>3. Appended(x, y, z)
    BY Zenon, <1>1, <2>1 DEF Appended
  <2> QED
    BY Zenon, <2>2, <2>3
<1>2. /\ \A i \in 1 .. m : i \in 1 .. k
      /\ \A j \in 1 .. n : m + j \in 1 .. k /\ m + j \notin 1 .. m
      /\ \A i, j \in 1 .. n : m + i = m + j => i = j
  OBVIOUS
<1>3. ASSUME NEW i \in 1 .. k, i \notin 1 .. m PROVE \E j \in 1 .. n : i = m + j
  <2>1. i - m \in 1 .. n /\ i = m + (i - m)
    BY <1>3
  <2> QED
    BY Zenon, <2>1
<1> QED
  BY Zenon, <1>2, <1>3

\* The tasks T a flush of b makes: one for every buffer that is not empty,
\* which goes to the worker of its address when parsing is consistent.
FlushOk(T, b) ==
    /\ \A v \in Worker : T[v] \in Seq(Task)
    /\ \A v \in Worker : \A j \in 1 .. Len(T[v]) :
          T[v][j].addr \in Sources(b) /\ T[v][j].data = b[T[v][j].addr]
    /\ \A a \in Sources(b) : \E v \in Worker : \E j \in 1 .. Len(T[v]) : T[v][j].addr = a
    /\ \A u, v \in Worker : \A i \in 1 .. Len(T[u]), j \in 1 .. Len(T[v]) :
          T[u][i].addr = T[v][j].addr => u = v /\ i = j
    /\ config.consistent => \A v \in Worker : \A j \in 1 .. Len(T[v]) : HashOf[T[v][j].addr] = v

\* TasksFor makes such tasks for all workers, for any order of the map.
LEMMA FlushFacts ==
  ASSUME Counting, IngestTypes, NEW l \in Listener, NEW b \in [Addr -> Seq(Datagram)],
         NEW order \in Bijection(1 .. Cardinality(Sources(b)), Sources(b)),
         NEW T, T = [v \in Worker |-> TasksFor(v, l, b, order)]
  PROVE  Len(order) \in Nat /\ FlushOk(T, b)
<1> DEFINE S == Sources(b)
           N == Len(order)
<1>1. S \in SUBSET Addr
  BY Zenon DEF Sources
<1>2. order \in Seq(S) /\ Distinct(order) /\ \A a \in S : \E k \in 1 .. N : order[k] = a
  <2>1. Cardinality(S) \in Nat
    BY Zenon, <1>1 DEF Counting
  <2> QED
    BY Zenon, <2>1, OrderFacts
<1> HIDE DEF S
<1>3. order \in Seq(Addr) /\ N \in Nat /\ \A k \in 1 .. N : order[k] \in S /\ order[k] \in Addr
  BY <1>1, <1>2
<1> HIDE DEF N
<1>a. ASSUME NEW v \in Worker PROVE TasksOk(T[v], v, l, b, order)
  <2>1. T[v] = TasksFor(v, l, b, order)
    BY Zenon
  <2>2. TasksOk(TasksFor(v, l, b, order), v, l, b, order)
    BY Zenon, <1>2, <1>3, TasksFacts
  <2> QED
    BY Zenon, <2>1, <2>2
<1>4. ASSUME NEW v \in Worker PROVE T[v] \in Seq(Task)
  BY Zenon, <1>a DEF TasksOk
<1>b. ASSUME NEW v \in Worker, NEW i \in 1 .. Len(T[v])
      PROVE  \E k \in 1 .. N :
                Target(l, order, k) = v /\ T[v][i].addr = order[k] /\ T[v][i].data = b[order[k]]
  <2>1. TasksOk(T[v], v, l, b, order)
    BY Zenon, <1>a
  <2>2. \A n \in 1 .. Len(T[v]) : \E k \in 1 .. Len(order) :
           Target(l, order, k) = v /\ T[v][n].addr = order[k] /\ T[v][n].data = b[order[k]]
    BY Zenon, <2>1 DEF TasksOk
  <2> QED
    BY Zenon, <2>2 DEF N
<1>c. ASSUME NEW v \in Worker, NEW k \in 1 .. N, Target(l, order, k) = v
      PROVE  \E i \in 1 .. Len(T[v]) : T[v][i].addr = order[k]
  <2>1. TasksOk(T[v], v, l, b, order)
    BY Zenon, <1>a
  <2>2. \A m \in 1 .. Len(order) : Target(l, order, m) = v => \E i \in 1 .. Len(T[v]) : T[v][i].addr = order[m]
    BY Zenon, <2>1 DEF TasksOk
  <2> QED
    BY Zenon, <1>c, <2>2 DEF N
<1>d. ASSUME NEW v \in Worker, NEW i \in 1 .. Len(T[v]), NEW j \in 1 .. Len(T[v]), T[v][i].addr = T[v][j].addr
      PROVE  i = j
  <2>1. TasksOk(T[v], v, l, b, order)
    BY Zenon, <1>a
  <2>2. \A m, n \in 1 .. Len(T[v]) : T[v][m].addr = T[v][n].addr => m = n
    BY Zenon, <2>1 DEF TasksOk
  <2> QED
    BY Zenon, <1>d, <2>2
<1>5. ASSUME NEW k \in 1 .. N PROVE Target(l, order, k) \in Worker
  <2>1. CASE config.consistent
    <3>1. Target(l, order, k) = HashOf[order[k]]
      BY Zenon, <2>1 DEF Target
    <3> QED
      BY Zenon, <1>3, <3>1, IngestAssumption
  <2>2. CASE ~config.consistent
    <3>1. Target(l, order, k) = (listeners[l].next + k - 1) % W
      BY Zenon, <2>2 DEF Target
    <3>2. listeners[l].next \in Worker
      BY Zenon, StateParts DEF IngestTypes
    <3>3. W \in Nat \ {0}
      BY Zenon, IngestAssumption
    <3> DEFINE n == listeners[l].next
    <3>4. n \in 0 .. W - 1
      BY Zenon, <3>2 DEF Worker
    <3> HIDE DEF n
    <3>5. (n + k - 1) % W \in 0 .. W - 1
      BY <1>3, <3>3, <3>4
    <3> QED
      BY Zenon, <3>1, <3>5 DEF n, Worker
  <2> QED
    BY Zenon, <2>1, <2>2
<1>6. ASSUME NEW v \in Worker, NEW j \in 1 .. Len(T[v])
      PROVE  T[v][j].addr \in S /\ T[v][j].data = b[T[v][j].addr]
  <2>1. PICK k \in 1 .. N : T[v][j].addr = order[k] /\ T[v][j].data = b[order[k]]
    BY Zenon, <1>b
  <2> QED
    BY Zenon, <1>3, <2>1
<1>7. ASSUME NEW a \in S PROVE \E v \in Worker : \E j \in 1 .. Len(T[v]) : T[v][j].addr = a
  <2>1. PICK k \in 1 .. N : order[k] = a
    BY Zenon, <1>2
  <2>2. Target(l, order, k) \in Worker
    BY Zenon, <1>5
  <2> QED
    BY Zenon, <1>c, <2>1, <2>2
<1>8. ASSUME NEW u \in Worker, NEW v \in Worker, NEW i \in 1 .. Len(T[u]), NEW j \in 1 .. Len(T[v]),
             T[u][i].addr = T[v][j].addr
      PROVE  u = v /\ i = j
  <2>1. PICK k \in 1 .. N : Target(l, order, k) = u /\ T[u][i].addr = order[k]
    BY Zenon, <1>b
  <2>2. PICK m \in 1 .. N : Target(l, order, m) = v /\ T[v][j].addr = order[m]
    BY Zenon, <1>b
  <2>3. order[k] = order[m]
    BY Zenon, <1>8, <2>1, <2>2
  <2>4. k = m
    BY Zenon, <1>2, <2>3 DEF Distinct, N
  <2>5. u = v
    BY Zenon, <2>1, <2>2, <2>4
  <2> QED
    BY Zenon, <1>d, <1>8, <2>5
<1>9. \A v \in Worker : \A j \in 1 .. Len(T[v]) :
         T[v][j].addr \in Sources(b) /\ T[v][j].data = b[T[v][j].addr]
  <2> TAKE v \in Worker
  <2> TAKE j \in 1 .. Len(T[v])
  <2>1. T[v][j].addr \in S
    BY Zenon, <1>6
  <2>2. T[v][j].data = b[T[v][j].addr]
    BY Zenon, <1>6
  <2> QED
    BY Zenon, <2>1, <2>2 DEF S
<1>12. config.consistent => \A v \in Worker : \A j \in 1 .. Len(T[v]) : HashOf[T[v][j].addr] = v
  <2> SUFFICES ASSUME config.consistent, NEW v \in Worker, NEW j \in 1 .. Len(T[v])
               PROVE  HashOf[T[v][j].addr] = v
    BY Zenon
  <2>1. PICK k \in 1 .. N : Target(l, order, k) = v /\ T[v][j].addr = order[k]
    BY Zenon, <1>b
  <2>2. Target(l, order, k) = HashOf[order[k]]
    BY Zenon DEF Target
  <2> QED
    BY Zenon, <2>1, <2>2
<1>10. \A a \in Sources(b) : \E v \in Worker : \E j \in 1 .. Len(T[v]) : T[v][j].addr = a
  BY Zenon, <1>7 DEF S
<1>11. Len(order) \in Nat
  BY Zenon, <1>3 DEF N
<1> QED
  BY Zenon, <1>4, <1>8, <1>9, <1>10, <1>11, <1>12 DEF FlushOk

\* Listener l has read data, has b in its buffers then, and flushes them as
\* the tasks T.
Flushed(l, data, b, T) ==
    /\ Sorted(b) /\ FlushOk(T, b)
    /\ \A d \in Datagram : d \in Range(b[AddrOf[d]]) <=>
                              d \in Range(listeners[l].bufmap[AddrOf[d]]) \/ d \in Range(data)
    /\ Range(data) \subseteq wire /\ wire' = wire \ Range(data) /\ lost' = lost
    /\ listeners'[l].bufmap = NoBuffers /\ \A m \in Listener : m # l => listeners'[m] = listeners[m]
    /\ \A v \in Worker : Appended(queue[v], T[v], queue'[v])

\* Then every datagram is in one place again.
LEMMA FlushPlaced ==
  ASSUME NEW l \in Listener, NEW data, NEW b, NEW T, Flushed(l, data, b, T), NEW own, Placed(own)
  PROVE  \E o : Placed(o)'
<1>1. Sorted(b) /\ \A d \in Datagram : d \in Range(b[AddrOf[d]]) <=>
                      d \in Range(listeners[l].bufmap[AddrOf[d]]) \/ d \in Range(data)
  BY Zenon DEF Flushed
<1>2. Range(data) \subseteq wire /\ wire' = wire \ Range(data) /\ lost' = lost
  BY Zenon DEF Flushed
<1>5. FlushOk(T, b)
  BY Zenon DEF Flushed
<1>b. \A v \in Worker : \A j \in 1 .. Len(T[v]) : T[v][j].addr \in Sources(b) /\ T[v][j].data = b[T[v][j].addr]
  BY Zenon, <1>5 DEF FlushOk
<1>c. \A a \in Sources(b) : \E v \in Worker : \E j \in 1 .. Len(T[v]) : T[v][j].addr = a
  BY Zenon, <1>5 DEF FlushOk
<1>d. \A u, v \in Worker : \A i \in 1 .. Len(T[u]), j \in 1 .. Len(T[v]) :
         T[u][i].addr = T[v][j].addr => u = v /\ i = j
  BY Zenon, <1>5 DEF FlushOk
<1>6. listeners'[l].bufmap = NoBuffers /\ \A m \in Listener : m # l => listeners'[m] = listeners[m]
  BY Zenon DEF Flushed
<1>9. ASSUME NEW v \in Worker PROVE Appended(queue[v], T[v], queue'[v])
  BY Zenon DEF Flushed
<1>f. \A v \in Worker : \A i \in 1 .. Len(queue[v]) : i \in 1 .. Len(queue'[v]) /\ queue'[v][i] = queue[v][i]
  BY Zenon, <1>9 DEF Appended
<1>g. \A v \in Worker : \A j \in 1 .. Len(T[v]) :
         /\ Len(queue[v]) + j \in 1 .. Len(queue'[v])
         /\ Len(queue[v]) + j \notin 1 .. Len(queue[v])
         /\ queue'[v][Len(queue[v]) + j] = T[v][j]
  BY Zenon, <1>9 DEF Appended
<1>h. \A v \in Worker : \A i \in 1 .. Len(queue'[v]) :
         i \in 1 .. Len(queue[v]) \/ \E j \in 1 .. Len(T[v]) : i = Len(queue[v]) + j
  BY Zenon, <1>9 DEF Appended
<1>i. \A v \in Worker : \A i, j \in 1 .. Len(T[v]) : Len(queue[v]) + i = Len(queue[v]) + j => i = j
  BY Zenon, <1>9 DEF Appended
<1>11. ASSUME NEW a \in Addr, b[a] # <<>> PROVE a \in Sources(b)
  BY Zenon, <1>11 DEF Sources
<1>12. ASSUME NEW v \in Worker, NEW j \in 1 .. Len(T[v]), NEW d \in Datagram
       PROVE  d \in Range(T[v][j].data) <=> d \in Range(b[AddrOf[d]]) /\ T[v][j].addr = AddrOf[d]
  <2>1. T[v][j].addr \in Sources(b) /\ T[v][j].data = b[T[v][j].addr]
    BY Zenon, <1>b
  <2>2. T[v][j].addr \in Addr
    BY Zenon, <2>1 DEF Sources
  <2>3. \A a \in Addr : \A e \in Range(b[a]) : AddrOf[e] = a
    BY Zenon, <1>1 DEF Sorted
  <2>4. d \in Range(b[T[v][j].addr]) => AddrOf[d] = T[v][j].addr
    BY ONLY Zenon, <2>2, <2>3
  <2> QED
    BY Zenon, <2>1, <2>4
<1>13. \E o : Placed(o)'
  <2>s. SUFFICES ASSUME NEW L, L = [v \in Worker |-> Len(queue[v])] PROVE \E o : Placed(o)'
    BY Zenon
  <2> DEFINE At(d, p) == \E v \in Worker : \E j \in 1 .. Len(T[v]) :
                            T[v][j].addr = AddrOf[d] /\ p = AtTask(v, L[v] + j)
             o == [d \in Datagram |-> IF d \in Range(b[AddrOf[d]]) THEN CHOOSE p : At(d, p) ELSE own[d]]
  <2>1. ASSUME NEW d \in Datagram
        PROVE  /\ d \in wire' <=> o[d] = AtWire
               /\ d \in lost' <=> o[d] = AtLost
               /\ \A m \in Listener : d \in Range(listeners'[m].bufmap[AddrOf[d]]) <=> o[d] = AtListener(m)
               /\ \A w \in Worker : \A i \in 1 .. Len(queue'[w]) :
                      d \in Range(queue'[w][i].data) <=> o[d] = AtTask(w, i)
               /\ \/ o[d] \in {AtWire, AtLost}
                  \/ \E m \in Listener : o[d] = AtListener(m)
                  \/ \E w \in Worker : \E i \in 1 .. Len(queue'[w]) : o[d] = AtTask(w, i)
    <3>1. /\ d \in wire <=> own[d] = AtWire
          /\ d \in lost <=> own[d] = AtLost
          /\ \A m \in Listener : d \in Range(listeners[m].bufmap[AddrOf[d]]) <=> own[d] = AtListener(m)
          /\ \A w \in Worker : \A i \in 1 .. Len(queue[w]) :
                 d \in Range(queue[w][i].data) <=> own[d] = AtTask(w, i)
          /\ \/ own[d] \in {AtWire, AtLost}
             \/ \E m \in Listener : own[d] = AtListener(m)
             \/ \E w \in Worker : \E i \in 1 .. Len(queue[w]) : own[d] = AtTask(w, i)
      BY Zenon DEF Placed
    <3>2. AddrOf[d] \in Addr
      BY Zenon DEF Addr
    <3>3. d \notin Range(listeners'[l].bufmap[AddrOf[d]])
      BY Zenon, <1>6, <3>2, Nothing
    <3>4. CASE d \in Range(b[AddrOf[d]])
      <4>1. own[d] = AtWire \/ own[d] = AtListener(l)
        BY Zenon, <1>1, <1>2, <3>1, <3>4
      <4>2. b[AddrOf[d]] # <<>>
        BY Zenon, <3>4, NothingIn
      <4>3. AddrOf[d] \in Sources(b)
        BY Zenon, <1>11, <3>2, <4>2
      <4>4. \E p : At(d, p)
        BY Zenon, <1>c, <4>3
      <4>5. o[d] = CHOOSE p : At(d, p)
        BY Zenon, <3>4
      <4>6. At(d, o[d])
        BY Zenon, <4>4, <4>5
      <4>7. PICK u \in Worker : \E j \in 1 .. Len(T[u]) :
                T[u][j].addr = AddrOf[d] /\ o[d] = AtTask(u, L[u] + j)
        BY Zenon, <4>6
      <4>8. PICK k \in 1 .. Len(T[u]) : T[u][k].addr = AddrOf[d] /\ o[d] = AtTask(u, Len(queue[u]) + k)
        BY Zenon, <2>s, <4>7
      <4> HIDE DEF o
      <4>9. o[d] # AtWire /\ o[d] # AtLost /\ \A m : o[d] # AtListener(m)
        BY ONLY <4>8, Apart
      <4>10. /\ own[d] # AtLost /\ (\A m : m # l => own[d] # AtListener(m)) /\ \A w, i : own[d] # AtTask(w, i)
        BY Zenon, <4>1, Apart
      <4>11. d \notin wire' /\ d \notin lost'
        <5>1. d \in wire => d \in Range(data)
          <6>1. d \in wire => d \notin Range(listeners[l].bufmap[AddrOf[d]])
            BY Zenon, <3>1, Apart
          <6> QED
            BY Zenon, <1>1, <3>4, <6>1
        <5> QED
          BY Zenon, <1>2, <3>1, <4>10, <5>1
      <4>12. ASSUME NEW m \in Listener PROVE d \notin Range(listeners'[m].bufmap[AddrOf[d]])
        <5>1. CASE m = l
          BY Zenon, <3>3, <5>1
        <5>2. CASE m # l
          BY Zenon, <1>6, <3>1, <4>10, <5>2
        <5> QED
          BY Zenon, <5>1, <5>2
      <4>13. ASSUME NEW w \in Worker, NEW i \in 1 .. Len(queue'[w])
             PROVE  d \in Range(queue'[w][i].data) <=> o[d] = AtTask(w, i)
        <5>1. CASE i \in 1 .. Len(queue[w])
          <6>1. queue'[w][i] = queue[w][i]
            BY Zenon, <1>f, <5>1
          <6>2. d \notin Range(queue[w][i].data)
            BY Zenon, <3>1, <4>10, <5>1
          <6>3. o[d] # AtTask(w, i)
            <7>1. Len(queue[u]) + k \notin 1 .. Len(queue[u])
              BY Zenon, <1>g
            <7>2. o[d] = AtTask(w, i) => u = w /\ Len(queue[u]) + k = i
              BY ONLY <4>8, Apart
            <7> QED
              BY Zenon, <5>1, <7>1, <7>2
          <6> QED
            BY Zenon, <6>1, <6>2, <6>3
        <5>2. ASSUME NEW j \in 1 .. Len(T[w]), i = Len(queue[w]) + j
              PROVE  d \in Range(queue'[w][i].data) <=> o[d] = AtTask(w, i)
          <6>1. queue'[w][i] = T[w][j]
            BY Zenon, <1>g, <5>2
          <6>2. d \in Range(queue'[w][i].data) <=> T[w][j].addr = AddrOf[d]
            <7>1. d \in Range(T[w][j].data) <=> d \in Range(b[AddrOf[d]]) /\ T[w][j].addr = AddrOf[d]
              BY <1>12
            <7> QED
              BY ONLY Zenon, <3>4, <6>1, <7>1
          <6>3. T[w][j].addr = AddrOf[d] => w = u /\ j = k
            <7>1. T[w][j].addr = T[u][k].addr => w = u /\ j = k
              BY Zenon, <1>d
            <7> QED
              BY ONLY Zenon, <4>8, <7>1
          <6>4. o[d] = AtTask(w, i) => u = w /\ Len(queue[u]) + k = Len(queue[w]) + j
            BY ONLY <4>8, <5>2, Apart
          <6>5. o[d] = AtTask(w, i) => u = w /\ j = k
            BY Zenon, <1>i, <6>4
          <6>6. u = w /\ j = k => o[d] = AtTask(w, i) /\ T[w][j].addr = AddrOf[d]
            BY Zenon, <4>8, <5>2
          <6> QED
            BY Zenon, <6>2, <6>3, <6>5, <6>6
        <5>3. i \in 1 .. Len(queue[w]) \/ \E j \in 1 .. Len(T[w]) : i = Len(queue[w]) + j
          BY Zenon, <1>h
        <5> QED
          BY ONLY Zenon, <5>1, <5>2, <5>3
      <4>14. \E w \in Worker : \E i \in 1 .. Len(queue'[w]) : o[d] = AtTask(w, i)
        BY Zenon, <1>g, <4>8
      <4> QED
        BY Zenon, <4>9, <4>11, <4>12, <4>13, <4>14
    <3>5. CASE d \notin Range(b[AddrOf[d]])
      <4>1. o[d] = own[d]
        BY Zenon, <3>5
      <4>2. d \notin Range(data) /\ own[d] # AtListener(l)
        BY Zenon, <1>1, <3>1, <3>5
      <4>3. (d \in wire' <=> own[d] = AtWire) /\ (d \in lost' <=> own[d] = AtLost)
        BY Zenon, <1>2, <3>1, <4>2
      <4>4. ASSUME NEW m \in Listener
            PROVE  d \in Range(listeners'[m].bufmap[AddrOf[d]]) <=> own[d] = AtListener(m)
        <5>1. CASE m = l
          BY Zenon, <3>3, <4>2, <5>1
        <5>2. CASE m # l
          BY Zenon, <1>6, <3>1, <5>2
        <5> QED
          BY Zenon, <5>1, <5>2
      <4>5. ASSUME NEW w \in Worker, NEW i, own[d] = AtTask(w, i) PROVE i \in 1 .. Len(queue[w])
        <5>1. own[d] # AtWire /\ own[d] # AtLost /\ \A m : own[d] # AtListener(m)
          BY Zenon, <4>5, Apart
        <5>2. \E v \in Worker : \E j \in 1 .. Len(queue[v]) : own[d] = AtTask(v, j)
          BY Zenon, <3>1, <5>1
        <5>3. PICK v \in Worker : \E j \in 1 .. Len(queue[v]) : own[d] = AtTask(v, j)
          BY Zenon, <5>2
        <5>4. PICK j \in 1 .. Len(queue[v]) : own[d] = AtTask(v, j)
          BY Zenon, <5>3
        <5>5. v = w /\ j = i
          <6>1. AtTask(v, j) = AtTask(w, i)
            BY ONLY Zenon, <4>5, <5>4
          <6> QED
            BY <6>1 DEF AtTask
        <5> QED
          BY Zenon, <5>4, <5>5
      <4>6. ASSUME NEW w \in Worker, NEW i \in 1 .. Len(queue'[w])
            PROVE  d \in Range(queue'[w][i].data) <=> own[d] = AtTask(w, i)
        <5>1. CASE i \in 1 .. Len(queue[w])
          BY Zenon, <1>f, <3>1, <5>1
        <5>2. ASSUME NEW j \in 1 .. Len(T[w]), i = Len(queue[w]) + j
              PROVE  d \notin Range(queue'[w][i].data) /\ own[d] # AtTask(w, i)
          <6>1. queue'[w][i] = T[w][j] /\ i \notin 1 .. Len(queue[w])
            BY Zenon, <1>g, <5>2
          <6>2. d \notin Range(T[w][j].data)
            BY Zenon, <1>12, <3>5
          <6> QED
            BY Zenon, <4>5, <6>1, <6>2
        <5>3. i \in 1 .. Len(queue[w]) \/ \E j \in 1 .. Len(T[w]) : i = Len(queue[w]) + j
          BY Zenon, <1>h
        <5> QED
          BY ONLY Zenon, <5>1, <5>2, <5>3
      <4>7. \/ own[d] \in {AtWire, AtLost}
            \/ \E m \in Listener : own[d] = AtListener(m)
            \/ \E w \in Worker : \E i \in 1 .. Len(queue'[w]) : own[d] = AtTask(w, i)
        BY Zenon, <1>f, <3>1
      <4> QED
        BY ONLY Zenon, <4>1, <4>3, <4>4, <4>6, <4>7
    <3> QED
      BY Zenon, <3>4, <3>5
  <2> HIDE DEF At, o
  <2>2. Placed(o)'
    BY Zenon, <2>1 DEF Placed
  <2> QED
    BY Zenon, <2>2
<1> QED
  BY Zenon, <1>13

\* What the new tasks hold of an address is what its buffer held.
LEMMA FlushWaiting ==
  ASSUME NEW T, NEW b, FlushOk(T, b), config.consistent, NEW a \in Addr, NEW v, v = HashOf[a]
  PROVE  Waiting(T[v], a) = b[a]
<1>a. v \in Worker
  BY Zenon, IngestAssumption
<1>b. \A j \in 1 .. Len(T[v]) : T[v][j].addr \in Sources(b) /\ T[v][j].data = b[T[v][j].addr]
  BY Zenon, <1>a DEF FlushOk
<1>c. \A i, j \in 1 .. Len(T[v]) : T[v][i].addr = T[v][j].addr => i = j
  <2>1. \A u, w \in Worker : \A i \in 1 .. Len(T[u]), j \in 1 .. Len(T[w]) :
           T[u][i].addr = T[w][j].addr => u = w /\ i = j
    BY Zenon DEF FlushOk
  <2> QED
    BY <1>a, <2>1
<1>d. T[v] \in Seq(Task)
  BY Zenon, <1>a DEF FlushOk
<1>1. CASE a \in Sources(b)
  <2>1. \E u \in Worker : \E j \in 1 .. Len(T[u]) : T[u][j].addr = a
    BY Zenon, <1>1 DEF FlushOk
  <2>2. \A u \in Worker : \A j \in 1 .. Len(T[u]) : HashOf[T[u][j].addr] = u
    BY Zenon DEF FlushOk
  <2>3. PICK k \in 1 .. Len(T[v]) : T[v][k].addr = a
    <3>1. PICK u \in Worker : \E j \in 1 .. Len(T[u]) : T[u][j].addr = a
      BY Zenon, <2>1
    <3>2. PICK j \in 1 .. Len(T[u]) : T[u][j].addr = a
      BY Zenon, <3>1
    <3>3. u = v
      BY Zenon, <2>2, <3>2
    <3> QED
      BY Zenon, <3>2, <3>3
  <2>4. T[v][k].data = b[a]
    BY Zenon, <1>b, <2>3
  <2>5. \A i \in 1 .. Len(T[v]) : T[v][i].addr = a => i = k
    BY Zenon, <1>c, <2>3
  <2>6. Waiting(T[v], a) = T[v][k].data
    BY ONLY <1>d, <2>3, <2>5, WaitingFacts
  <2> QED
    BY Zenon, <2>4, <2>6
<1>2. CASE a \notin Sources(b)
  <2>1. b[a] = <<>>
    BY Zenon, <1>2 DEF Sources
  <2>2. \A i \in 1 .. Len(T[v]) : T[v][i].addr # a
    BY Zenon, <1>b, <1>2
  <2>3. Waiting(T[v], a) = <<>>
    BY ONLY <1>d, <2>2, WaitingFacts
  <2> QED
    BY Zenon, <2>1, <2>3
<1> QED
  BY Zenon, <1>1, <1>2

\* Data that makes the listener flush: what it held and what it read is in
\* the new tasks then.
LEMMA DrainStep ==
  ASSUME IngestInv, Counting, NEW l \in Listener, NEW data \in Received, Receive(l, data),
         ShouldFlush(l, listeners[l].counter + Bytes(Range(data)))
  PROVE  IngestInv'
<1>s. SUFFICES ASSUME NEW old, old = listeners[l].bufmap, NEW b, b = Buffered(old, data),
                    NEW own, Placed(own)
             PROVE  IngestInv'
  BY Zenon DEF IngestInv
<1>1. /\ old \in [Addr -> Seq(Datagram)] /\ Sorted(old)
      /\ data \in Seq(Datagram) /\ Range(data) \subseteq wire /\ wire \subseteq Datagram
      /\ b \in [Addr -> Seq(Datagram)] /\ Sorted(b)
      /\ \A a \in Addr : b[a] = Cat(old[a], From(a, data)) /\ From(a, data) \in Seq(Datagram)
      /\ \A d \in Datagram : d \in Range(b[AddrOf[d]]) <=> d \in Range(old[AddrOf[d]]) \/ d \in Range(data)
  BY <1>s, ReadFacts
<1>2. /\ config' = config /\ lost' = lost /\ wire' = wire \ Range(data)
      /\ flags' = [flags EXCEPT ![ThreadOf[l]] = FALSE]
      /\ arrived' = [a \in Addr |-> arrived[a] \o From(a, data)]
      /\ listeners[l].alive /\ Drain(l, b)
  BY Zenon, <1>s DEF Receive
<1>3. /\ listeners \in [Listener -> State] /\ config \in Config /\ lost \subseteq Datagram
      /\ flags \in [Thread -> BOOLEAN] /\ queue \in [Worker -> Seq(Task)]
      /\ arrived \in [Addr -> Seq(Datagram)]
  BY Zenon DEF IngestInv, IngestTypes
<1>4. PICK order \in Bijection(1 .. Cardinality(Sources(b)), Sources(b)) :
         /\ queue' = [w \in Worker |-> queue[w] \o TasksFor(w, l, b, order)]
         /\ listeners' = [listeners EXCEPT
                ![l].bufmap = NoBuffers, ![l].counter = 0,
                ![l].next = IF config.consistent THEN @ ELSE (@ + Len(order)) % W]
  BY Zenon, <1>2 DEF Drain
<1>t. SUFFICES ASSUME NEW T, T = [v \in Worker |-> TasksFor(v, l, b, order)]
             PROVE  IngestInv'
  BY Zenon
<1>5. Len(order) \in Nat /\ FlushOk(T, b)
  <2>1. IngestTypes /\ b \in [Addr -> Seq(Datagram)]
    BY Zenon, <1>1 DEF IngestInv
  <2> QED
    BY Zenon, <1>t, <2>1, FlushFacts
<1>a. \A v \in Worker : T[v] \in Seq(Task)
  BY Zenon, <1>5 DEF FlushOk
<1>b. \A v \in Worker : \A j \in 1 .. Len(T[v]) : T[v][j].addr \in Sources(b) /\ T[v][j].data = b[T[v][j].addr]
  BY Zenon, <1>5 DEF FlushOk
<1>e. Len(order) \in Nat
  BY Zenon, <1>5
<1>6. /\ listeners' \in [Listener -> State]
      /\ listeners'[l].bufmap = NoBuffers /\ listeners'[l].counter = 0 /\ listeners'[l].alive = listeners[l].alive
      /\ \A m \in Listener : m # l => listeners'[m] = listeners[m]
  <2> DEFINE n == IF config.consistent THEN listeners[l].next ELSE (listeners[l].next + Len(order)) % W
  <2>1. listeners' = [listeners EXCEPT ![l].bufmap = NoBuffers, ![l].counter = 0, ![l].next = n]
    BY Zenon, <1>4
  <2>2. listeners[l].next \in Worker
    BY Zenon, <1>3, StateParts
  <2>3. n \in Worker
    <3>1. W \in Nat \ {0}
      BY Zenon, IngestAssumption
    <3>2. (listeners[l].next + Len(order)) % W \in Worker
      <4> SUFFICES ASSUME NEW x \in 0 .. W - 1, NEW k \in Nat PROVE (x + k) % W \in 0 .. W - 1
        BY Zenon, <1>e, <2>2 DEF Worker
      <4> QED
        BY <3>1
    <3> QED
      BY Zenon, <2>2, <3>2
  <2> HIDE DEF n
  <2>4. NoBuffers \in [Addr -> Seq(Datagram)]
    BY Zenon, Nothing
  <2>5. listeners \in [Listener -> State]
    BY Zenon, <1>3
  <2> QED
    BY ONLY l \in Listener, <2>1, <2>3, <2>4, <2>5, 0 \in Nat DEF State
<1>7. arrived' \in [Addr -> Seq(Datagram)] /\ \A a \in Addr : arrived'[a] = Cat(arrived[a], From(a, data))
  <2>1. \A a \in Addr : Cat(arrived[a], From(a, data)) \in Seq(Datagram)
    BY Zenon, <1>1, <1>3, CatFacts
  <2>2. arrived' = [a \in Addr |-> Cat(arrived[a], From(a, data))]
    BY Zenon, <1>2 DEF Cat
  <2> QED
    BY Zenon, <2>1, <2>2
<1>8. queue' = [v \in Worker |-> queue'[v]] /\ \A v \in Worker : queue'[v] = Cat(queue[v], T[v])
  <2>1. queue' = [v \in Worker |-> Cat(queue[v], T[v])]
    BY Zenon, <1>4, <1>t DEF Cat
  <2> QED
    BY Zenon, <2>1
<1>9. ASSUME NEW v \in Worker PROVE queue'[v] \in Seq(Task) /\ Appended(queue[v], T[v], queue'[v])
  <2>1. queue[v] \in Seq(Task) /\ T[v] \in Seq(Task)
    BY Zenon, <1>3, <1>a
  <2>2. queue'[v] = Cat(queue[v], T[v])
    BY Zenon, <1>8
  <2>3. Cat(queue[v], T[v]) \in Seq(Task) /\ Appended(queue[v], T[v], Cat(queue[v], T[v]))
    BY ONLY Zenon, <2>1, CatParts
  <2> QED
    BY Zenon, <2>2, <2>3
<1>f. \A v \in Worker : \A i \in 1 .. Len(queue[v]) : i \in 1 .. Len(queue'[v]) /\ queue'[v][i] = queue[v][i]
  BY Zenon, <1>9 DEF Appended
<1>g. \A v \in Worker : \A j \in 1 .. Len(T[v]) :
         /\ Len(queue[v]) + j \in 1 .. Len(queue'[v])
         /\ Len(queue[v]) + j \notin 1 .. Len(queue[v])
         /\ queue'[v][Len(queue[v]) + j] = T[v][j]
  BY Zenon, <1>9 DEF Appended
<1>h. \A v \in Worker : \A i \in 1 .. Len(queue'[v]) :
         i \in 1 .. Len(queue[v]) \/ \E j \in 1 .. Len(T[v]) : i = Len(queue[v]) + j
  BY Zenon, <1>9 DEF Appended
<1>10. IngestTypes'
  <2>1. flags' \in [Thread -> BOOLEAN]
    BY Zenon, <1>2, <1>3
  <2>2. wire' \subseteq Datagram
    BY Zenon, <1>1, <1>2
  <2>3. queue' \in [Worker -> Seq(Task)]
    <3>1. \A v \in Worker : queue'[v] \in Seq(Task)
      BY Zenon, <1>9
    <3> QED
      BY Zenon, <1>8, <3>1
  <2> QED
    BY Zenon, <1>2, <1>3, <1>6, <1>7, <2>1, <2>2, <2>3 DEF IngestTypes
<1>13. \E o : Placed(o)'
  <2>1. \A v \in Worker : Appended(queue[v], T[v], queue'[v])
    BY Zenon, <1>9
  <2>2. \A d \in Datagram : d \in Range(b[AddrOf[d]]) <=>
                               d \in Range(listeners[l].bufmap[AddrOf[d]]) \/ d \in Range(data)
    BY Zenon, <1>1, <1>s
  <2>3. Flushed(l, data, b, T)
    BY Zenon, <1>1, <1>2, <1>5, <1>6, <2>1, <2>2 DEF Flushed
  <2> QED
    BY Zenon, <1>s, <2>3, FlushPlaced
<1>14. Tidy'
  <2>1. Tidy
    BY Zenon DEF IngestInv
  <2>2. ASSUME NEW m \in Listener
        PROVE  Sorted(listeners'[m].bufmap) /\ listeners'[m].alive = listeners[m].alive
    <3>1. CASE m = l
      BY Zenon, <1>6, <3>1, Nothing
    <3>2. CASE m # l
      BY Zenon, <1>6, <2>1, <3>2 DEF Tidy
    <3> QED
      BY Zenon, <3>1, <3>2
  <2>3. config.listeners \subseteq Listener
    BY Zenon, <1>3, ConfigParts
  <2>4. \A m \in Listener : listeners'[m].alive => m \in config'.listeners
    BY Zenon, <1>2, <2>1, <2>2 DEF Tidy
  <2>5. lost' # {} => \E m \in config'.listeners : ~listeners'[m].alive
    BY Zenon, <1>2, <2>1, <2>2, <2>3 DEF Tidy
  <2>6. ASSUME NEW w \in Worker, NEW i \in 1 .. Len(queue'[w]) PROVE queue'[w][i].data # <<>>
    <3>1. CASE i \in 1 .. Len(queue[w])
      BY Zenon, <1>f, <2>1, <3>1 DEF Tidy
    <3>2. ASSUME NEW j \in 1 .. Len(T[w]), i = Len(queue[w]) + j PROVE queue'[w][i].data # <<>>
      <4>1. queue'[w][i] = T[w][j]
        BY Zenon, <1>g, <3>2
      <4>2. T[w][j].addr \in Sources(b) /\ T[w][j].data = b[T[w][j].addr]
        BY Zenon, <1>b
      <4>3. b[T[w][j].addr] # <<>>
        BY Zenon, <4>2 DEF Sources
      <4> QED
        BY Zenon, <4>1, <4>2, <4>3
    <3>3. i \in 1 .. Len(queue[w]) \/ \E j \in 1 .. Len(T[w]) : i = Len(queue[w]) + j
      BY Zenon, <1>h
    <3> QED
      BY ONLY Zenon, <3>1, <3>2, <3>3
  <2>7. \A m \in Listener : Sorted(listeners'[m].bufmap)
    BY Zenon, <2>2
  <2> QED
    BY Zenon, <2>4, <2>5, <2>6, <2>7 DEF Tidy, Sorted
<1>15. Counted'
  <2>1. ASSUME NEW m \in Listener
        PROVE  /\ listeners'[m].counter = Bytes(HeldIn(listeners'[m].bufmap))
               /\ HeldIn(listeners'[m].bufmap) # {} => listeners'[m].counter < FlushLength
    <3>1. CASE m = l
      BY Zenon, <1>6, <3>1, Nothing DEF Counting
    <3>2. CASE m # l
      BY Zenon, <1>6, <3>2 DEF IngestInv, Counted
    <3> QED
      BY Zenon, <3>1, <3>2
  <2> QED
    BY Zenon, <2>1 DEF Counted, Bytes, HeldIn
<1>16. InArrivalOrder'
  <2> SUFFICES ASSUME config'.consistent, Alone', NEW m \in config'.listeners, NEW a \in Addr
               PROVE  Waiting(queue'[HashOf[a]], a) \o listeners'[m].bufmap[a] = arrived'[a]
    BY Zenon DEF InArrivalOrder, Waiting, Joined
  <2>1. m = l
    <3>1. l \in config.listeners
      BY Zenon, <1>2 DEF IngestInv, Tidy
    <3> QED
      BY Zenon, <1>2, <3>1 DEF Alone
  <2> SUFFICES ASSUME NEW v, v = HashOf[a], NEW x, x = Waiting(queue[v], a), NEW f, f = From(a, data)
               PROVE  Cat(Waiting(queue'[v], a), <<>>) = arrived'[a]
    BY Zenon, <1>6, <2>1, Nothing DEF Cat
  <2>2. Cat(x, old[a]) = arrived[a]
    BY Zenon, <1>2, <1>s, <2>1 DEF IngestInv, InArrivalOrder, Alone, Cat
  <2>3. v \in Worker /\ queue[v] \in Seq(Task) /\ T[v] \in Seq(Task) /\ queue'[v] = Cat(queue[v], T[v])
    BY Zenon, <1>3, <1>a, <1>8, IngestAssumption
  <2>4. x \in Seq(Datagram) /\ old[a] \in Seq(Datagram) /\ f \in Seq(Datagram) /\ b[a] = Cat(old[a], f)
    BY Zenon, <1>1, <2>3, WaitingFacts
  <2>5. Waiting(T[v], a) = b[a]
    <3>1. config.consistent
      BY Zenon, <1>2
    <3> QED
      BY Zenon, <1>5, <3>1, FlushWaiting
  <2>6. Waiting(queue'[v], a) = Cat(x, b[a])
    <3>1. Waiting(Cat(queue[v], T[v]), a) = Cat(Waiting(queue[v], a), Waiting(T[v], a))
      BY ONLY <2>3, WaitingCat
    <3> QED
      BY Zenon, <2>3, <2>5, <3>1
  <2>7. Cat(x, Cat(old[a], f)) = Cat(Cat(x, old[a]), f)
    BY ONLY <2>4, CatAssoc
  <2>8. b[a] \in Seq(Datagram) /\ Cat(x, b[a]) \in Seq(Datagram)
    <3>1. b[a] \in Seq(Datagram)
      BY Zenon, <1>1
    <3> QED
      BY Zenon, <2>4, <3>1, CatFacts
  <2>9. Cat(Cat(x, b[a]), <<>>) = Cat(x, b[a])
    BY Zenon, <2>8, CatFacts
  <2> QED
    BY Zenon, <1>7, <2>2, <2>4, <2>6, <2>7, <2>9
<1> QED
  BY Zenon, <1>10, <1>13, <1>14, <1>15, <1>16 DEF IngestInv

-----------------------------------------------------------------------------
(* The specification. *)

\* The invariant holds when the listeners start.
LEMMA InitInv ==
  ASSUME Counting, Init
  PROVE  IngestInv
<1>1. /\ config \in Config /\ wire = Datagram /\ lost = {} /\ arrived = NoBuffers
      /\ flags = [t \in Thread |-> FALSE] /\ queue = [w \in Worker |-> <<>>]
      /\ listeners = [l \in Listener |->
             [alive |-> l \in config.listeners, bufmap |-> NoBuffers, counter |-> 0, next |-> FirstWorker(l)]]
  BY Zenon DEF Init
<1>2. \A l \in Listener : FirstWorker(l) \in Worker
  <2>1. W \in Nat \ {0} /\ \A l \in Listener : ThreadOf[l] \in Nat
    BY Zenon, IngestAssumption
  <2> QED
    BY <2>1 DEF FirstWorker, Worker
<1>3. NoBuffers \in [Addr -> Seq(Datagram)]
  BY Zenon, Nothing
<1>4. /\ listeners \in [Listener -> State]
      /\ \A l \in Listener : /\ listeners[l].bufmap = NoBuffers /\ listeners[l].counter = 0
                             /\ listeners[l].alive => l \in config.listeners
  <2>1. ASSUME NEW l \in Listener
        PROVE  [alive |-> l \in config.listeners, bufmap |-> NoBuffers, counter |-> 0, next |-> FirstWorker(l)] \in State
    <3>1. (l \in config.listeners) \in BOOLEAN
      OBVIOUS
    <3>2. 0 \in Nat
      OBVIOUS
    <3> QED
      BY Zenon, <1>2, <1>3, <3>1, <3>2 DEF State
  <2>2. listeners \in [Listener -> State]
    BY Zenon, <1>1, <2>1
  <2> QED
    BY Zenon, <1>1, <2>2
<1>5. queue \in [Worker -> Seq(Task)] /\ \A w \in Worker : queue[w] = <<>> /\ 1 .. Len(queue[w]) = {}
  <2>1. <<>> \in Seq(Task) /\ Len(<<>>) = 0
    OBVIOUS
  <2> QED
    BY Zenon, <1>1, <2>1, NothingIn
<1>6. IngestTypes
  BY Zenon, <1>1, <1>3, <1>4, <1>5 DEF IngestTypes
<1>7. \E own : Placed(own)
  <2> DEFINE own == [d \in Datagram |-> AtWire]
  <2>1. ASSUME NEW d \in Datagram
        PROVE  own[d] = AtWire /\ d \in wire /\ d \notin lost /\ AtWire # AtLost
    BY Zenon, <1>1, Apart
  <2>2. ASSUME NEW d \in Datagram, NEW l \in Listener
        PROVE  d \notin Range(listeners[l].bufmap[AddrOf[d]]) /\ own[d] # AtListener(l)
    <3>1. AddrOf[d] \in Addr
      BY Zenon DEF Addr
    <3> QED
      BY Zenon, <1>4, <2>1, <3>1, Nothing, Apart
  <2> HIDE DEF own
  <2>3. Placed(own)
    BY Zenon, <1>5, <2>1, <2>2 DEF Placed
  <2> QED
    BY Zenon, <2>3
<1>8. Tidy
  BY Zenon, <1>1, <1>4, <1>5, Nothing DEF Tidy
<1>9. Counted
  <2>1. Bytes({}) = 0
    BY Zenon DEF Counting
  <2> QED
    BY Zenon, <1>4, <2>1, Nothing DEF Counted
<1>10. InArrivalOrder
  <2> SUFFICES ASSUME NEW l \in config.listeners, NEW a \in Addr
               PROVE  Waiting(queue[HashOf[a]], a) \o listeners[l].bufmap[a] = arrived[a]
    BY Zenon DEF InArrivalOrder
  <2>1. l \in Listener
    BY Zenon, <1>1, ConfigParts
  <2>2. listeners[l].bufmap[a] = <<>> /\ arrived[a] = <<>>
    BY Zenon, <1>1, <1>4, <2>1, Nothing
  <2>3. HashOf[a] \in Worker
    BY Zenon, IngestAssumption
  <2>4. queue[HashOf[a]] \in Seq(Task) /\ 1 .. Len(queue[HashOf[a]]) = {}
    BY Zenon, <1>5, <2>3
  <2>5. Waiting(queue[HashOf[a]], a) = <<>>
    BY Zenon, <2>4, WaitingFacts
  <2>6. <<>> \o <<>> = <<>>
    OBVIOUS
  <2> QED
    BY Zenon, <2>2, <2>5, <2>6
<1> QED
  BY Zenon, <1>6, <1>7, <1>8, <1>9, <1>10 DEF IngestInv

\* A step that changes no more than the flags: a tick of the flush timer.
LEMMA TickStep ==
  ASSUME IngestInv, UNCHANGED <<config, wire, listeners, queue, lost, arrived>>, flags' \in [Thread -> BOOLEAN]
  PROVE  IngestInv'
<1>1. /\ config' = config /\ wire' = wire /\ listeners' = listeners /\ queue' = queue /\ lost' = lost
      /\ arrived' = arrived
  BY Zenon
<1>2. IngestTypes'
  BY Zenon, <1>1 DEF IngestInv, IngestTypes
<1>3. \E own : Placed(own)'
  <2>1. PICK own : Placed(own)
    BY Zenon DEF IngestInv
  <2>2. Placed(own)'
    BY Zenon, <1>1, <2>1 DEF Placed
  <2> QED
    BY Zenon, <2>2
<1>4. Tidy'
  BY Zenon, <1>1 DEF IngestInv, Tidy, Sorted
<1>5. Counted'
  <2>1. \A l \in Listener :
          /\ listeners'[l].counter = Bytes(HeldIn(listeners'[l].bufmap))
          /\ HeldIn(listeners'[l].bufmap) # {} => listeners'[l].counter < FlushLength
    BY Zenon, <1>1 DEF IngestInv, Counted
  <2> QED
    BY Zenon, <2>1 DEF Counted, Bytes, HeldIn
<1>6. InArrivalOrder'
  <2> SUFFICES ASSUME config'.consistent, Alone', NEW m \in config'.listeners, NEW a \in Addr
               PROVE  Waiting(queue'[HashOf[a]], a) \o listeners'[m].bufmap[a] = arrived'[a]
    BY Zenon DEF InArrivalOrder, Waiting, Joined
  <2>1. Waiting(queue[HashOf[a]], a) \o listeners[m].bufmap[a] = arrived[a]
    BY Zenon, <1>1 DEF IngestInv, InArrivalOrder, Alone
  <2> QED
    BY Zenon, <1>1, <2>1
<1> QED
  BY Zenon, <1>2, <1>3, <1>4, <1>5, <1>6 DEF IngestInv

\* Every step keeps the invariant.
LEMMA NextInv ==
  ASSUME Counting, IngestInv, [Next]_vars
  PROVE  IngestInv'
<1>1. ASSUME NEW l \in Listener, NEW data \in Received, Receive(l, data) PROVE IngestInv'
  <2>1. CASE ShouldFlush(l, listeners[l].counter + Bytes(Range(data)))
    BY Zenon, <1>1, <2>1, DrainStep
  <2>2. CASE ~ShouldFlush(l, listeners[l].counter + Bytes(Range(data)))
    BY Zenon, <1>1, <2>2, KeepStep
  <2> QED
    BY Zenon, <2>1, <2>2
<1>2. ASSUME NEW l \in Listener, ReceiveEmpty(l) PROVE IngestInv'
  <2>1. PICK d \in wire : End(l, {d})
    BY Zenon, <1>2 DEF ReceiveEmpty
  <2>2. {d} \in SUBSET wire
    BY Zenon, <2>1
  <2> QED
    BY Zenon, <2>1, <2>2, EndStep
<1>3. ASSUME NEW l \in Listener, ReceiveError(l) PROVE IngestInv'
  <2>1. End(l, {}) /\ {} \in SUBSET wire
    BY Zenon, <1>3 DEF ReceiveError
  <2> QED
    BY Zenon, <2>1, EndStep
<1>4. CASE FlushTick
  <2>1. UNCHANGED <<config, wire, listeners, queue, lost, arrived>> /\ flags' \in [Thread -> BOOLEAN]
    BY Zenon, <1>4 DEF FlushTick
  <2> QED
    BY Zenon, <2>1, TickStep
<1>5. ASSUME NEW w \in Worker, Parse(w) PROVE IngestInv'
  BY Zenon, <1>5, ParseStep
<1>6. CASE UNCHANGED vars
  <2>1. UNCHANGED <<config, wire, listeners, queue, lost, arrived>> /\ flags' = flags
    BY Zenon, <1>6 DEF vars, history
  <2>2. flags' \in [Thread -> BOOLEAN]
    BY Zenon, <2>1 DEF IngestInv, IngestTypes
  <2> QED
    BY Zenon, <2>1, <2>2, TickStep
<1> QED
  BY Zenon, <1>1, <1>2, <1>3, <1>4, <1>5, <1>6 DEF Next, Listen

\* The invariant implies TypeOK.
LEMMA InvTypeOK ==
  ASSUME Counting, IngestInv, ticked \subseteq Datagram
  PROVE  TypeOK
<1>1. /\ config \in Config /\ wire \subseteq Datagram /\ lost \subseteq Datagram
      /\ flags \in [Thread -> BOOLEAN] /\ listeners \in [Listener -> State]
      /\ queue \in [Worker -> Seq(Task)]
  BY Zenon DEF IngestInv, IngestTypes
<1>2. ASSUME NEW l \in Listener
      PROVE  /\ listeners[l].alive \in BOOLEAN /\ listeners[l].next \in Worker
             /\ listeners[l].counter \in 0 .. FlushLength
             /\ \A a \in Addr : \A d \in Range(listeners[l].bufmap[a]) : AddrOf[d] = a
  <2>1. listeners[l].alive \in BOOLEAN /\ listeners[l].next \in Worker /\ listeners[l].counter \in Nat
    BY Zenon, <1>1, StateParts
  <2>2. listeners[l].counter = 0 \/ listeners[l].counter < FlushLength
    <3>1. Bytes({}) = 0
      BY Zenon DEF Counting
    <3> QED
      BY Zenon, <3>1 DEF IngestInv, Counted
  <2>3. listeners[l].counter \in 0 .. FlushLength
    <3>1. FlushLength \in Nat
      BY Zenon, IngestAssumption
    <3> QED
      BY <2>1, <2>2, <3>1
  <2> QED
    BY Zenon, <2>1, <2>3 DEF IngestInv, Tidy, Sorted
<1>3. ASSUME NEW w \in Worker, NEW i \in 1 .. Len(queue[w])
      PROVE  queue[w][i].addr \in Addr /\ queue[w][i].data # <<>>
  <2>1. queue[w] \in Seq(Task)
    BY Zenon, <1>1
  <2>2. queue[w][i].addr \in Addr
    BY Zenon, <2>1, TaskParts
  <2> QED
    BY Zenon, <2>2 DEF IngestInv, Tidy
<1>4. {wire, lost, ticked} \subseteq SUBSET Datagram
  BY Zenon, <1>1
<1> QED
  BY Zenon, <1>1, <1>2, <1>3, <1>4 DEF TypeOK

\* The invariant implies that every datagram has one place.
LEMMA InvWhere ==
  ASSUME IngestInv
  PROVE  \A d \in Datagram : \E x : Where(d) = {x}
<1>2. PICK own : Placed(own)
  BY Zenon DEF IngestInv
<1>3. ASSUME NEW d \in Datagram PROVE \E x : Where(d) = {x}
  <2>1. \A p : p \in Where(d) <=>
           \/ p = AtWire /\ d \in wire
           \/ p = AtLost /\ d \in lost
           \/ \E l \in Listener : \E i \in DOMAIN listeners[l].bufmap[AddrOf[d]] :
                 listeners[l].bufmap[AddrOf[d]][i] = d /\ p = <<"held", l, i>>
           \/ \E w \in Worker : \E i \in DOMAIN queue[w] : d \in Range(queue[w][i].data) /\ p = AtTask(w, i)
    <3> DEFINE A == {<<"wire", 0, 0>> : x \in {d} \cap wire}
               B == {<<"lost", 0, 0>> : x \in {d} \cap lost}
               C == UNION {InBuffer(d, l) : l \in Listener}
               E == UNION {InQueue(d, w) : w \in Worker}
    <3>1. Where(d) = A \cup B \cup C \cup E
      BY Zenon DEF Where
    <3>2. \A p : (p \in A <=> p = AtWire /\ d \in wire) /\ (p \in B <=> p = AtLost /\ d \in lost)
      BY Zenon DEF AtWire, AtLost
    <3>a. \A p, l : p \in InBuffer(d, l) <=> \E i \in DOMAIN listeners[l].bufmap[AddrOf[d]] :
                                      listeners[l].bufmap[AddrOf[d]][i] = d /\ p = <<"held", l, i>>
      BY Zenon DEF InBuffer
    <3>b. \A p, w : p \in InQueue(d, w) <=>
                       \E i \in DOMAIN queue[w] : d \in Range(queue[w][i].data) /\ p = AtTask(w, i)
      BY Zenon DEF AtTask, InQueue
    <3> HIDE DEF A, B
    <3>c. \A p : p \in C <=> \E l \in Listener : p \in InBuffer(d, l)
      BY Zenon
    <3>d. \A p : p \in E <=> \E w \in Worker : p \in InQueue(d, w)
      BY Zenon
    <3> HIDE DEF C, E
    <3>3. \A p : p \in C <=> \E l \in Listener : \E i \in DOMAIN listeners[l].bufmap[AddrOf[d]] :
                                listeners[l].bufmap[AddrOf[d]][i] = d /\ p = <<"held", l, i>>
      BY ONLY Zenon, <3>a, <3>c
    <3>4. \A p : p \in E <=> \E w \in Worker : \E i \in DOMAIN queue[w] :
                                d \in Range(queue[w][i].data) /\ p = AtTask(w, i)
      BY ONLY Zenon, <3>b, <3>d
    <3>5. \A p : p \in Where(d) <=> p \in A \/ p \in B \/ p \in C \/ p \in E
      BY Zenon, <3>1
    <3> QED
      BY Zenon, <3>2, <3>3, <3>4, <3>5
  <2>2. AddrOf[d] \in Addr
    BY Zenon DEF Addr
  <2>3. ASSUME NEW l \in Listener
        PROVE  /\ \A i \in DOMAIN listeners[l].bufmap[AddrOf[d]] :
                     listeners[l].bufmap[AddrOf[d]][i] = d => own[d] = AtListener(l)
               /\ \A i, j \in DOMAIN listeners[l].bufmap[AddrOf[d]] :
                     listeners[l].bufmap[AddrOf[d]][i] = d /\ listeners[l].bufmap[AddrOf[d]][j] = d => i = j
               /\ own[d] = AtListener(l) => \E i \in DOMAIN listeners[l].bufmap[AddrOf[d]] :
                     listeners[l].bufmap[AddrOf[d]][i] = d
    <3> SUFFICES ASSUME NEW b, b = listeners[l].bufmap[AddrOf[d]]
                 PROVE  /\ \A i \in DOMAIN b : b[i] = d => own[d] = AtListener(l)
                        /\ \A i, j \in DOMAIN b : b[i] = d /\ b[j] = d => i = j
                        /\ own[d] = AtListener(l) => \E i \in DOMAIN b : b[i] = d
      BY Zenon
    <3>1. listeners[l].bufmap \in [Addr -> Seq(Datagram)]
      <4>1. listeners[l] \in State
        BY Zenon DEF IngestInv, IngestTypes
      <4> QED
        BY Zenon, <4>1, StateParts
    <3>2. b \in Seq(Datagram)
      BY Zenon, <2>2, <3>1
    <3>3. DOMAIN b = 1 .. Len(b)
      BY <3>2
    <3>4. Distinct(b)
      BY Zenon, <2>2 DEF IngestInv, Tidy, Sorted
    <3>5. d \in Range(b) <=> own[d] = AtListener(l)
      BY Zenon, <1>2 DEF Placed
    <3>6. \A i, j \in DOMAIN b : b[i] = d /\ b[j] = d => i = j
      BY ONLY Zenon, <3>3, <3>4 DEF Distinct
    <3>7. d \in Range(b) <=> \E i \in DOMAIN b : b[i] = d
      BY Zenon DEF Range
    <3> QED
      BY Zenon, <3>5, <3>6, <3>7
  <2>4. ASSUME NEW w \in Worker
        PROVE  DOMAIN queue[w] = 1 .. Len(queue[w])
    <3>1. queue[w] \in Seq(Task)
      BY Zenon DEF IngestInv, IngestTypes
    <3> QED
      BY <3>1
  <2>5. ASSUME NEW w \in Worker, NEW i \in DOMAIN queue[w]
        PROVE  d \in Range(queue[w][i].data) <=> own[d] = AtTask(w, i)
    BY Zenon, <1>2, <2>4 DEF Placed
  <2>6. (d \in wire <=> own[d] = AtWire) /\ (d \in lost <=> own[d] = AtLost)
    BY Zenon, <1>2 DEF Placed
  <2>7. \E x : Where(d) = {x}
    <3>1. CASE own[d] = AtWire
      <4>1. \A p : p \in Where(d) <=> p = AtWire
        <5>1. own[d] # AtLost /\ (\A m : own[d] # AtListener(m)) /\ \A v, i : own[d] # AtTask(v, i)
          BY Zenon, <3>1, Apart
        <5> QED
          BY Zenon, <2>1, <2>3, <2>5, <2>6, <3>1, <5>1
      <4>2. Where(d) = {AtWire}
        BY ONLY Zenon, <4>1
      <4> QED
        BY ONLY Zenon, <4>2
    <3>2. CASE own[d] = AtLost
      <4>1. \A p : p \in Where(d) <=> p = AtLost
        <5>1. own[d] # AtWire /\ (\A m : own[d] # AtListener(m)) /\ \A v, i : own[d] # AtTask(v, i)
          BY Zenon, <3>2, Apart
        <5> QED
          BY Zenon, <2>1, <2>3, <2>5, <2>6, <3>2, <5>1
      <4>2. Where(d) = {AtLost}
        BY ONLY Zenon, <4>1
      <4> QED
        BY ONLY Zenon, <4>2
    <3>3. ASSUME NEW m \in Listener, own[d] = AtListener(m) PROVE \E x : Where(d) = {x}
      <4>1. PICK k \in DOMAIN listeners[m].bufmap[AddrOf[d]] : listeners[m].bufmap[AddrOf[d]][k] = d
        BY Zenon, <2>3, <3>3
      <4>2. /\ own[d] # AtWire /\ own[d] # AtLost /\ (\A l : own[d] = AtListener(l) => l = m)
            /\ \A v, i : own[d] # AtTask(v, i)
        BY Zenon, <3>3, Apart
      <4>3. \A p : p \in Where(d) <=> p = <<"held", m, k>>
        <5>1. <<"held", m, k>> \in Where(d)
          BY Zenon, <2>1, <4>1
        <5>2. ASSUME NEW p \in Where(d) PROVE p = <<"held", m, k>>
          <6>1. ~(d \in wire) /\ ~(d \in lost)
            BY Zenon, <2>6, <4>2
          <6>2. \A w \in Worker : \A i \in DOMAIN queue[w] : d \notin Range(queue[w][i].data)
            BY Zenon, <2>5, <4>2
          <6>3. \E l \in Listener : \E i \in DOMAIN listeners[l].bufmap[AddrOf[d]] :
                   listeners[l].bufmap[AddrOf[d]][i] = d /\ p = <<"held", l, i>>
            BY Zenon, <2>1, <6>1, <6>2
          <6>4. PICK l \in Listener : \E i \in DOMAIN listeners[l].bufmap[AddrOf[d]] :
                   listeners[l].bufmap[AddrOf[d]][i] = d /\ p = <<"held", l, i>>
            BY Zenon, <6>3
          <6>5. PICK i \in DOMAIN listeners[l].bufmap[AddrOf[d]] :
                   listeners[l].bufmap[AddrOf[d]][i] = d /\ p = <<"held", l, i>>
            BY Zenon, <6>4
          <6>6. l = m
            BY Zenon, <2>3, <4>2, <6>5
          <6>7. i = k
            BY Zenon, <2>3, <4>1, <6>5, <6>6
          <6> QED
            BY Zenon, <6>5, <6>6, <6>7
        <5> QED
          BY Zenon, <5>1, <5>2
      <4>4. Where(d) = {<<"held", m, k>>}
        BY ONLY Zenon, <4>3
      <4> QED
        BY ONLY Zenon, <4>4
    <3>4. ASSUME NEW v \in Worker, NEW k \in 1 .. Len(queue[v]), own[d] = AtTask(v, k)
          PROVE  \E x : Where(d) = {x}
      <4>1. /\ own[d] # AtWire /\ own[d] # AtLost /\ (\A l : own[d] # AtListener(l))
            /\ \A w, i : own[d] = AtTask(w, i) => w = v /\ i = k
        BY Zenon, <3>4, Apart
      <4>2. \A p : p \in Where(d) <=> p = AtTask(v, k)
        <5>1. AtTask(v, k) \in Where(d)
          <6>1. k \in DOMAIN queue[v] /\ d \in Range(queue[v][k].data)
            BY Zenon, <2>4, <2>5, <3>4
          <6> QED
            BY Zenon, <2>1, <6>1
        <5>2. ASSUME NEW p \in Where(d) PROVE p = AtTask(v, k)
          <6>1. ~(d \in wire) /\ ~(d \in lost)
            BY Zenon, <2>6, <4>1
          <6>2. \A l \in Listener : \A i \in DOMAIN listeners[l].bufmap[AddrOf[d]] :
                   listeners[l].bufmap[AddrOf[d]][i] # d
            BY Zenon, <2>3, <4>1
          <6>3. \E w \in Worker : \E i \in DOMAIN queue[w] : d \in Range(queue[w][i].data) /\ p = AtTask(w, i)
            BY Zenon, <2>1, <6>1, <6>2
          <6>4. PICK w \in Worker : \E i \in DOMAIN queue[w] : d \in Range(queue[w][i].data) /\ p = AtTask(w, i)
            BY Zenon, <6>3
          <6>5. PICK i \in DOMAIN queue[w] : d \in Range(queue[w][i].data) /\ p = AtTask(w, i)
            BY Zenon, <6>4
          <6> QED
            BY Zenon, <2>5, <3>4, <6>5
        <5> QED
          BY Zenon, <5>1, <5>2
      <4>3. Where(d) = {AtTask(v, k)}
        BY ONLY Zenon, <4>2
      <4> QED
        BY ONLY Zenon, <4>3
    <3>5. \/ own[d] \in {AtWire, AtLost}
          \/ \E m \in Listener : own[d] = AtListener(m)
          \/ \E v \in Worker : \E k \in 1 .. Len(queue[v]) : own[d] = AtTask(v, k)
      BY Zenon, <1>2 DEF Placed
    <3> QED
      BY Zenon, <3>1, <3>2, <3>3, <3>4, <3>5
  <2> QED
    BY Zenon, <2>7
<1> QED
  BY Zenon, <1>3

\* What listeners held at the last tick is not on the wire, and a listener
\* that still holds some of it will see its flag.
TickInv == ticked \subseteq Datagram /\ (\A d \in ticked : d \notin wire) /\ FlushedAfterTick

\* What a listener holds was received, and is what its buffers hold.
LEMMA HeldParts ==
  ASSUME IngestInv, NEW l \in Listener
  PROVE  \A d \in HeldBy(l) : d \in Datagram /\ d \notin wire /\ d \in Range(listeners[l].bufmap[AddrOf[d]])
<1>1. listeners[l].bufmap \in [Addr -> Seq(Datagram)] /\ Sorted(listeners[l].bufmap)
  <2>1. listeners[l] \in State
    BY Zenon DEF IngestInv, IngestTypes
  <2> QED
    BY Zenon, <2>1, StateParts DEF IngestInv, Tidy
<1>2. \A d : d \in HeldIn(listeners[l].bufmap) <=>
               d \in Datagram /\ d \in Range(listeners[l].bufmap[AddrOf[d]])
  BY Zenon, <1>1, HeldIs
<1>3. PICK own : Placed(own)
  BY Zenon DEF IngestInv
<1> SUFFICES ASSUME NEW d \in HeldBy(l)
             PROVE  d \in Datagram /\ d \notin wire /\ d \in Range(listeners[l].bufmap[AddrOf[d]])
  BY Zenon
<1>4. d \in Datagram /\ d \in Range(listeners[l].bufmap[AddrOf[d]])
  BY Zenon, <1>2 DEF HeldBy, HeldIn
<1>5. own[d] = AtListener(l) /\ (d \in wire <=> own[d] = AtWire)
  BY Zenon, <1>3, <1>4 DEF Placed
<1> QED
  BY Zenon, <1>4, <1>5, Apart

\* What a listener that received data holds then: nothing after a flush, and
\* else what it held and the data, and then its flag was not up.
LEMMA Reads ==
  ASSUME IngestInv, Counting, NEW l \in Listener, NEW data \in Received, Receive(l, data)
  PROVE  /\ \A m \in Listener : m # l => listeners'[m] = listeners[m]
         /\ listeners'[l].alive = listeners[l].alive
         /\ Range(data) \subseteq wire
         /\ \/ HeldIn(listeners'[l].bufmap) = {}
            \/ /\ ~flags[ThreadOf[l]]
               /\ \A d \in HeldIn(listeners'[l].bufmap) : d \in HeldBy(l) \/ d \in Range(data)
<1> SUFFICES ASSUME NEW old, old = listeners[l].bufmap, NEW b, b = Buffered(old, data),
                    NEW n, n = listeners[l].counter + Bytes(Range(data)), NEW own, Placed(own)
             PROVE  /\ \A m \in Listener : m # l => listeners'[m] = listeners[m]
                    /\ listeners'[l].alive = listeners[l].alive
                    /\ Range(data) \subseteq wire
                    /\ \/ HeldIn(listeners'[l].bufmap) = {}
                       \/ /\ ~flags[ThreadOf[l]]
                          /\ \A d \in HeldIn(listeners'[l].bufmap) : d \in HeldBy(l) \/ d \in Range(data)
  BY Zenon DEF IngestInv
<1>1. /\ Range(data) \subseteq wire /\ wire \subseteq Datagram
      /\ old \in [Addr -> Seq(Datagram)]
      /\ b \in [Addr -> Seq(Datagram)] /\ Sorted(b) /\ n \in Nat
      /\ \A d \in Datagram : d \in Range(b[AddrOf[d]]) <=> d \in Range(old[AddrOf[d]]) \/ d \in Range(data)
  BY ReadFacts
<1>2. listeners \in [Listener -> State]
  BY Zenon DEF IngestInv, IngestTypes
<1>3. CASE ShouldFlush(l, n)
  <2>1. Drain(l, b)
    BY Zenon, <1>3 DEF Receive
  <2>2. PICK k : listeners' = [listeners EXCEPT ![l].bufmap = NoBuffers, ![l].counter = 0, ![l].next = k]
    BY Zenon, <2>1 DEF Drain
  <2>3. /\ \A m \in Listener : m # l => listeners'[m] = listeners[m]
        /\ listeners'[l].alive = listeners[l].alive /\ listeners'[l].bufmap = NoBuffers
    BY ONLY l \in Listener, <1>2, <2>2 DEF State
  <2> QED
    BY Zenon, <1>1, <2>3, Nothing
<1>4. CASE ~ShouldFlush(l, n)
  <2>1. listeners' = [listeners EXCEPT ![l].bufmap = b, ![l].counter = n]
    BY Zenon, <1>4 DEF Receive, Keep
  <2>2. /\ \A m \in Listener : m # l => listeners'[m] = listeners[m]
        /\ listeners'[l].alive = listeners[l].alive /\ listeners'[l].bufmap = b
    BY ONLY l \in Listener, <1>2, <2>1 DEF State
  <2>3. \A d : d \in HeldIn(b) <=> d \in Datagram /\ d \in Range(b[AddrOf[d]])
    BY ONLY Zenon, <1>1, HeldIs
  <2>4. ~flags[ThreadOf[l]]
    BY Zenon, <1>4 DEF ShouldFlush
  <2>5. ASSUME NEW d \in HeldIn(b) PROVE d \in HeldBy(l) \/ d \in Range(data)
    <3>1. d \in Datagram /\ (d \in Range(old[AddrOf[d]]) \/ d \in Range(data))
      BY Zenon, <1>1, <2>3
    <3> QED
      BY Zenon, <3>1 DEF HeldBy, Addr
  <2> QED
    BY Zenon, <1>1, <2>2, <2>4, <2>5
<1> QED
  BY Zenon, <1>3, <1>4

\* A listener that ends holds nothing.
LEMMA Ends ==
  ASSUME IngestInv, NEW l \in Listener, NEW gone, End(l, gone)
  PROVE  /\ \A m \in Listener : m # l => listeners'[m] = listeners[m]
         /\ listeners'[l].alive = FALSE /\ HeldIn(listeners'[l].bufmap) = {}
         /\ wire' \subseteq wire /\ ticked' = ticked /\ flags' = flags /\ config' = config
<1>1. listeners \in [Listener -> State]
  BY Zenon DEF IngestInv, IngestTypes
<1>2. listeners' = [listeners EXCEPT ![l].alive = FALSE, ![l].bufmap = NoBuffers, ![l].counter = 0]
  BY Zenon DEF End
<1>3. /\ \A m \in Listener : m # l => listeners'[m] = listeners[m]
      /\ listeners'[l].alive = FALSE /\ listeners'[l].bufmap = NoBuffers
  BY ONLY l \in Listener, <1>1, <1>2 DEF State
<1>4. wire' \subseteq wire /\ ticked' = ticked /\ flags' = flags /\ config' = config
  BY Zenon DEF End
<1> QED
  BY Zenon, <1>3, <1>4, Nothing

\* No step leaves a listener with what it held at a tick and its flag down.
LEMMA TickInvStep ==
  ASSUME Counting, IngestInv, TickInv, [Next]_vars
  PROVE  TickInv'
<1>1. config.listeners \subseteq Listener
  BY Zenon, ConfigParts DEF IngestInv, IngestTypes
<1>2. wire \subseteq Datagram /\ flags \in [Thread -> BOOLEAN] /\ queue \in [Worker -> Seq(Task)]
  BY Zenon DEF IngestInv, IngestTypes
<1>3. ASSUME NEW l \in Listener, NEW data \in Received, Receive(l, data) PROVE TickInv'
  <2>1. /\ \A m \in Listener : m # l => listeners'[m] = listeners[m]
        /\ Range(data) \subseteq wire
        /\ \/ HeldIn(listeners'[l].bufmap) = {}
           \/ /\ ~flags[ThreadOf[l]]
              /\ \A d \in HeldIn(listeners'[l].bufmap) : d \in HeldBy(l) \/ d \in Range(data)
    BY Zenon, <1>3, Reads
  <2>2. /\ wire' = wire \ Range(data) /\ flags' = [flags EXCEPT ![ThreadOf[l]] = FALSE]
        /\ config' = config /\ ticked' = ticked /\ listeners[l].alive
    BY Zenon, <1>3 DEF Receive
  <2>3. l \in config.listeners
    BY Zenon, <2>2 DEF IngestInv, Tidy
  <2>4. ASSUME NEW m \in config.listeners,
               \A k \in config.listeners \ {m} : ThreadOf[k] # ThreadOf[m],
               ticked \cap HeldIn(listeners'[m].bufmap) # {}
        PROVE  flags'[ThreadOf[m]]
    <3>1. CASE m = l
      <4>1. PICK d : d \in ticked /\ d \in HeldIn(listeners'[l].bufmap)
        BY Zenon, <2>4, <3>1
      <4>2. ~flags[ThreadOf[l]] /\ (d \in HeldBy(l) \/ d \in Range(data))
        BY Zenon, <2>1, <4>1
      <4>3. d \notin Range(data)
        BY Zenon, <2>1, <4>1 DEF TickInv
      <4>4. ticked \cap HeldBy(m) # {}
        BY Zenon, <3>1, <4>1, <4>2, <4>3
      <4>5. flags[ThreadOf[m]]
        BY Zenon, <2>4, <4>4 DEF TickInv, FlushedAfterTick
      <4> QED
        BY Zenon, <3>1, <4>2, <4>5
    <3>2. CASE m # l
      <4>1. listeners'[m] = listeners[m] /\ ThreadOf[l] # ThreadOf[m]
        BY Zenon, <1>1, <2>1, <2>3, <2>4, <3>2
      <4>2. ticked \cap HeldBy(m) # {}
        BY Zenon, <2>4, <4>1 DEF HeldBy, HeldIn
      <4>3. flags[ThreadOf[m]]
        BY Zenon, <2>4, <4>2 DEF TickInv, FlushedAfterTick
      <4>4. ThreadOf[m] \in Thread
        BY Zenon, <1>1 DEF Thread
      <4> QED
        BY Zenon, <1>2, <2>2, <4>1, <4>3, <4>4
    <3> QED
      BY Zenon, <3>1, <3>2
  <2>5. FlushedAfterTick'
    BY Zenon, <2>2, <2>4 DEF FlushedAfterTick, HeldBy, HeldIn
  <2> QED
    BY Zenon, <2>2, <2>5 DEF TickInv
<1>4. ASSUME NEW l \in Listener, NEW gone, End(l, gone) PROVE TickInv'
  <2>1. /\ \A m \in Listener : m # l => listeners'[m] = listeners[m]
        /\ HeldIn(listeners'[l].bufmap) = {}
        /\ wire' \subseteq wire /\ ticked' = ticked /\ flags' = flags /\ config' = config
    BY Zenon, <1>4, Ends
  <2>2. ASSUME NEW m \in config.listeners,
               \A k \in config.listeners \ {m} : ThreadOf[k] # ThreadOf[m],
               ticked \cap HeldIn(listeners'[m].bufmap) # {}
        PROVE  flags[ThreadOf[m]]
    <3>1. m # l
      BY Zenon, <2>1, <2>2
    <3>2. listeners'[m] = listeners[m]
      BY Zenon, <1>1, <2>1, <3>1
    <3>3. ticked \cap HeldBy(m) # {}
      BY Zenon, <2>2, <3>2 DEF HeldBy, HeldIn
    <3> QED
      BY Zenon, <2>2, <3>3 DEF TickInv, FlushedAfterTick
  <2>3. FlushedAfterTick'
    BY Zenon, <2>1, <2>2 DEF FlushedAfterTick, HeldBy, HeldIn
  <2> QED
    BY Zenon, <2>1, <2>3 DEF TickInv
<1>5. CASE FlushTick
  <2>1. /\ flags' = [t \in Thread |-> TRUE] /\ config' = config /\ wire' = wire
        /\ ticked' = UNION {HeldBy(l) : l \in Listener}
    BY Zenon, <1>5 DEF FlushTick
  <2>2. ASSUME NEW d \in ticked' PROVE d \in Datagram /\ d \notin wire'
    <3>1. PICK l \in Listener : d \in HeldBy(l)
      BY Zenon, <2>1
    <3> QED
      BY Zenon, <2>1, <3>1, HeldParts
  <2>3. \A m \in config'.listeners : flags'[ThreadOf[m]]
    BY Zenon, <1>1, <2>1 DEF Thread
  <2>4. FlushedAfterTick'
    BY Zenon, <2>3 DEF FlushedAfterTick
  <2> QED
    BY Zenon, <2>2, <2>4 DEF TickInv
<1>6. ASSUME NEW w \in Worker, Parse(w) PROVE TickInv'
  <2>1. PICK D : wire' = wire \cup D /\ ticked' = ticked \ D
    BY Zenon, <1>6 DEF Parse
  <2>2. listeners' = listeners /\ flags' = flags /\ config' = config
    BY Zenon, <1>6 DEF Parse
  <2>3. ASSUME NEW m \in config.listeners,
               \A k \in config.listeners \ {m} : ThreadOf[k] # ThreadOf[m],
               ticked' \cap HeldBy(m) # {}
        PROVE  flags[ThreadOf[m]]
    <3>1. ticked \cap HeldBy(m) # {}
      BY Zenon, <2>1, <2>3
    <3> QED
      BY Zenon, <2>3, <3>1 DEF TickInv, FlushedAfterTick
  <2>4. FlushedAfterTick'
    BY Zenon, <2>2, <2>3 DEF FlushedAfterTick, HeldBy
  <2> QED
    BY Zenon, <2>1, <2>4 DEF TickInv
<1>7. CASE UNCHANGED vars
  <2>1. config' = config /\ wire' = wire /\ listeners' = listeners /\ flags' = flags /\ ticked' = ticked
    BY Zenon, <1>7 DEF vars, history
  <2>2. FlushedAfterTick'
    BY Zenon, <2>1 DEF TickInv, FlushedAfterTick, HeldBy
  <2> QED
    BY Zenon, <2>1, <2>2 DEF TickInv
<1>8. ASSUME NEW l \in Listener, ReceiveEmpty(l) \/ ReceiveError(l) PROVE TickInv'
  <2>1. PICK gone : End(l, gone)
    BY Zenon, <1>8 DEF ReceiveEmpty, ReceiveError
  <2> QED
    BY Zenon, <1>4, <2>1
<1> QED
  BY Zenon, <1>3, <1>5, <1>6, <1>7, <1>8 DEF Next, Listen

INSTANCE FiniteSetTheorems

\* The facts about finite sets hold: Datagram is finite and so are the bytes.
LEMMA CountingHolds == Counting
<1>1. IsFiniteSet(Datagram) /\ BufSize \in Nat
  BY Zenon, IngestAssumption
<1>2. ASSUME NEW S \in SUBSET Addr PROVE Cardinality(S) \in Nat
  <2> DEFINE f == [d \in Datagram |-> AddrOf[d]]
  <2>1. f \in Surjection(Datagram, Addr)
    BY Zenon DEF Surjection, Addr
  <2> HIDE DEF f
  <2>2. IsFiniteSet(Addr)
    BY ONLY Zenon, <1>1, <2>1, FS_Surjection
  <2>3. IsFiniteSet(S)
    BY ONLY Zenon, S \in SUBSET Addr, <2>2, FS_Subset
  <2> QED
    BY Zenon, <2>3, FS_CardinalityType
<1> DEFINE B(D) == {b \in D \X (1 .. BufSize) : b[2] <= SizeOf[b[1]]}
<1>3. \A D : Bytes(D) = Cardinality(B(D))
  BY Zenon DEF Bytes
<1>4. ASSUME NEW D \in SUBSET Datagram PROVE IsFiniteSet(B(D))
  <2>1. IsFiniteSet(D)
    BY ONLY Zenon, <1>1, D \in SUBSET Datagram, FS_Subset
  <2>2. IsFiniteSet(1 .. BufSize)
    <3>1. 1 \in Int /\ BufSize \in Int
      BY <1>1
    <3> QED
      BY Zenon, <3>1, FS_Interval
  <2>3. IsFiniteSet(D \X (1 .. BufSize))
    BY Zenon, <2>1, <2>2, FS_Product
  <2>4. B(D) \in SUBSET (D \X (1 .. BufSize))
    BY Zenon
  <2> HIDE DEF B
  <2> QED
    BY ONLY Zenon, <2>3, <2>4, FS_Subset
<1>5. B({}) = {}
  OBVIOUS
<1>6. Bytes({}) = 0
  BY Zenon, <1>3, <1>5, FS_EmptySet
<1>7. ASSUME NEW D \in SUBSET Datagram PROVE Bytes(D) \in Nat
  <2> HIDE DEF B
  <2>1. IsFiniteSet(B(D))
    BY Zenon, <1>4
  <2>2. Cardinality(B(D)) \in Nat
    BY Zenon, <2>1, FS_CardinalityType
  <2> QED
    BY Zenon, <1>3, <2>2
<1>8. ASSUME NEW D \in SUBSET Datagram, NEW E \in SUBSET Datagram, \A d \in D : d \notin E
      PROVE  Bytes(D \cup E) = Bytes(D) + Bytes(E)
  <2>1. B(D \cup E) = B(D) \cup B(E)
    OBVIOUS
  <2>2. B(D) \cap B(E) = {}
    BY <1>8
  <2> HIDE DEF B
  <2>3. IsFiniteSet(B(D)) /\ IsFiniteSet(B(E))
    BY Zenon, <1>4
  <2>4. Cardinality(B(D) \cup B(E)) = Cardinality(B(D)) + Cardinality(B(E)) - Cardinality(B(D) \cap B(E))
    BY ONLY Zenon, <2>3, FS_Union
  <2>5. Cardinality(B(D) \cap B(E)) = 0
    BY Zenon, <2>2, FS_EmptySet
  <2>6. Bytes(D) \in Nat /\ Bytes(E) \in Nat
    BY Zenon, <1>7
  <2>7. Bytes(D \cup E) = Bytes(D) + Bytes(E) - 0
    BY Zenon, <1>3, <2>1, <2>4, <2>5
  <2> QED
    BY <2>6, <2>7
<1> QED
  BY Zenon, <1>2, <1>6, <1>7, <1>8 DEF Counting

\* The listeners that ended are finitely many and took less than the flush
\* length each.
LossInv ==
    /\ IsFiniteSet(Ended)
    /\ Bytes(lost) > 0 => Bytes(lost) < FlushLength * Cardinality(Ended)

\* The bound after one more listener ended: n of them lost x, it had c.
LEMMA OneMore ==
  ASSUME NEW f \in Nat, NEW n \in Nat, NEW x \in Nat, NEW c \in Nat,
         x > 0 => x < f * n, c = 0 \/ c < f
  PROVE  x + c > 0 => x + c < f * (n + 1)
<1>1. f * n \in Nat /\ f * (n + 1) = f * n + f
  OBVIOUS
<1> SUFFICES ASSUME NEW p \in Nat, p = f * n PROVE x + c > 0 => x + c < p + f
  BY Zenon, <1>1
<1>2. x > 0 => x < p
  BY Zenon
<1> QED
  BY ONLY f \in Nat, x \in Nat, c \in Nat, p \in Nat, c = 0 \/ c < f, <1>2

\* What goes with a listener that ends is what it held: the datagram it read
\* is empty.
LEMMA EndLoses ==
  ASSUME IngestInv, LossInv, NEW l \in Listener, NEW gone \in SUBSET wire, Bytes(gone) = 0, End(l, gone)
  PROVE  LossInv'
<1>1. /\ \A m \in Listener : m # l => listeners'[m] = listeners[m]
      /\ listeners'[l].alive = FALSE /\ config' = config
  BY Zenon, Ends
<1>2. config.listeners \subseteq Listener
  BY Zenon, ConfigParts DEF IngestInv, IngestTypes
<1>3. listeners[l].alive /\ l \in config.listeners
  BY Zenon DEF End, IngestInv, Tidy
<1> SUFFICES ASSUME NEW E, E = Ended, NEW F, F = Ended',
                    NEW x, x = Bytes(lost), NEW c, c = Bytes(HeldBy(l)),
                    NEW y, y = lost \cup gone \cup HeldBy(l)
             PROVE  IsFiniteSet(F) /\ (Bytes(y) > 0 => Bytes(y) < FlushLength * Cardinality(F))
  <2>1. lost' = lost \cup gone \cup HeldBy(l)
    BY Zenon DEF End
  <2>2. Bytes(lost)' = Bytes(lost \cup gone \cup HeldBy(l))
    BY Zenon, <2>1 DEF Bytes
  <2> QED
    BY Zenon, <2>2 DEF LossInv
<1>4. F = E \cup {l} /\ l \notin E
  <2>1. \A m : m \in F <=> m \in config.listeners /\ ~listeners'[m].alive
    BY Zenon, <1>1 DEF Ended
  <2>2. \A m : m \in E <=> m \in config.listeners /\ ~listeners[m].alive
    BY Zenon DEF Ended
  <2> QED
    BY Zenon, <1>1, <1>2, <1>3, <2>1, <2>2
<1>5. IsFiniteSet(E)
  BY Zenon DEF LossInv
<1>6. IsFiniteSet(F) /\ Cardinality(F) = Cardinality(E) + 1 /\ Cardinality(E) \in Nat
  BY ONLY Zenon, <1>4, <1>5, FS_AddElement, FS_CardinalityType
<1>7. PICK own : Placed(own)
  BY Zenon DEF IngestInv
<1>8. lost \in SUBSET Datagram /\ wire \in SUBSET Datagram /\ gone \in SUBSET Datagram
  BY Zenon DEF IngestInv, IngestTypes
<1>9. \A d \in HeldBy(l) : d \in Datagram /\ d \notin wire /\ d \in Range(listeners[l].bufmap[AddrOf[d]])
  BY Zenon, HeldParts
<1>10. \A d \in lost : d \notin gone
  <2> SUFFICES ASSUME NEW d \in lost PROVE d \notin wire
    BY Zenon
  <2>1. own[d] = AtLost /\ (d \in wire <=> own[d] = AtWire)
    BY Zenon, <1>7, <1>8 DEF Placed
  <2> QED
    BY Zenon, <2>1, Apart
<1>11. \A d \in lost \cup gone : d \notin HeldBy(l)
  <2> SUFFICES ASSUME NEW d \in lost, d \in HeldBy(l) PROVE FALSE
    BY Zenon, <1>9
  <2>1. d \in Range(listeners[l].bufmap[AddrOf[d]]) /\ d \in Datagram
    BY Zenon, <1>9
  <2>2. own[d] = AtLost /\ own[d] = AtListener(l)
    BY Zenon, <1>7, <2>1 DEF Placed
  <2> QED
    BY Zenon, <2>2, Apart
<1>12. lost \cup gone \in SUBSET Datagram /\ HeldBy(l) \in SUBSET Datagram
  BY Zenon, <1>8, <1>9
<1>13. Bytes(lost \cup gone) = x + Bytes(gone)
  BY Zenon, <1>8, <1>10, CountingHolds DEF Counting
<1>14. Bytes(y) = Bytes(lost \cup gone) + c
  BY Zenon, <1>11, <1>12, CountingHolds DEF Counting
<1>15. x \in Nat /\ c \in Nat
  BY Zenon, <1>8, <1>12, CountingHolds DEF Counting
<1>16. Bytes(y) = x + c
  BY ONLY <1>13, <1>14, <1>15, Bytes(gone) = 0
<1>17. c = 0 \/ c < FlushLength
  <2>1. Bytes({}) = 0
    BY Zenon, CountingHolds DEF Counting
  <2>2. HeldBy(l) = HeldIn(listeners[l].bufmap)
    BY Zenon DEF HeldBy, HeldIn
  <2> QED
    BY Zenon, <2>1, <2>2 DEF IngestInv, Counted
<1>18. FlushLength \in Nat
  BY Zenon, IngestAssumption
<1>19. x > 0 => x < FlushLength * Cardinality(E)
  BY Zenon DEF LossInv
<1>20. x + c > 0 => x + c < FlushLength * (Cardinality(E) + 1)
  BY ONLY Zenon, <1>6, <1>15, <1>17, <1>18, <1>19, OneMore
<1> QED
  BY Zenon, <1>6, <1>16, <1>20

\* Every other step loses nothing and ends no listener.
LEMMA LossStep ==
  ASSUME IngestInv, LossInv, [Next]_vars
  PROVE  LossInv'
<1>1. config.listeners \subseteq Listener
  BY Zenon, ConfigParts DEF IngestInv, IngestTypes
<1>2. ASSUME config' = config, lost' = lost, \A m \in Listener : listeners'[m].alive = listeners[m].alive
      PROVE  LossInv'
  <2>1. \A m : m \in Ended' <=> m \in Ended
    BY Zenon, <1>1, <1>2 DEF Ended
  <2>2. Ended' = Ended
    BY Zenon, <2>1
  <2>3. Bytes(lost)' = Bytes(lost)
    BY Zenon, <1>2 DEF Bytes
  <2> QED
    BY Zenon, <2>2, <2>3 DEF LossInv
<1>3. ASSUME NEW l \in Listener, NEW data \in Received, Receive(l, data) PROVE LossInv'
  <2>1. config' = config /\ lost' = lost
    BY Zenon, <1>3 DEF Receive
  <2>2. \A m \in Listener : m # l => listeners'[m] = listeners[m]
    BY Zenon, <1>3, Reads, CountingHolds
  <2>3. listeners'[l].alive = listeners[l].alive
    BY Zenon, <1>3, Reads, CountingHolds
  <2>4. \A m \in Listener : listeners'[m].alive = listeners[m].alive
    BY Zenon, <2>2, <2>3
  <2> QED
    BY Zenon, <1>2, <2>1, <2>4
<1>4. ASSUME NEW l \in Listener, ReceiveEmpty(l) PROVE LossInv'
  <2>1. PICK d \in wire : SizeOf[d] = 0 /\ End(l, {d})
    BY Zenon, <1>4 DEF ReceiveEmpty
  <2>2. {b \in {d} \X (1 .. BufSize) : b[2] <= SizeOf[b[1]]} = {}
    <3>1. BufSize \in Nat
      BY Zenon, IngestAssumption
    <3> QED
      BY <2>1, <3>1
  <2>3. Bytes({d}) = 0
    BY Zenon, <2>2, FS_EmptySet DEF Bytes
  <2>4. {d} \in SUBSET wire
    BY Zenon, <2>1
  <2> QED
    BY Zenon, <2>1, <2>3, <2>4, EndLoses
<1>5. ASSUME NEW l \in Listener, ReceiveError(l) PROVE LossInv'
  <2>1. End(l, {}) /\ {} \in SUBSET wire
    BY Zenon, <1>5 DEF ReceiveError
  <2>2. Bytes({}) = 0
    BY Zenon, CountingHolds DEF Counting
  <2> QED
    BY Zenon, <2>1, <2>2, EndLoses
<1>6. CASE FlushTick
  BY Zenon, <1>2, <1>6 DEF FlushTick
<1>7. ASSUME NEW w \in Worker, Parse(w) PROVE LossInv'
  BY Zenon, <1>2, <1>7 DEF Parse
<1>8. CASE UNCHANGED vars
  BY Zenon, <1>2, <1>8 DEF vars
<1> QED
  BY Zenon, <1>3, <1>4, <1>5, <1>6, <1>7, <1>8 DEF Next, Listen

\* Nothing is lost and nothing was ticked when the listeners start.
LEMMA InitLoss ==
  ASSUME Init, IngestInv
  PROVE  LossInv /\ TickInv
<1>1. lost = {} /\ ticked = {} /\ listeners = [l \in Listener |->
           [alive |-> l \in config.listeners, bufmap |-> NoBuffers, counter |-> 0, next |-> FirstWorker(l)]]
  BY Zenon DEF Init
<1>2. config.listeners \subseteq Listener
  BY Zenon, ConfigParts DEF IngestInv, IngestTypes
<1>3. \A l \in config.listeners : listeners[l].alive
  BY Zenon, <1>1, <1>2
<1>4. Ended = {}
  BY Zenon, <1>3 DEF Ended
<1>5. Bytes(lost) = 0
  BY Zenon, <1>1, CountingHolds DEF Counting
<1>6. ~(0 > 0)
  OBVIOUS
<1>7. LossInv
  BY Zenon, <1>4, <1>5, <1>6, FS_EmptySet DEF LossInv
<1>8. TickInv
  BY Zenon, <1>1 DEF TickInv, FlushedAfterTick
<1> QED
  BY Zenon, <1>7, <1>8

\* The invariant holds in every state: for any number of listeners, threads and
\* workers, any datagrams and any configuration.
THEOREM IngestInductive == Spec => []IngestInv
<1>1. Init => IngestInv
  BY Zenon, CountingHolds, InitInv
<1>2. IngestInv /\ [Next]_vars => IngestInv'
  BY Zenon, CountingHolds, NextInv
<1> QED
  BY <1>1, <1>2, PTL DEF Spec

\* So do the invariants of the tick and of the loss.
LEMMA IngestAlongside == Spec => []TickInv /\ []LossInv
<1>1. Init => IngestInv
  BY Zenon, CountingHolds, InitInv
<1>2. Init /\ IngestInv => TickInv /\ LossInv
  BY Zenon, InitLoss
<1>3. IngestInv /\ TickInv /\ [Next]_vars => TickInv'
  BY Zenon, CountingHolds, TickInvStep
<1>4. IngestInv /\ LossInv /\ [Next]_vars => LossInv'
  BY Zenon, LossStep
<1> QED
  BY <1>1, <1>2, <1>3, <1>4, IngestInductive, PTL DEF Spec

\* Buffers hold datagrams of their own address only, no task is empty, the
\* round-robin index is a worker, and the counter is at most the flush length.
THEOREM IngestTypeOK == Spec => []TypeOK
<1>1. IngestInv /\ TickInv => TypeOK
  BY Zenon, CountingHolds, InvTypeOK DEF TickInv
<1> QED
  BY <1>1, IngestInductive, IngestAlongside, PTL

\* recv_counter is the number of bytes a listener holds, through every flush,
\* every tick of the timer and every end of a listener.
THEOREM IngestCounterIsHeld == Spec => []CounterIsHeld
<1>1. IngestInv => CounterIsHeld
  BY Zenon DEF IngestInv, Counted, CounterIsHeld, HeldBy, HeldIn
<1> QED
  BY <1>1, IngestInductive, PTL

\* No listener holds buffer_flush_length bytes between two datagrams, and what
\* n listeners that ended took with them is less than n times as much.
THEOREM IngestLossBounded == Spec => []LossBounded
<1>1. IngestInv /\ LossInv => LossBounded
  <2> SUFFICES ASSUME IngestInv, LossInv PROVE LossBounded
    BY Zenon
  <2>1. ASSUME NEW l \in Listener, HeldBy(l) # {} PROVE Bytes(HeldBy(l)) < FlushLength
    <3>1. HeldBy(l) = HeldIn(listeners[l].bufmap)
      BY Zenon DEF HeldBy, HeldIn
    <3> QED
      BY Zenon, <2>1, <3>1 DEF IngestInv, Counted
  <2> QED
    BY Zenon, <2>1 DEF LossBounded, LossInv
<1> QED
  BY <1>1, IngestInductive, IngestAlongside, PTL

\* A listener with a thread of its own gives what it held at a tick of the
\* timer to the workers no later than with its next datagram.
THEOREM IngestFlushedAfterTick == Spec => []FlushedAfterTick
<1>1. TickInv => FlushedAfterTick
  BY Zenon DEF TickInv
<1> QED
  BY <1>1, IngestAlongside, PTL

\* With consistent parsing and one listener, a worker is given the datagrams of
\* an address in the order in which they came in, whatever order the map is
\* drained in.
THEOREM IngestInArrivalOrder == Spec => []InArrivalOrder
<1>1. IngestInv => InArrivalOrder
  BY Zenon DEF IngestInv
<1> QED
  BY <1>1, IngestInductive, PTL

\* A datagram is in one place only: no flush makes two tasks of it or drops it,
\* and it is lost only with a listener that ended.
THEOREM IngestReadOnce == Spec => []ReadOnce
<1>1. IngestInv => ReadOnce
  <2> SUFFICES ASSUME IngestInv PROVE ReadOnce
    BY Zenon
  <2>1. lost # {} => \E l \in config.listeners : ~listeners[l].alive
    BY Zenon DEF IngestInv, Tidy
  <2>2. \A d \in Datagram : Cardinality(Where(d)) = 1
    BY Zenon, InvWhere, FS_Singleton
  <2> QED
    BY Zenon, <2>1, <2>2 DEF ReadOnce
<1> QED
  BY <1>1, IngestInductive, PTL
=============================================================================
