----------------------------- MODULE EwfLemmas -----------------------------
(***************************************************************************)
(* Facts that the proofs about several modules use: induction over the     *)
(* naturals in the form those proofs need, where an induction hypothesis   *)
(* is a set of naturals and not a predicate; sequences; numbers; and the   *)
(* file of EwfDisk, what is at an offset of it and the data that a list of *)
(* offsets leads to.                                                       *)
(***************************************************************************)
EXTENDS EwfDisk, SequencesExt, SequenceTheorems, WellFoundedInduction, TLAPS

\* A set that holds 0 and, with each natural, the next one holds them all.
LEMMA SetInduction ==
    ASSUME NEW S, 0 \in S, \A n \in Nat : n \in S => n + 1 \in S
    PROVE  Nat \subseteq S
  <1> DEFINE R == OpToRel(<, Nat)
             T == Nat \ S
  <1>1. SUFFICES ASSUME T # {} PROVE FALSE
    OBVIOUS
  <1>2. IsWellFoundedOn(R, Nat)
    BY NatLessThanWellFounded
  <1>3. PICK x \in T : \A y \in T : <<y, x>> \notin R
    <2>1. T \subseteq Nat
      OBVIOUS
    <2> HIDE DEF R, T
    <2> QED
      BY <1>1, <1>2, <2>1, WFMin
  <1>4. x \in Nat /\ x # 0
    OBVIOUS
  <1>5. x - 1 \in Nat /\ x - 1 \notin S
    BY <1>4
  <1>6. <<x - 1, x>> \in R
    BY <1>4, <1>5 DEF OpToRel
  <1> QED
    BY <1>3, <1>4, <1>5, <1>6

\* A set of naturals has a smallest element.
LEMMA MinOfNats ==
    ASSUME NEW S, S \subseteq Nat, S # {}
    PROVE  Min(S) \in S
  <1>1. IsWellFoundedOn(OpToRel(<, Nat), Nat)
    BY NatLessThanWellFounded
  <1>2. PICK x \in S : \A y \in S : <<y, x>> \notin OpToRel(<, Nat)
    BY <1>1, WFMin
  <1>3. \A y \in S : x <= y
    <2> TAKE y \in S
    <2>1. <<y, x>> \notin OpToRel(<, Nat) /\ x \in Nat /\ y \in Nat
      BY <1>2
    <2> QED
      BY <2>1 DEF OpToRel
  <1> QED
    BY <1>3 DEF Min

\* Concatenation is associative, for sequences of bytes.
LEMMA Associative ==
    \A s, t, u \in Seq(Nat) : (s \o t) \o u = s \o (t \o u)
  BY ConcatAssociative

\* A sequence cut in two is the sequence.
LEMMA CutInTwo ==
    ASSUME NEW S, NEW s \in Seq(S), NEW k \in 0..Len(s)
    PROVE  SubSeq(s, 1, k) \o SubSeq(s, k + 1, Len(s)) = s
  <1>1. Len(s) \in Nat
    BY LenProperties
  <1>2. 1 \in 1..Len(s) + 1 /\ k \in (1 - 1)..Len(s) /\ Len(s) \in k..Len(s)
    BY <1>1
  <1>3. SubSeq(s, 1, k) \o SubSeq(s, k + 1, Len(s)) = SubSeq(s, 1, Len(s))
    BY <1>2, ConcatAdjacentSubSeq, Zenon
  <1> QED
    BY <1>3, SubSeqFull

(***************************************************************************)
(* FlattenSeq.  The library defines it by a recursive function on the      *)
(* positions of the sequence; Flattens says that g is that function.       *)
(***************************************************************************)
Flattens(g, ss, n) ==
    g = [i \in 1..n |-> IF i = 1 THEN ss[i] ELSE g[i - 1] \o ss[i]]

LEMMA FlattensExists == \A ss : \A n \in Nat : \E g : Flattens(g, ss, n)
  <1> SUFFICES ASSUME NEW ss PROVE \A n \in Nat : \E g : Flattens(g, ss, n)
    OBVIOUS
  <1> DEFINE S == {n \in Nat : \E g : Flattens(g, ss, n)}
  <1>1. 0 \in S
    <2> DEFINE g == [i \in 1..0 |-> ss[i]]
    <2>1. Flattens(g, ss, 0)
      BY DEF Flattens
    <2> QED
      BY <2>1
  <1>2. ASSUME NEW n \in Nat, n \in S
        PROVE  n + 1 \in S
    <2>1. PICK g : Flattens(g, ss, n)
      BY <1>2
    <2> DEFINE h == [i \in 1..(n + 1) |->
                       IF i = n + 1
                       THEN IF i = 1 THEN ss[i] ELSE g[n] \o ss[i]
                       ELSE g[i]]
    <2>2. ASSUME NEW i \in 1..(n + 1)
          PROVE  h[i] = IF i = 1 THEN ss[i] ELSE h[i - 1] \o ss[i]
      <3>1. CASE i = n + 1 /\ i # 1
        <4>1. i - 1 = n /\ n \in 1..(n + 1) /\ n # n + 1
          BY <3>1
        <4>2. h[i] = g[n] \o ss[i] /\ h[n] = g[n]
          BY <3>1, <4>1
        <4> HIDE DEF h
        <4> QED
          BY <3>1, <4>1, <4>2
      <3>2. CASE i = n + 1 /\ i = 1
        BY <3>2
      <3>3. CASE i # n + 1
        <4>1. i \in 1..n
          BY <3>3
        <4>2. h[i] = g[i]
          BY <3>3
        <4>3. g[i] = IF i = 1 THEN ss[i] ELSE g[i - 1] \o ss[i]
          BY <2>1, <4>1 DEF Flattens
        <4>4. i # 1 => i - 1 \in 1..(n + 1) /\ i - 1 # n + 1
          BY <4>1
        <4>5. i # 1 => h[i - 1] = g[i - 1]
          BY <4>4
        <4> HIDE DEF h
        <4> QED
          BY <4>2, <4>3, <4>5
      <3> QED
        BY <3>1, <3>2, <3>3
    <2>3. h = [i \in 1..(n + 1) |-> h[i]]
      OBVIOUS
    <2> HIDE DEF h
    <2>4. Flattens(h, ss, n + 1)
      BY <2>2, <2>3 DEF Flattens
    <2>5. n + 1 \in Nat
      OBVIOUS
    <2> QED
      BY <2>4, <2>5
  <1>3. Nat \subseteq S
    <2> HIDE DEF S
    <2> QED
      BY <1>1, <1>2, SetInduction
  <1> QED
    BY <1>3

LEMMA FlattensStep ==
    ASSUME NEW g, NEW ss, NEW n \in Nat, Flattens(g, ss, n)
    PROVE  /\ n >= 1 => g[1] = ss[1]
           /\ \A i \in Nat \ {0} : i + 1 <= n => g[i + 1] = g[i] \o ss[i + 1]
  <1>1. \A i \in 1..n : g[i] = IF i = 1 THEN ss[i] ELSE g[i - 1] \o ss[i]
    BY DEF Flattens
  <1>2. n >= 1 => g[1] = ss[1]
    BY <1>1
  <1>3. ASSUME NEW i \in Nat \ {0}, i + 1 <= n
        PROVE  g[i + 1] = g[i] \o ss[i + 1]
    <2>1. i + 1 \in 1..n /\ i + 1 # 1 /\ (i + 1) - 1 = i
      BY <1>3
    <2>2. g[i + 1] = g[(i + 1) - 1] \o ss[i + 1]
      BY <1>1, <2>1
    <2> QED
      BY <2>1, <2>2
  <1> QED
    BY <1>2, <1>3

\* The functions of two sequences agree as far as the sequences do.
LEMMA FlattensAgree ==
    ASSUME NEW ss, NEW tt, NEW m \in Nat, NEW k \in Nat, k <= m, NEW g, NEW h,
           Flattens(g, ss, k), Flattens(h, tt, m), \A i \in 1..k : ss[i] = tt[i]
    PROVE  \A i \in 1..k : g[i] = h[i]
  <1> DEFINE S == {j \in Nat : j \in 1..k => g[j] = h[j]}
  <1>1. 0 \in S
    OBVIOUS
  <1>2. ASSUME NEW j \in Nat, j \in S
        PROVE  j + 1 \in S
    <2> SUFFICES ASSUME j + 1 \in 1..k
                 PROVE  g[j + 1] = h[j + 1]
      OBVIOUS
    <2>1. j + 1 \in 1..m /\ ss[j + 1] = tt[j + 1]
      OBVIOUS
    <2>2. /\ g[j + 1] = IF j + 1 = 1 THEN ss[j + 1] ELSE g[(j + 1) - 1] \o ss[j + 1]
          /\ h[j + 1] = IF j + 1 = 1 THEN tt[j + 1] ELSE h[(j + 1) - 1] \o tt[j + 1]
      BY <2>1 DEF Flattens
    <2>3. j + 1 # 1 => g[j] = h[j] /\ (j + 1) - 1 = j
      BY <1>2
    <2> QED
      BY <2>1, <2>2, <2>3
  <1>3. Nat \subseteq S
    <2> HIDE DEF S
    <2> QED
      BY <1>1, <1>2, SetInduction
  <1> QED
    BY <1>3

\* FlattenSeq is the last value of that function.
LEMMA FlattenSeqIs ==
    ASSUME NEW ss, NEW n \in Nat \ {0}, Len(ss) = n
    PROVE  \E g : Flattens(g, ss, n) /\ FlattenSeq(ss) = g[n]
  <1> DEFINE g == CHOOSE f : Flattens(f, ss, n)
  <1>1. Flattens(g, ss, n)
    BY FlattensExists
  <1>2. FlattenSeq(ss) = g[n]
    BY DEF FlattenSeq, Flattens
  <1> HIDE DEF g
  <1> QED
    BY <1>1, <1>2

LEMMA FlattenEmpty == FlattenSeq(<<>>) = <<>>
  BY DEF FlattenSeq

LEMMA FlattenType ==
    ASSUME NEW S, NEW ss \in Seq(Seq(S))
    PROVE  FlattenSeq(ss) \in Seq(S)
  <1>1. PICK n \in Nat : Len(ss) = n /\ \A i \in 1..n : ss[i] \in Seq(S)
    BY LenProperties, ElementOfSeq
  <1>2. CASE n = 0
    BY <1>1, <1>2, EmptySeq, FlattenEmpty
  <1>3. CASE n # 0
    <2>1. PICK g : Flattens(g, ss, n) /\ FlattenSeq(ss) = g[n]
      BY <1>1, <1>3, FlattenSeqIs
    <2> DEFINE T == {j \in Nat : j \in 1..n => g[j] \in Seq(S)}
    <2>2. 0 \in T
      OBVIOUS
    <2>3. ASSUME NEW j \in Nat, j \in T
          PROVE  j + 1 \in T
      <3> SUFFICES ASSUME j + 1 \in 1..n
                   PROVE  g[j + 1] \in Seq(S)
        OBVIOUS
      <3>1. g[j + 1] = IF j + 1 = 1 THEN ss[j + 1] ELSE g[(j + 1) - 1] \o ss[j + 1]
        BY <2>1 DEF Flattens
      <3>2. ss[j + 1] \in Seq(S)
        BY <1>1
      <3>3. j + 1 # 1 => g[j] \in Seq(S) /\ (j + 1) - 1 = j
        BY <2>3
      <3>4. j + 1 # 1 => g[j] \o ss[j + 1] \in Seq(S)
        BY <3>2, <3>3, ConcatProperties
      <3> QED
        BY <3>1, <3>2, <3>3, <3>4
    <2>4. Nat \subseteq T
      <3> HIDE DEF T
      <3> QED
        BY <2>2, <2>3, SetInduction
    <2> QED
      BY <1>3, <2>1, <2>4
  <1> QED
    BY <1>2, <1>3

\* Flattening one sequence more adds it at the end.
LEMMA FlattenAppend ==
    ASSUME NEW S, NEW ss \in Seq(Seq(S)), NEW s \in Seq(S)
    PROVE  FlattenSeq(Append(ss, s)) = FlattenSeq(ss) \o s
  <1>1. PICK n \in Nat : Len(ss) = n
    BY LenProperties
  <1> DEFINE tt == Append(ss, s)
  <1>2. /\ tt \in Seq(Seq(S)) /\ Len(tt) = n + 1 /\ tt[n + 1] = s
        /\ \A i \in 1..n : tt[i] = ss[i]
    BY <1>1, AppendProperties
  <1> HIDE DEF tt
  <1>3. PICK h : Flattens(h, tt, n + 1) /\ FlattenSeq(tt) = h[n + 1]
    BY <1>2, FlattenSeqIs
  <1>4. /\ n = 0 => h[n + 1] = s
        /\ n # 0 => h[n + 1] = h[n] \o s
    <2>1. n + 1 \in Nat /\ n + 1 >= 1
      OBVIOUS
    <2>2. /\ h[1] = tt[1]
          /\ \A i \in Nat \ {0} : i + 1 <= n + 1 => h[i + 1] = h[i] \o tt[i + 1]
      BY <1>3, <2>1, FlattensStep
    <2>3. n = 0 => h[n + 1] = s
      BY <1>2, <2>2
    <2>4. n # 0 => h[n + 1] = h[n] \o tt[n + 1]
      <3>1. n # 0 => n \in Nat \ {0} /\ n + 1 <= n + 1
        OBVIOUS
      <3> QED
        BY <2>2, <3>1
    <2> QED
      BY <1>2, <2>3, <2>4
  <1>5. CASE n = 0
    <2>1. ss = <<>>
      BY <1>1, <1>5, EmptySeq
    <2>2. FlattenSeq(ss) \o s = s
      BY <2>1, FlattenEmpty, ConcatEmptySeq
    <2> QED
      BY <1>3, <1>4, <1>5, <2>2 DEF tt
  <1>6. CASE n # 0
    <2>1. PICK g : Flattens(g, ss, n) /\ FlattenSeq(ss) = g[n]
      BY <1>1, <1>6, FlattenSeqIs
    <2>2. \A i \in 1..n : g[i] = h[i]
      <3>1. PICK m \in Nat : m = n + 1 /\ n <= m
        OBVIOUS
      <3>2. \A i \in 1..n : ss[i] = tt[i]
        BY <1>2
      <3>3. Flattens(h, tt, m)
        BY <1>3, <3>1
      <3> QED
        BY <2>1, <3>1, <3>2, <3>3, FlattensAgree, SMTT(60)
    <2>3. n \in 1..n
      BY <1>6
    <2>4. h[n] = g[n]
      BY <2>2, <2>3
    <2>5. h[n + 1] = h[n] \o s
      BY <1>4, <1>6
    <2> QED
      BY <1>3, <2>1, <2>4, <2>5 DEF tt
  <1> QED
    BY <1>5, <1>6

LEMMA ConcatAppend ==
    ASSUME NEW S, NEW s \in Seq(S), NEW t \in Seq(S), NEW e \in S
    PROVE  s \o Append(t, e) = Append(s \o t, e)
  <1>1. <<e>> \in Seq(S) /\ s \o t \in Seq(S)
    BY ConcatProperties
  <1>2. Append(t, e) = t \o <<e>> /\ Append(s \o t, e) = (s \o t) \o <<e>>
    BY <1>1, AppendIsConcat
  <1>3. (s \o t) \o <<e>> = s \o (t \o <<e>>)
    BY <1>1, ConcatAssociative
  <1> QED
    BY <1>2, <1>3

\* A sequence with another last element.
WithLast(ss, t) == [ss EXCEPT ![Len(ss)] = t]

LEMMA LastOfAppend ==
    ASSUME NEW S, NEW f \in Seq(S), NEW l \in S, NEW t \in S
    PROVE  /\ Append(f, l)[Len(Append(f, l))] = l
           /\ WithLast(Append(f, l), t) = Append(f, t)
  <1> DEFINE ss == Append(f, l)
             tt == Append(f, t)
             r == WithLast(ss, t)
  <1>1. PICK n \in Nat : Len(f) = n
    BY LenProperties
  <1>2. /\ ss \in Seq(S) /\ Len(ss) = n + 1 /\ ss[n + 1] = l
        /\ \A i \in 1..n : ss[i] = f[i]
    BY <1>1, AppendProperties
  <1>3. /\ tt \in Seq(S) /\ Len(tt) = n + 1 /\ tt[n + 1] = t
        /\ \A i \in 1..n : tt[i] = f[i]
    BY <1>1, AppendProperties
  <1> HIDE DEF ss, tt
  <1>4. /\ r \in Seq(S) /\ Len(r) = n + 1
        /\ \A i \in 1..(n + 1) : r[i] = IF i = n + 1 THEN t ELSE ss[i]
    BY <1>2, ExceptSeq DEF WithLast
  <1> HIDE DEF r
  <1>5. \A i \in 1..(n + 1) : r[i] = tt[i]
    BY <1>2, <1>3, <1>4
  <1>6. r = tt
    BY <1>3, <1>4, <1>5, SeqEqual
  <1> QED
    BY <1>2, <1>6 DEF ss, tt, r

\* Adding an element to the last sequence adds it to the flattened one.
LEMMA FlattenLast ==
    ASSUME NEW S, NEW ss \in Seq(Seq(S)), ss # <<>>, NEW e \in S
    PROVE  FlattenSeq(WithLast(ss, Append(ss[Len(ss)], e))) = Append(FlattenSeq(ss), e)
  <1>1. PICK f \in Seq(Seq(S)), l \in Seq(S) : ss = Append(f, l)
    BY SequenceEmptyOrAppend
  <1>2. Append(l, e) \in Seq(S)
    BY AppendProperties
  <1>3. ss[Len(ss)] = l
    BY <1>1, LastOfAppend
  <1>4. WithLast(ss, Append(l, e)) = Append(f, Append(l, e))
    BY <1>1, <1>2, LastOfAppend
  <1>5. FlattenSeq(Append(f, Append(l, e))) = FlattenSeq(f) \o Append(l, e)
    BY <1>2, FlattenAppend
  <1>6. FlattenSeq(ss) = FlattenSeq(f) \o l
    BY <1>1, FlattenAppend
  <1>7. FlattenSeq(f) \in Seq(S)
    BY FlattenType
  <1>8. FlattenSeq(f) \o Append(l, e) = Append(FlattenSeq(f) \o l, e)
    BY <1>7, ConcatAppend
  <1> QED
    BY <1>3, <1>4, <1>5, <1>6, <1>8, Zenon

(***************************************************************************)
(* Numbers.                                                                *)
(***************************************************************************)
LEMMA Quotient ==
    ASSUME NEW a \in Nat, NEW s \in Nat \ {0}
    PROVE  /\ a \div s \in Nat /\ (a % s) \in Nat /\ (a % s) < s
           /\ a = s * (a \div s) + (a % s)
  OBVIOUS

LEMMA Product ==
    \A a \in Nat : \A b \in Nat : a * b \in Nat
  OBVIOUS

LEMMA ProductGrows ==
    ASSUME NEW a \in Nat, NEW b \in Nat, a <= b, NEW s \in Nat
    PROVE  a * s <= b * s
  OBVIOUS

\* A number below w is itself modulo w.
LEMMA Remainder ==
    ASSUME NEW n \in Nat, NEW w \in Nat \ {0}
    PROVE  /\ (n % w) \in Nat /\ (n % w) <= n
           /\ n < w => (n % w) = n
  OBVIOUS

\* The n numbers from off on.
Numbers(off, n) == [i \in 1..n |-> off + i - 1]

LEMMA NumbersAre ==
    ASSUME NEW off \in Nat, NEW n \in Nat
    PROVE  /\ Numbers(off, n) \in Seq(Nat)
           /\ Len(Numbers(off, n)) = n
           /\ \A i \in 1..n : Numbers(off, n)[i] = off + i - 1
           /\ Numbers(off, n) = <<>> <=> n = 0
  <1> DEFINE s == Numbers(off, n)
  <1>1. s \in [1..n -> Nat] /\ \A i \in 1..n : s[i] = off + i - 1
    BY DEF Numbers
  <1> HIDE DEF s
  <1>2. s \in Seq(Nat)
    BY <1>1, SeqDef
  <1>3. Len(s) = n
    BY <1>1, <1>2
  <1>4. s = <<>> <=> n = 0
    BY <1>2, <1>3, EmptySeq
  <1> QED
    BY <1>1, <1>2, <1>3, <1>4 DEF s

\* The numbers that follow go on where the first ones stop.
LEMMA NumbersConcat ==
    ASSUME NEW off \in Nat, NEW a \in Nat, NEW b \in Nat
    PROVE  Numbers(off, a) \o Numbers(off + a, b) = Numbers(off, a + b)
  <1> DEFINE s == Numbers(off, a)
             t == Numbers(off + a, b)
             u == Numbers(off, a + b)
  <1>1. /\ s \in Seq(Nat) /\ Len(s) = a
        /\ \A i \in 1..a : s[i] = off + i - 1
    BY NumbersAre
  <1>2. /\ t \in Seq(Nat) /\ Len(t) = b
        /\ \A i \in 1..b : t[i] = off + a + i - 1
    <2>1. off + a \in Nat
      OBVIOUS
    <2> QED
      BY <2>1, NumbersAre
  <1>3. /\ u \in Seq(Nat) /\ Len(u) = a + b
        /\ \A i \in 1..(a + b) : u[i] = off + i - 1
    <2>1. a + b \in Nat
      OBVIOUS
    <2> QED
      BY <2>1, NumbersAre
  <1> HIDE DEF s, t, u
  <1>4. /\ s \o t \in Seq(Nat) /\ Len(s \o t) = a + b
        /\ \A i \in 1..(a + b) : (s \o t)[i] = IF i <= a THEN s[i] ELSE t[i - a]
    BY <1>1, <1>2, ConcatProperties
  <1>5. \A i \in 1..(a + b) : (s \o t)[i] = u[i]
    <2> TAKE i \in 1..(a + b)
    <2>1. CASE i <= a
      BY <2>1, <1>1, <1>3, <1>4
    <2>2. CASE ~(i <= a)
      <3>1. i - a \in 1..b
        BY <2>2
      <3>2. t[i - a] = off + a + (i - a) - 1
        BY <3>1, <1>2
      <3>3. (s \o t)[i] = t[i - a]
        BY <2>2, <1>4
      <3> QED
        BY <3>2, <3>3, <1>3
    <2> QED
      BY <2>1, <2>2
  <1>6. s \o t = u
    BY <1>3, <1>4, <1>5, SeqEqual
  <1> QED
    BY <1>6 DEF s, t, u

(***************************************************************************)
(* The file.                                                               *)
(***************************************************************************)
\* The chunks among the extents of a file.
ChunkExtents(d) == {e \in d : e.obj.kind = "chunk"}

\* What is at an offset is well defined: no extent is empty, and no two start
\* at the same place.
Solid(d) ==
    /\ \A e \in d : e.at \in Nat /\ e.len \in Nat \ {0}
    /\ \A e \in d : \A f \in d : e.at = f.at => e = f

\* Every write keeps it so, whole or torn.
LEMMA PutSolid ==
    ASSUME NEW d, Solid(d), NEW p \in Nat, NEW n \in Nat, NEW o
    PROVE  Solid(Put(d, p, n, o))
  <1> DEFINE old == {e \in d : e.at + e.len <= p \/ p + n <= e.at}
             new == {e \in {[at |-> p, len |-> n, obj |-> o]} : n > 0}
  <1>1. \A e \in old : e \in d /\ e.at \in Nat /\ e.len \in Nat \ {0}
    BY DEF Solid
  <1>2. \A e \in new : e = [at |-> p, len |-> n, obj |-> o] /\ n \in Nat \ {0}
    OBVIOUS
  <1>3. \A e \in old : n > 0 => e.at # p
    BY <1>1
  <1>4. \A e \in old : \A f \in new : e.at # f.at
    BY <1>2, <1>3
  <1>5. \A e \in old : \A f \in old : e.at = f.at => e = f
    BY <1>1 DEF Solid
  <1>6. \A e \in new : e.at \in Nat /\ e.len \in Nat \ {0}
    BY <1>2
  <1>7. \A e \in new : \A f \in new : e = f
    BY <1>2
  <1>8. Put(d, p, n, o) = old \cup new
    BY DEF Put
  <1> HIDE DEF old, new
  <1> QED
    BY <1>1, <1>4, <1>5, <1>6, <1>7, <1>8 DEF Solid

LEMMA TearSolid ==
    ASSUME NEW d, Solid(d), NEW p \in Nat, NEW k \in Nat
    PROVE  Solid(Tear(d, p, k))
  BY PutSolid DEF Tear

(***************************************************************************)
(* What is found at an offset.                                             *)
(***************************************************************************)
LEMMA FoundAt ==
    ASSUME NEW d, Solid(d), NEW e \in d
    PROVE  ObjAt(d, e.at) = e.obj /\ LenAt(d, e.at) = e.len
  BY DEF Solid, ObjAt, LenAt

\* A chunk that is kept is found where it was.
LEMMA ChunkAtKept ==
    ASSUME NEW d, NEW r, Solid(d), Solid(r), ChunkExtents(d) \subseteq ChunkExtents(r),
           NEW p, Holds(d, p, "chunk")
    PROVE  /\ Holds(r, p, "chunk")
           /\ ObjAt(r, p) = ObjAt(d, p) /\ LenAt(r, p) = LenAt(d, p)
  <1>1. PICK e \in d : e.at = p /\ e.obj.kind = "chunk"
    BY DEF Holds
  <1>2. e \in r
    BY <1>1 DEF ChunkExtents
  <1> QED
    BY <1>1, <1>2, FoundAt DEF Holds

\* A chunk that was just stored.
LEMMA ChunkAtStored ==
    ASSUME NEW d, Solid(d), NEW p, NEW n, NEW o, o.kind = "chunk",
           [at |-> p, len |-> n, obj |-> o] \in d
    PROVE  Holds(d, p, "chunk") /\ ObjAt(d, p) = o /\ LenAt(d, p) = n
  <1> DEFINE e == [at |-> p, len |-> n, obj |-> o]
  <1>1. e \in d /\ e.at = p /\ e.len = n /\ e.obj = o
    OBVIOUS
  <1> HIDE DEF e
  <1> QED
    BY <1>1, FoundAt DEF Holds

(***************************************************************************)
(* Indexed(d, os, count, sum): there are count offsets in os, each leads   *)
(* to a chunk of d, and the data of these chunks, in order, make up sum.   *)
(***************************************************************************)
BytesInChunks(d) == \A e \in ChunkExtents(d) : e.obj.data \in Seq(Nat)

DataAt(d, os) == [i \in DOMAIN os |-> ObjAt(d, os[i]).data]

Indexed(d, os, count, sum) ==
    /\ \A i \in DOMAIN os : Holds(d, os[i], "chunk")
    /\ Len(os) = count
    /\ FlattenSeq(DataAt(d, os)) = sum

LEMMA ChunkAtType ==
    ASSUME NEW d, Solid(d), BytesInChunks(d), NEW p, Holds(d, p, "chunk")
    PROVE  ObjAt(d, p).data \in Seq(Nat)
  <1>1. PICK e \in d : e.at = p /\ e.obj.kind = "chunk"
    BY DEF Holds
  <1>2. ObjAt(d, p) = e.obj
    BY <1>1, FoundAt
  <1>3. e.obj.data \in Seq(Nat)
    BY <1>1 DEF BytesInChunks, ChunkExtents
  <1> QED
    BY <1>2, <1>3

LEMMA DataAtType ==
    ASSUME NEW d, Solid(d), BytesInChunks(d), NEW os \in Seq(Nat),
           \A i \in DOMAIN os : Holds(d, os[i], "chunk")
    PROVE  /\ DataAt(d, os) \in Seq(Seq(Nat))
           /\ Len(DataAt(d, os)) = Len(os)
           /\ \A i \in 1..Len(os) : DataAt(d, os)[i] = ObjAt(d, os[i]).data
  <1>1. PICK n \in Nat : Len(os) = n /\ DOMAIN os = 1..n
    BY LenProperties
  <1>2. \A i \in 1..n : ObjAt(d, os[i]).data \in Seq(Nat)
    BY <1>1, ChunkAtType
  <1> QED
    BY <1>1, <1>2 DEF DataAt

\* A file that keeps its chunks holds the same data where it held data.
LEMMA IndexKept ==
    ASSUME NEW d, NEW r, Solid(d), Solid(r), ChunkExtents(d) \subseteq ChunkExtents(r),
           NEW os, NEW count, NEW sum, Indexed(d, os, count, sum)
    PROVE  Indexed(r, os, count, sum)
  <1>1. \A i \in DOMAIN os : Holds(d, os[i], "chunk")
    BY DEF Indexed
  <1>2. \A i \in DOMAIN os :
          Holds(r, os[i], "chunk") /\ ObjAt(r, os[i]) = ObjAt(d, os[i])
    BY <1>1, ChunkAtKept
  <1>3. DataAt(r, os) = DataAt(d, os)
    BY <1>2 DEF DataAt
  <1> QED
    BY <1>2, <1>3 DEF Indexed

\* And one more chunk, that is indexed, counted and hashed.
LEMMA IndexGrows ==
    ASSUME NEW d, NEW r, Solid(d), Solid(r), BytesInChunks(r), ChunkExtents(d) \subseteq ChunkExtents(r),
           NEW os \in Seq(Nat), NEW count \in Nat, NEW sum \in Seq(Nat),
           Indexed(d, os, count, sum), NEW p \in Nat, NEW data \in Seq(Nat),
           Holds(r, p, "chunk"), ObjAt(r, p).data = data
    PROVE  Indexed(r, Append(os, p), count + 1, sum \o data)
  <1> DEFINE q == Append(os, p)
             l == DataAt(r, q)
             a == Append(DataAt(r, os), data)
  <1>1. PICK n \in Nat : Len(os) = n /\ DOMAIN os = 1..n
    BY LenProperties
  <1>2. Indexed(r, os, count, sum)
    BY IndexKept
  <1>3. /\ q \in Seq(Nat) /\ Len(q) = n + 1 /\ q[n + 1] = p
        /\ \A i \in 1..n : q[i] = os[i]
    BY <1>1, AppendProperties
  <1>4. DOMAIN q = 1..(n + 1)
    BY <1>3, LenProperties
  <1> HIDE DEF q
  <1>5. \A i \in DOMAIN q : Holds(r, q[i], "chunk")
    <2>1. \A i \in 1..n : Holds(r, os[i], "chunk")
      BY <1>1, <1>2 DEF Indexed
    <2>2. \A i \in 1..n : Holds(r, q[i], "chunk")
      BY <1>3, <2>1
    <2>3. Holds(r, q[n + 1], "chunk")
      BY <1>3
    <2>4. \A i \in 1..(n + 1) : i \in 1..n \/ i = n + 1
      OBVIOUS
    <2>5. \A i \in 1..(n + 1) : Holds(r, q[i], "chunk")
      BY <2>2, <2>3, <2>4
    <2> QED
      BY <1>4, <2>5, Zenon
  <1>6. /\ l \in Seq(Seq(Nat)) /\ Len(l) = n + 1
        /\ \A i \in 1..(n + 1) : l[i] = ObjAt(r, q[i]).data
    <2>1. l \in Seq(Seq(Nat)) /\ Len(l) = Len(q)
          /\ \A i \in 1..Len(q) : l[i] = ObjAt(r, q[i]).data
      BY <1>3, <1>5, DataAtType
    <2> HIDE DEF l
    <2> QED
      BY <1>3, <2>1
  <1>7. /\ DataAt(r, os) \in Seq(Seq(Nat)) /\ Len(DataAt(r, os)) = n
        /\ \A i \in 1..n : DataAt(r, os)[i] = ObjAt(r, os[i]).data
    BY <1>1, <1>2, DataAtType DEF Indexed
  <1>8. /\ a \in Seq(Seq(Nat)) /\ Len(a) = n + 1 /\ a[n + 1] = data
        /\ \A i \in 1..n : a[i] = DataAt(r, os)[i]
    BY <1>7, AppendProperties
  <1> HIDE DEF l, a
  <1>9. \A i \in 1..(n + 1) : l[i] = a[i]
    <2>1. l[n + 1] = a[n + 1]
      BY <1>3, <1>6, <1>8
    <2>2. ASSUME NEW i \in 1..n
          PROVE  l[i] = a[i]
      <3>1. i \in 1..(n + 1)
        OBVIOUS
      <3>2. l[i] = ObjAt(r, q[i]).data /\ q[i] = os[i]
        BY <1>3, <1>6, <3>1
      <3>3. a[i] = ObjAt(r, os[i]).data
        BY <1>7, <1>8
      <3> QED
        BY <3>2, <3>3
    <2>3. \A i \in 1..(n + 1) : i \in 1..n \/ i = n + 1
      OBVIOUS
    <2> QED
      BY <2>1, <2>2, <2>3
  <1>10. l = a
    BY <1>6, <1>8, <1>9, SeqEqual
  <1>11. FlattenSeq(DataAt(r, os)) = sum
    BY <1>2 DEF Indexed
  <1>12. FlattenSeq(a) = sum \o data
    BY <1>7, <1>11, FlattenAppend DEF a
  <1>13. Len(os) = count
    BY <1>2 DEF Indexed
  <1> QED
    BY <1>1, <1>3, <1>5, <1>10, <1>12, <1>13 DEF Indexed, l, q
=============================================================================
