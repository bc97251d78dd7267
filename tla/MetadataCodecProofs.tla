------------------------ MODULE MetadataCodecProofs ------------------------
(***************************************************************************)
(* Theorems about MetadataCodec, for every table of identifiers, every     *)
(* value and every number of calls: its types, that plain metadata are     *)
(* read back as they were given, and that no value, whatever is in it,     *)
(* adds a key to those that are read or takes one from them.               *)
(***************************************************************************)
EXTENDS MetadataCodec, EwfLemmas, FiniteSetTheorems, FunctionTheorems

(***************************************************************************)
(* Split.  It is defined by a recursive function on the positions of the   *)
(* text; Splits says that g is that function.                              *)
(***************************************************************************)
Splits(g, t, d, n) ==
    g = [i \in 0..n |->
           IF i = 0 THEN <<Empty>>
           ELSE IF t[i] = d THEN Append(g[i - 1], Empty)
           ELSE [g[i - 1] EXCEPT ![Len(g[i - 1])] = Append(@, t[i])]]

\* The fields that one more character makes of some.
Field(parts, c, d) ==
    IF c = d THEN Append(parts, Empty)
    ELSE WithLast(parts, Append(parts[Len(parts)], c))

LEMMA SplitsIs ==
    ASSUME NEW g, NEW t, NEW d, NEW n \in Nat
    PROVE  Splits(g, t, d, n) <=>
             g = [i \in 0..n |-> IF i = 0 THEN <<Empty>> ELSE Field(g[i - 1], t[i], d)]
  BY DEF Splits, Field, WithLast

LEMMA SplitsExists == \A t, d : \A n \in Nat : \E g : Splits(g, t, d, n)
  <1> SUFFICES ASSUME NEW t, NEW d PROVE \A n \in Nat : \E g : Splits(g, t, d, n)
    OBVIOUS
  <1> DEFINE S == {n \in Nat : \E g : Splits(g, t, d, n)}
  <1>1. 0 \in S
    <2> DEFINE g == [i \in 0..0 |-> <<Empty>>]
    <2>1. \A i \in 0..0 : i = 0
      OBVIOUS
    <2>2. g = [i \in 0..0 |-> IF i = 0 THEN <<Empty>> ELSE Field(g[i - 1], t[i], d)]
      BY <2>1
    <2> HIDE DEF g
    <2>3. Splits(g, t, d, 0)
      BY <2>2, SplitsIs
    <2> QED
      BY <2>3
  <1>2. ASSUME NEW n \in Nat, n \in S
        PROVE  n + 1 \in S
    <2>1. PICK g : Splits(g, t, d, n)
      BY <1>2
    <2>2. g = [i \in 0..n |-> IF i = 0 THEN <<Empty>> ELSE Field(g[i - 1], t[i], d)]
      BY <2>1, SplitsIs
    <2> DEFINE h == [i \in 0..(n + 1) |->
                       IF i = n + 1 THEN Field(g[n], t[i], d) ELSE g[i]]
    <2>3. ASSUME NEW i \in 0..(n + 1)
          PROVE  h[i] = IF i = 0 THEN <<Empty>> ELSE Field(h[i - 1], t[i], d)
      <3>1. CASE i = n + 1
        <4>1. i - 1 = n /\ n \in 0..(n + 1) /\ n # n + 1 /\ i # 0
          BY <3>1
        <4>2. h[i] = Field(g[n], t[i], d) /\ h[n] = g[n]
          BY <3>1, <4>1
        <4> HIDE DEF h
        <4> QED
          BY <3>1, <4>1, <4>2
      <3>2. CASE i # n + 1
        <4>1. i \in 0..n
          BY <3>2
        <4>2. h[i] = g[i]
          BY <3>2
        <4>3. g[i] = IF i = 0 THEN <<Empty>> ELSE Field(g[i - 1], t[i], d)
          BY <2>2, <4>1
        <4>4. i # 0 => i - 1 \in 0..(n + 1) /\ i - 1 # n + 1
          BY <4>1
        <4>5. i # 0 => h[i - 1] = g[i - 1]
          BY <4>4
        <4> HIDE DEF h
        <4> QED
          BY <4>2, <4>3, <4>5
      <3> QED
        BY <3>1, <3>2
    <2>4. h = [i \in 0..(n + 1) |-> h[i]]
      OBVIOUS
    <2> HIDE DEF h
    <2>5. h = [i \in 0..(n + 1) |-> IF i = 0 THEN <<Empty>> ELSE Field(h[i - 1], t[i], d)]
      BY <2>3, <2>4
    <2>6. n + 1 \in Nat
      OBVIOUS
    <2>7. Splits(h, t, d, n + 1)
      BY <2>5, <2>6, SplitsIs
    <2> QED
      BY <2>6, <2>7
  <1>3. Nat \subseteq S
    <2> HIDE DEF S
    <2> QED
      BY <1>1, <1>2, SetInduction
  <1> QED
    BY <1>3

LEMMA SplitsStep ==
    ASSUME NEW g, NEW t, NEW d, NEW n \in Nat, Splits(g, t, d, n)
    PROVE  /\ g[0] = <<Empty>>
           /\ \A i \in 0..(n - 1) : g[i + 1] = Field(g[i], t[i + 1], d)
  <1>1. \A i \in 0..n : g[i] = IF i = 0 THEN <<Empty>> ELSE Field(g[i - 1], t[i], d)
    BY SplitsIs
  <1>2. g[0] = <<Empty>>
    <2>1. 0 \in 0..n
      OBVIOUS
    <2> QED
      BY <1>1, <2>1
  <1>3. ASSUME NEW i \in 0..(n - 1)
        PROVE  g[i + 1] = Field(g[i], t[i + 1], d)
    <2>1. i + 1 \in 0..n /\ i + 1 # 0 /\ (i + 1) - 1 = i
      OBVIOUS
    <2>2. g[i + 1] = Field(g[(i + 1) - 1], t[i + 1], d)
      BY <1>1, <2>1
    <2> QED
      BY <2>1, <2>2
  <1> QED
    BY <1>2, <1>3

\* The functions of two texts agree as far as the texts do.
LEMMA SplitsAgree ==
    ASSUME NEW t, NEW u, NEW d, NEW m \in Nat, NEW k \in 0..m, NEW g, NEW h,
           Splits(g, t, d, k), Splits(h, u, d, m), \A i \in 1..k : t[i] = u[i]
    PROVE  g[k] = h[k]
  <1> DEFINE S == {j \in Nat : j \in 0..k => g[j] = h[j]}
  <1>1. 0 \in S
    BY SplitsStep
  <1>2. ASSUME NEW j \in Nat, j \in S
        PROVE  j + 1 \in S
    <2> SUFFICES ASSUME j + 1 \in 0..k
                 PROVE  g[j + 1] = h[j + 1]
      OBVIOUS
    <2>1. j \in 0..(k - 1) /\ j \in 0..(m - 1) /\ j + 1 \in 1..k /\ k \in Nat /\ j \in 0..k
      OBVIOUS
    <2>2. g[j + 1] = Field(g[j], t[j + 1], d)
      BY <2>1, SplitsStep
    <2>3. h[j + 1] = Field(h[j], u[j + 1], d)
      BY <2>1, SplitsStep
    <2>4. g[j] = h[j] /\ t[j + 1] = u[j + 1]
      BY <1>2, <2>1
    <2> QED
      BY <2>2, <2>3, <2>4
  <1>3. Nat \subseteq S
    <2> HIDE DEF S
    <2> QED
      BY <1>1, <1>2, SetInduction
  <1> QED
    BY <1>3

\* Split is the last value of that function.
LEMMA SplitIs ==
    ASSUME NEW t, NEW d, NEW n \in Nat, Len(t) = n
    PROVE  \E g : Splits(g, t, d, n) /\ Split(t, d) = g[n]
  <1> DEFINE g == CHOOSE f : Splits(f, t, d, n)
  <1>1. Splits(g, t, d, n)
    BY SplitsExists
  <1>2. Split(t, d) = g[n]
    BY DEF Split, Splits
  <1> HIDE DEF g
  <1> QED
    BY <1>1, <1>2

LEMMA SplitEmpty == \A d : Split(<<>>, d) = <<Empty>>
  <1> TAKE d
  <1>1. Len(<<>>) = 0 /\ 0 \in Nat
    OBVIOUS
  <1>2. PICK g : Splits(g, <<>>, d, 0) /\ Split(<<>>, d) = g[0]
    BY <1>1, SplitIs
  <1> QED
    BY <1>1, <1>2, SplitsStep

LEMMA SplitAppend ==
    ASSUME NEW S, NEW t \in Seq(S), NEW c \in S, NEW d
    PROVE  Split(Append(t, c), d) = Field(Split(t, d), c, d)
  <1> DEFINE u == Append(t, c)
  <1>1. PICK n \in Nat : Len(t) = n
    BY LenProperties
  <1>2. /\ u \in Seq(S) /\ Len(u) = n + 1 /\ u[n + 1] = c
        /\ \A i \in 1..n : u[i] = t[i]
    BY <1>1, AppendProperties
  <1> HIDE DEF u
  <1>3. PICK m \in Nat : m = n + 1
    OBVIOUS
  <1>4. PICK g : Splits(g, t, d, n) /\ Split(t, d) = g[n]
    BY <1>1, SplitIs
  <1>5. PICK h : Splits(h, u, d, m) /\ Split(u, d) = h[m]
    BY <1>2, <1>3, SplitIs
  <1>6. n \in 0..m /\ n \in 0..(m - 1)
    BY <1>3
  <1>7. g[n] = h[n]
    <2>1. \A i \in 1..n : t[i] = u[i]
      BY <1>2
    <2> QED
      BY <1>4, <1>5, <1>6, <2>1, SplitsAgree
  <1>8. h[n + 1] = Field(h[n], u[n + 1], d)
    BY <1>5, <1>6, SplitsStep
  <1> QED
    BY <1>2, <1>3, <1>4, <1>5, <1>7, <1>8 DEF u

\* Facts about Field: it is a step of Split.
LEMMA FieldType ==
    ASSUME NEW S, NEW parts \in Seq(Seq(S)), parts # <<>>, NEW c \in S, NEW d
    PROVE  Field(parts, c, d) \in Seq(Seq(S)) /\ Field(parts, c, d) # <<>>
  <1>1. PICK n \in Nat \ {0} : Len(parts) = n
    BY EmptySeq
  <1>2. CASE c = d
    <2>1. Empty \in Seq(S)
      BY EmptySeq DEF Empty
    <2> QED
      BY <1>2, <2>1, AppendProperties DEF Field
  <1>3. CASE c # d
    <2>1. n \in 1..Len(parts) /\ parts[n] \in Seq(S)
      BY <1>1, ElementOfSeq
    <2>2. Append(parts[n], c) \in Seq(S)
      BY <2>1, AppendProperties
    <2> DEFINE r == WithLast(parts, Append(parts[n], c))
    <2>3. r \in Seq(Seq(S)) /\ Len(r) = n
      BY <1>1, <2>1, <2>2, ExceptSeq DEF WithLast
    <2>4. Field(parts, c, d) = r
      BY <1>1, <1>3 DEF Field
    <2> HIDE DEF r
    <2> QED
      BY <1>1, <2>3, <2>4, EmptySeq
  <1> QED
    BY <1>2, <1>3

LEMMA FieldLast ==
    ASSUME NEW S, NEW f \in Seq(Seq(S)), NEW l \in Seq(S), NEW c \in S, NEW d, c # d
    PROVE  Field(Append(f, l), c, d) = Append(f, Append(l, c))
  <1> DEFINE T == Seq(S)
             u == Append(l, c)
  <1>1. u \in T /\ f \in Seq(T) /\ l \in T
    BY AppendProperties
  <1>2. Field(Append(f, l), c, d)
          = WithLast(Append(f, l), Append(Append(f, l)[Len(Append(f, l))], c))
    BY DEF Field
  <1> HIDE DEF T, u
  <1>3. /\ Append(f, l)[Len(Append(f, l))] = l
        /\ WithLast(Append(f, l), u) = Append(f, u)
    BY <1>1, LastOfAppend
  <1> QED
    BY <1>2, <1>3 DEF u

LEMMA FieldConcat ==
    ASSUME NEW S, NEW before \in Seq(Seq(S)), NEW parts \in Seq(Seq(S)), parts # <<>>,
           NEW c \in S, NEW d
    PROVE  Field(before \o parts, c, d) = before \o Field(parts, c, d)
  <1>1. PICK f \in Seq(Seq(S)), l \in Seq(S) : parts = Append(f, l)
    BY SequenceEmptyOrAppend
  <1>2. PICK b \in Seq(Seq(S)) : b = before \o f
    BY ConcatProperties
  <1>3. before \o parts = Append(b, l)
    BY <1>1, <1>2, ConcatAppend
  <1>4. CASE c = d
    <2>1. Empty \in Seq(S)
      BY EmptySeq DEF Empty
    <2>2. before \o Append(parts, Empty) = Append(before \o parts, Empty)
      BY <2>1, ConcatAppend
    <2> QED
      BY <1>4, <2>2 DEF Field
  <1>5. CASE c # d
    <2>1. Append(l, c) \in Seq(S)
      BY AppendProperties
    <2>2. Field(parts, c, d) = Append(f, Append(l, c))
      BY <1>1, <1>5, FieldLast
    <2>3. Field(before \o parts, c, d) = Append(b, Append(l, c))
      BY <1>3, <1>5, FieldLast
    <2>4. before \o Append(f, Append(l, c)) = Append(b, Append(l, c))
      BY <1>2, <2>1, ConcatAppend
    <2> QED
      BY <2>2, <2>3, <2>4
  <1> QED
    BY <1>4, <1>5

\* Split gives texts, and at least one.
LEMMA SplitType ==
    ASSUME NEW S, NEW d
    PROVE  \A t \in Seq(S) : Split(t, d) \in Seq(Seq(S)) /\ Split(t, d) # <<>>
  <1> DEFINE N == {n \in Nat : \A t \in Seq(S) : Len(t) = n =>
                     Split(t, d) \in Seq(Seq(S)) /\ Split(t, d) # <<>>}
  <1>1. 0 \in N
    <2>1. <<Empty>> \in Seq(Seq(S)) /\ <<Empty>> # <<>>
      <3>1. Empty \in Seq(S)
        BY EmptySeq DEF Empty
      <3> QED
        BY <3>1
    <2>2. \A t \in Seq(S) : Len(t) = 0 => t = <<>>
      BY EmptySeq
    <2> QED
      BY <2>1, <2>2, SplitEmpty
  <1>2. ASSUME NEW n \in Nat, n \in N
        PROVE  n + 1 \in N
    <2> SUFFICES ASSUME NEW t \in Seq(S), Len(t) = n + 1
                 PROVE  Split(t, d) \in Seq(Seq(S)) /\ Split(t, d) # <<>>
      OBVIOUS
    <2>1. t # <<>>
      BY EmptySeq
    <2>2. PICK f \in Seq(S), c \in S : t = Append(f, c)
      BY <2>1, SequenceEmptyOrAppend
    <2>3. Len(f) = n
      BY <2>2, AppendProperties, LenProperties
    <2>4. Split(f, d) \in Seq(Seq(S)) /\ Split(f, d) # <<>>
      BY <1>2, <2>3
    <2>5. Split(t, d) = Field(Split(f, d), c, d)
      BY <2>2, SplitAppend
    <2> QED
      BY <2>4, <2>5, FieldType
  <1>3. Nat \subseteq N
    <2> HIDE DEF N
    <2> QED
      BY <1>1, <1>2, SetInduction
  <1> QED
    BY <1>3, LenProperties

\* What is split at a delimiter is split before it and behind it.
LEMMA SplitConcat ==
    ASSUME NEW S, NEW d \in S, NEW s \in Seq(S)
    PROVE  \A t \in Seq(S) : Split(Append(s, d) \o t, d) = Split(s, d) \o Split(t, d)
  <1> DEFINE N == {n \in Nat : \A t \in Seq(S) : Len(t) = n =>
                     Split(Append(s, d) \o t, d) = Split(s, d) \o Split(t, d)}
  <1>0. /\ Append(s, d) \in Seq(S)
        /\ Split(s, d) \in Seq(Seq(S)) /\ Split(s, d) # <<>>
    BY AppendProperties, SplitType
  <1>1. 0 \in N
    <2> SUFFICES ASSUME NEW t \in Seq(S), Len(t) = 0
                 PROVE  Split(Append(s, d) \o t, d) = Split(s, d) \o Split(t, d)
      OBVIOUS
    <2>1. t = <<>>
      BY EmptySeq
    <2>2. Append(s, d) \o t = Append(s, d)
      BY <1>0, <2>1, ConcatEmptySeq
    <2>3. Split(Append(s, d), d) = Append(Split(s, d), Empty)
      BY SplitAppend DEF Field
    <2>4. Empty \in Seq(S)
      BY EmptySeq DEF Empty
    <2>5. Append(Split(s, d), Empty) = Split(s, d) \o <<Empty>>
      BY <1>0, <2>4, AppendIsConcat
    <2> QED
      BY <2>1, <2>2, <2>3, <2>5, SplitEmpty
  <1>2. ASSUME NEW n \in Nat, n \in N
        PROVE  n + 1 \in N
    <2> SUFFICES ASSUME NEW t \in Seq(S), Len(t) = n + 1
                 PROVE  Split(Append(s, d) \o t, d) = Split(s, d) \o Split(t, d)
      OBVIOUS
    <2>1. t # <<>>
      BY EmptySeq
    <2>2. PICK f \in Seq(S), c \in S : t = Append(f, c)
      BY <2>1, SequenceEmptyOrAppend
    <2>3. Len(f) = n
      BY <2>2, AppendProperties, LenProperties
    <2>4. Split(Append(s, d) \o f, d) = Split(s, d) \o Split(f, d)
      BY <1>2, <2>3
    <2>5. /\ Append(s, d) \o f \in Seq(S)
          /\ Append(s, d) \o t = Append(Append(s, d) \o f, c)
      BY <1>0, <2>2, ConcatProperties, ConcatAppend
    <2>6. Split(Append(s, d) \o t, d) = Field(Split(s, d) \o Split(f, d), c, d)
      BY <2>4, <2>5, SplitAppend
    <2>7. Split(f, d) \in Seq(Seq(S)) /\ Split(f, d) # <<>>
      BY SplitType
    <2>8. Field(Split(s, d) \o Split(f, d), c, d)
            = Split(s, d) \o Field(Split(f, d), c, d)
      BY <1>0, <2>7, FieldConcat
    <2>9. Split(t, d) = Field(Split(f, d), c, d)
      BY <2>2, SplitAppend
    <2> QED
      BY <2>6, <2>8, <2>9
  <1>3. Nat \subseteq N
    <2> HIDE DEF N
    <2> QED
      BY <1>1, <1>2, SetInduction
  <1> QED
    BY <1>3, LenProperties

\* A text without a delimiter is one field.
LEMMA SplitPlain ==
    ASSUME NEW S, NEW d, d \notin S
    PROVE  \A t \in Seq(S) : Split(t, d) = <<t>>
  <1> DEFINE N == {n \in Nat : \A t \in Seq(S) : Len(t) = n => Split(t, d) = <<t>>}
  <1>1. 0 \in N
    <2>1. \A t \in Seq(S) : Len(t) = 0 => t = <<>>
      BY EmptySeq
    <2> QED
      BY <2>1, SplitEmpty DEF Empty
  <1>2. ASSUME NEW n \in Nat, n \in N
        PROVE  n + 1 \in N
    <2> SUFFICES ASSUME NEW t \in Seq(S), Len(t) = n + 1
                 PROVE  Split(t, d) = <<t>>
      OBVIOUS
    <2>1. t # <<>>
      BY EmptySeq
    <2>2. PICK f \in Seq(S), c \in S : t = Append(f, c)
      BY <2>1, SequenceEmptyOrAppend
    <2>3. Len(f) = n
      BY <2>2, AppendProperties, LenProperties
    <2>4. Split(f, d) = <<f>>
      BY <1>2, <2>3
    <2>5. Split(t, d) = Field(<<f>>, c, d) /\ c # d
      BY <2>2, <2>4, SplitAppend
    <2>6. PICK e \in Seq(Seq(S)) : <<f>> = Append(e, f) /\ <<t>> = Append(e, t)
      <3>1. <<f>> = Append(<<>>, f) /\ <<t>> = Append(<<>>, t) /\ <<>> \in Seq(Seq(S))
        BY EmptySeq
      <3> QED
        BY <3>1
    <2>7. Field(Append(e, f), c, d) = Append(e, t)
      BY <2>2, <2>5, <2>6, FieldLast
    <2> QED
      BY <2>5, <2>6, <2>7
  <1>3. Nat \subseteq N
    <2> HIDE DEF N
    <2> QED
      BY <1>1, <1>2, SetInduction
  <1> QED
    BY <1>3, LenProperties

(***************************************************************************)
(* Join, and that Split undoes it.                                         *)
(***************************************************************************)
Part(parts, d, i) == IF i = 1 THEN parts[i] ELSE <<d>> \o parts[i]

Delimited(parts, d) == [i \in DOMAIN parts |-> Part(parts, d, i)]

LEMMA DelimitedType ==
    ASSUME NEW S, NEW d \in S, NEW parts \in Seq(Seq(S)), NEW n \in Nat, Len(parts) = n
    PROVE  /\ Delimited(parts, d) \in Seq(Seq(S))
           /\ Len(Delimited(parts, d)) = n
           /\ \A i \in 1..n :
                Delimited(parts, d)[i] = Part(parts, d, i)
  <1>1. DOMAIN parts = 1..n
    BY LenProperties
  <1>2. <<d>> \in Seq(S)
    OBVIOUS
  <1>3. ASSUME NEW i \in 1..n
        PROVE  parts[i] \in Seq(S) /\ <<d>> \o parts[i] \in Seq(S)
    <2>1. parts[i] \in Seq(S)
      BY <1>1, ElementOfSeq
    <2> QED
      BY <1>2, <2>1, ConcatProperties
  <1> DEFINE r == Delimited(parts, d)
  <1>4. /\ r \in [1..n -> Seq(S)]
        /\ \A i \in 1..n : r[i] = Part(parts, d, i)
    BY <1>1, <1>3 DEF Delimited, Part
  <1> HIDE DEF r
  <1>5. r \in Seq(Seq(S)) /\ Len(r) = n
    BY <1>4, SeqDef
  <1> QED
    BY <1>1, <1>4, <1>5 DEF r

LEMMA JoinType ==
    ASSUME NEW S, NEW d \in S, NEW parts \in Seq(Seq(S))
    PROVE  Join(parts, d) \in Seq(S)
  <1>1. Join(parts, d) = FlattenSeq(Delimited(parts, d))
    BY DEF Join, Delimited, Part
  <1> QED
    BY <1>1, DelimitedType, FlattenType

LEMMA JoinEmpty == \A d : Join(<<>>, d) = <<>>
  <1> TAKE d
  <1>1. Delimited(<<>>, d) = <<>>
    BY DEF Delimited
  <1> QED
    BY <1>1, FlattenEmpty DEF Join, Delimited, Part

LEMMA DelimitedAppend ==
    ASSUME NEW S, NEW d \in S, NEW parts \in Seq(Seq(S)), NEW p \in Seq(S)
    PROVE  Delimited(Append(parts, p), d)
             = Append(Delimited(parts, d), IF parts = <<>> THEN p ELSE <<d>> \o p)
  <1>1. PICK n \in Nat : Len(parts) = n
    BY LenProperties
  <1> DEFINE q == IF parts = <<>> THEN p ELSE <<d>> \o p
             more == Append(parts, p)
             s == Delimited(parts, d)
             l == Delimited(more, d)
             r == Append(s, q)
  <1>2. q \in Seq(S) /\ (parts = <<>> <=> n = 0)
    <2>1. <<d>> \in Seq(S)
      OBVIOUS
    <2>2. <<d>> \o p \in Seq(S)
      BY <2>1, ConcatProperties
    <2> QED
      BY <1>1, <2>2, EmptySeq
  <1>3. q = IF n = 0 THEN p ELSE <<d>> \o p
    BY <1>2
  <1>4. /\ more \in Seq(Seq(S)) /\ Len(more) = n + 1 /\ more[n + 1] = p
        /\ \A i \in 1..n : more[i] = parts[i]
    BY <1>1, AppendProperties
  <1>5. /\ s \in Seq(Seq(S)) /\ Len(s) = n
        /\ \A i \in 1..n : s[i] = Part(parts, d, i)
    BY <1>1, DelimitedType
  <1> HIDE DEF more, q, s
  <1>6. /\ l \in Seq(Seq(S)) /\ Len(l) = n + 1
        /\ \A i \in 1..(n + 1) : l[i] = Part(more, d, i)
    <2>1. PICK m \in Nat : m = n + 1
      OBVIOUS
    <2> QED
      BY <1>4, <2>1, DelimitedType
  <1>7. /\ r \in Seq(Seq(S)) /\ Len(r) = n + 1 /\ r[n + 1] = q
        /\ \A i \in 1..n : r[i] = s[i]
    BY <1>2, <1>5, AppendProperties
  <1> HIDE DEF l, r
  <1>8. \A i \in 1..(n + 1) : l[i] = r[i]
    <2>1. l[n + 1] = r[n + 1]
      <3>1. n + 1 \in 1..(n + 1) /\ (n + 1 = 1 <=> n = 0)
        OBVIOUS
      <3>2. l[n + 1] = IF n + 1 = 1 THEN more[n + 1] ELSE <<d>> \o more[n + 1]
        BY <1>6, <3>1, Zenon DEF Part
      <3> QED
        BY <1>3, <1>4, <1>7, <3>1, <3>2, Zenon
    <2>2. ASSUME NEW i \in 1..n
          PROVE  l[i] = r[i]
      <3>1. i \in 1..(n + 1)
        OBVIOUS
      <3>2. l[i] = IF i = 1 THEN more[i] ELSE <<d>> \o more[i]
        BY <1>6, <3>1, Zenon DEF Part
      <3> QED
        BY <1>4, <1>5, <1>7, <3>2, Zenon DEF Part
    <2>3. \A i \in 1..(n + 1) : i \in 1..n \/ i = n + 1
      OBVIOUS
    <2> QED
      BY <2>1, <2>2, <2>3, Zenon
  <1>9. l = r
    BY <1>6, <1>7, <1>8, SeqEqual
  <1> QED
    BY <1>9 DEF l, r, more, q, s

LEMMA JoinAppend ==
    ASSUME NEW S, NEW d \in S, NEW parts \in Seq(Seq(S)), NEW p \in Seq(S)
    PROVE  Join(Append(parts, p), d)
             = IF parts = <<>> THEN p ELSE Append(Join(parts, d), d) \o p
  <1> DEFINE q == IF parts = <<>> THEN p ELSE <<d>> \o p
             s == Delimited(parts, d)
  <1>1. <<d>> \in Seq(S) /\ <<d>> \o p \in Seq(S)
    <2>1. <<d>> \in Seq(S)
      OBVIOUS
    <2> QED
      BY <2>1, ConcatProperties
  <1>2. q \in Seq(S) /\ s \in Seq(Seq(S)) /\ Delimited(Append(parts, p), d) = Append(s, q)
    BY <1>1, DelimitedType, DelimitedAppend
  <1> DEFINE j == Join(parts, d)
  <1>3. j = FlattenSeq(s) /\ j \in Seq(S)
        /\ Join(Append(parts, p), d) = FlattenSeq(Delimited(Append(parts, p), d))
    BY JoinType DEF Join, Delimited, Part
  <1> HIDE DEF s, j
  <1>4. FlattenSeq(Append(s, q)) = j \o q
    BY <1>2, <1>3, FlattenAppend
  <1>5. CASE parts = <<>>
    <2>1. j = <<>>
      BY <1>5, JoinEmpty DEF j
    <2>2. j \o p = p
      BY <2>1, ConcatEmptySeq
    <2> QED
      BY <1>2, <1>3, <1>4, <1>5, <2>2
  <1>6. CASE parts # <<>>
    <2>1. (j \o <<d>>) \o p = j \o (<<d>> \o p)
      BY <1>1, <1>3, ConcatAssociative
    <2>2. Append(j, d) = j \o <<d>>
      BY <1>3, AppendIsConcat
    <2> QED
      BY <1>2, <1>3, <1>4, <1>6, <2>1, <2>2 DEF j
  <1> QED
    BY <1>5, <1>6

\* Parts without the delimiter come back as they were joined.
LEMMA SplitJoin ==
    ASSUME NEW S, NEW d \in S
    PROVE  \A parts \in Seq(Seq(S \ {d})) : parts # <<>> => Split(Join(parts, d), d) = parts
  <1> DEFINE T == S \ {d}
             N == {n \in Nat : \A parts \in Seq(Seq(T)) :
                     Len(parts) = n /\ parts # <<>> => Split(Join(parts, d), d) = parts}
  <1>1. d \notin T /\ T \subseteq S /\ Seq(T) \subseteq Seq(S)
    <2>1. d \notin T /\ T \subseteq S
      OBVIOUS
    <2> HIDE DEF T
    <2> QED
      BY <2>1, SeqMonotonic
  <1>2. Seq(Seq(T)) \subseteq Seq(Seq(S))
    BY <1>1, SeqMonotonic
  <1> HIDE DEF T
  <1>3. 0 \in N
    BY EmptySeq
  <1>4. ASSUME NEW n \in Nat, n \in N
        PROVE  n + 1 \in N
    <2> SUFFICES ASSUME NEW parts \in Seq(Seq(T)), Len(parts) = n + 1, parts # <<>>
                 PROVE  Split(Join(parts, d), d) = parts
      OBVIOUS
    <2>1. PICK f \in Seq(Seq(T)), p \in Seq(T) : parts = Append(f, p)
      BY SequenceEmptyOrAppend
    <2>2. Len(f) = n
      BY <2>1, AppendProperties, LenProperties
    <2>3. f \in Seq(Seq(S)) /\ p \in Seq(S)
      BY <1>1, <1>2
    <2>4. Join(parts, d) = IF f = <<>> THEN p ELSE Append(Join(f, d), d) \o p
      BY <2>1, <2>3, JoinAppend
    <2>5. Split(p, d) = <<p>>
      BY <1>1, SplitPlain
    <2>6. CASE f = <<>>
      BY <2>1, <2>4, <2>5, <2>6
    <2>7. CASE f # <<>>
      <3>1. Split(Join(f, d), d) = f
        BY <1>4, <2>2, <2>7
      <3>2. Join(f, d) \in Seq(S)
        BY <2>3, JoinType
      <3>3. Split(Append(Join(f, d), d) \o p, d) = Split(Join(f, d), d) \o Split(p, d)
        BY <2>3, <3>2, SplitConcat
      <3>4. f \o <<p>> = Append(f, p)
        BY AppendIsConcat
      <3> QED
        BY <2>1, <2>4, <2>5, <2>7, <3>1, <3>3, <3>4
    <2> QED
      BY <2>6, <2>7
  <1>5. Nat \subseteq N
    <2> HIDE DEF N
    <2> QED
      BY <1>3, <1>4, SetInduction
  <1> QED
    BY <1>5, LenProperties DEF T

(***************************************************************************)
(* The order in which Go goes through a map: every key once.               *)
(***************************************************************************)
Enumerates(keys, D, n) ==
    /\ n \in Nat /\ keys \in Seq(D) /\ Len(keys) = n /\ DOMAIN keys = 1..n
    /\ \A i, j \in 1..n : keys[i] = keys[j] => i = j
    /\ \A k \in D : \E i \in 1..n : keys[i] = k

LEMMA SetToSeqsEnumerates ==
    ASSUME NEW D, IsFiniteSet(D), NEW keys \in SetToSeqs(D)
    PROVE  \E n \in Nat : Enumerates(keys, D, n)
  <1> DEFINE n == Cardinality(D)
  <1>1. n \in Nat
    BY FS_CardinalityType
  <1>2. keys \in [1..n -> D] /\ \A i, j \in 1..n : i # j => keys[i] # keys[j]
    BY DEF SetToSeqs
  <1>3. IsFiniteSet(1..n) /\ Cardinality(1..n) = n
    <2>1. 1 \in Int /\ n \in Int
      BY <1>1
    <2>2. IsFiniteSet(1..n) /\ Cardinality(1..n) = IF 1 > n THEN 0 ELSE n - 1 + 1
      BY <2>1, FS_Interval
    <2> QED
      BY <1>1, <2>2
  <1>4. n = Cardinality(D)
    OBVIOUS
  <1> HIDE DEF n
  <1>5. keys \in Injection(1..n, D)
    BY <1>2 DEF Injection, IsInjective
  <1>6. keys \in Surjection(1..n, D)
    BY <1>3, <1>4, <1>5, FS_Injection
  <1>7. \A k \in D : \E i \in 1..n : keys[i] = k
    BY <1>6 DEF Surjection
  <1>8. keys \in Seq(D) /\ Len(keys) = n /\ DOMAIN keys = 1..n
    BY <1>1, <1>2, SeqDef
  <1> QED
    BY <1>1, <1>2, <1>7, <1>8 DEF Enumerates

(***************************************************************************)
(* The fields of a line, as Decode takes them.                             *)
(***************************************************************************)
Fields(line) == LET split == Split(line, Tab)
                IN  [j \in DOMAIN split |-> TrimReturn(split[j])]

LEMMA TrimReturnType ==
    ASSUME NEW t \in Seq(Token)
    PROVE  /\ TrimReturn(t) \in Seq(Token)
           /\ t = Empty \/ Last(t) # Return => TrimReturn(t) = t
  <1>1. Front(t) \in Seq(Token)
    <2>1. Len(t) \in Nat /\ \A i \in 1..Len(t) : t[i] \in Token
      BY LenProperties, ElementOfSeq
    <2>2. 1 \in Int /\ Len(t) - 1 \in Int /\ \A i \in 1..(Len(t) - 1) : t[i] \in Token
      BY <2>1
    <2>3. SubSeq(t, 1, Len(t) - 1) \in Seq(Token)
      BY <2>2, SubSeqProperties
    <2> QED
      BY <2>3 DEF Front
  <1> QED
    BY <1>1 DEF TrimReturn

LEMMA FieldsType ==
    ASSUME NEW line \in Seq(Token)
    PROVE  Fields(line) \in Seq(Seq(Token))
  <1> DEFINE split == Split(line, Tab)
             r == Fields(line)
  <1>1. split \in Seq(Seq(Token))
    BY SplitType
  <1>2. PICK n \in Nat : Len(split) = n /\ DOMAIN split = 1..n
    BY <1>1, LenProperties
  <1>3. \A j \in 1..n : TrimReturn(split[j]) \in Seq(Token)
    BY <1>1, <1>2, ElementOfSeq, TrimReturnType
  <1>4. r = [j \in 1..n |-> TrimReturn(split[j])]
    BY <1>2 DEF Fields
  <1>5. r \in [1..n -> Seq(Token)]
    BY <1>3, <1>4
  <1> HIDE DEF r
  <1> QED
    BY <1>5, SeqDef DEF r

\* The parts of a line that hold no tab, and end with no carriage return, are
\* the fields that are read.
LEMMA FieldsOfJoin ==
    ASSUME NEW parts \in Seq(Seq(Token \ {Tab})), parts # <<>>,
           \A i \in DOMAIN parts : parts[i] = Empty \/ Last(parts[i]) # Return
    PROVE  Fields(Join(parts, Tab)) = parts
  <1>1. Tab \in Token
    BY DEF Token
  <1>2. Split(Join(parts, Tab), Tab) = parts
    BY <1>1, SplitJoin
  <1>3. PICK n \in Nat : Len(parts) = n /\ DOMAIN parts = 1..n
    BY LenProperties
  <1>4. parts = [i \in 1..n |-> parts[i]]
    BY <1>3, LenProperties
  <1>5. ASSUME NEW i \in 1..n
        PROVE  TrimReturn(parts[i]) = parts[i]
    <2>1. parts[i] \in Seq(Token \ {Tab})
      BY <1>3, ElementOfSeq
    <2>2. parts[i] \in Seq(Token)
      BY <2>1, SeqMonotonic
    <2> QED
      BY <1>3, <2>2, TrimReturnType
  <1> QED
    BY <1>2, <1>3, <1>4, <1>5 DEF Fields

LEMMA FieldsOfOne ==
    ASSUME NEW t \in Seq(Token \ {Tab}), t = Empty \/ Last(t) # Return
    PROVE  Fields(t) = <<t>>
  <1>1. Split(t, Tab) = <<t>>
    BY SplitPlain
  <1>2. t \in Seq(Token)
    BY SeqMonotonic
  <1>3. TrimReturn(t) = t
    BY <1>2, TrimReturnType
  <1> QED
    BY <1>1, <1>3 DEF Fields

(***************************************************************************)
(* The lines of a text that Encode writes.                                 *)
(***************************************************************************)
\* Four lines, and what is behind them.
InLines(a, b, k, v, e, d) == Append(a, d) \o (Append(b, d) \o (Append(k, d) \o (Append(v, d) \o e)))

AreLines(S, a, b, k, v, e, d) ==
    /\ d \in S /\ v \in Seq(S) /\ e \in Seq(S)
    /\ a \in Seq(S \ {d}) /\ b \in Seq(S \ {d}) /\ k \in Seq(S \ {d})

SplitInLines(t, S, a, b, k, v, d) ==
    /\ t \in Seq(S)
    /\ Split(t, d)[1] = a /\ Split(t, d)[2] = b /\ Split(t, d)[3] = k
    /\ Split(t, d)[4] \in Seq(S)
    /\ v \in Seq(S \ {d}) => Split(t, d)[4] = v

LEMMA FourLines ==
    ASSUME NEW S, NEW a, NEW b, NEW k, NEW v, NEW e, NEW d, AreLines(S, a, b, k, v, e, d)
    PROVE  SplitInLines(InLines(a, b, k, v, e, d), S, a, b, k, v, d)
  <1> DEFINE T == S \ {d}
             t == InLines(a, b, k, v, e, d)
  <1>0. d \in S /\ v \in Seq(S) /\ e \in Seq(S)
    BY DEF AreLines
  <1>1. d \notin T /\ T \subseteq S
    OBVIOUS
  <1>2. a \in Seq(T) /\ b \in Seq(T) /\ k \in Seq(T)
    BY DEF AreLines
  <1> HIDE DEF T
  <1>3. a \in Seq(S) /\ b \in Seq(S) /\ k \in Seq(S)
    BY <1>1, <1>2, SeqMonotonic
  <1>4. Split(a, d) = <<a>> /\ Split(b, d) = <<b>> /\ Split(k, d) = <<k>>
    BY <1>1, <1>2, SplitPlain
  <1>5. PICK r \in Seq(S) : r = Append(v, d) \o e
    BY <1>0, AppendProperties, ConcatProperties
  <1>6. PICK q \in Seq(S) : q = Append(k, d) \o r
    BY <1>0, <1>3, AppendProperties, ConcatProperties
  <1>7. PICK p \in Seq(S) : p = Append(b, d) \o q
    BY <1>0, <1>3, AppendProperties, ConcatProperties
  <1>8. t = Append(a, d) \o p
    BY <1>5, <1>6, <1>7 DEF InLines
  <1> HIDE DEF t
  <1>9. t \in Seq(S)
    BY <1>0, <1>3, <1>8, AppendProperties, ConcatProperties
  <1>10. /\ Split(t, d) = <<a>> \o Split(p, d)
         /\ Split(p, d) = <<b>> \o Split(q, d)
         /\ Split(q, d) = <<k>> \o Split(r, d)
         /\ Split(r, d) = Split(v, d) \o Split(e, d)
    <2>1. Split(t, d) = Split(a, d) \o Split(p, d)
      BY <1>0, <1>3, <1>8, SplitConcat
    <2>2. Split(p, d) = Split(b, d) \o Split(q, d)
      BY <1>0, <1>3, <1>7, SplitConcat
    <2>3. Split(q, d) = Split(k, d) \o Split(r, d)
      BY <1>0, <1>3, <1>6, SplitConcat
    <2>4. Split(r, d) = Split(v, d) \o Split(e, d)
      BY <1>0, <1>5, SplitConcat
    <2> QED
      BY <1>4, <2>1, <2>2, <2>3, <2>4
  <1> DEFINE L == Seq(S)
             x == Split(v, d)
             y == Split(e, d)
             z == Split(r, d)
  <1>11. x \in Seq(L) /\ x # <<>> /\ y \in Seq(L) /\ z \in Seq(L)
    BY <1>0, SplitType
  <1>12. z = x \o y
    BY <1>10
  <1>13. a \in L /\ b \in L /\ k \in L
    BY <1>3
  <1>14. v \in Seq(T) => x = <<v>>
    BY <1>1, SplitPlain
  <1>15. \A l \in Seq(S) : l \in L
    OBVIOUS
  <1>16. Split(t, d) = <<a>> \o (<<b>> \o (<<k>> \o z))
    BY <1>10
  <1> HIDE DEF x, y, z
  <1>17. z[1] = x[1] /\ x[1] \in L /\ Len(z) >= 1
    <2> HIDE DEF L
    <2>1. Len(x) >= 1 /\ Len(x) \in Nat /\ 1 \in 1..Len(x) /\ Len(y) \in Nat
      BY <1>11, EmptySeq, LenProperties
    <2>2. x[1] \in L
      BY <1>11, <2>1, ElementOfSeq
    <2> QED
      BY <1>11, <1>12, <2>1, <2>2, ConcatProperties
  <1>18. v \in Seq(T) => x[1] = v
    BY <1>14
  <1> DEFINE w == Split(t, d)
  <1>19. w[1] = a /\ w[2] = b /\ w[3] = k /\ w[4] = z[1]
    <2>1. w = <<a>> \o (<<b>> \o (<<k>> \o z))
      BY <1>16
    <2> HIDE DEF w, L
    <2>2. <<a>> \in Seq(L) /\ <<b>> \in Seq(L) /\ <<k>> \in Seq(L)
      BY <1>13
    <2> QED
      BY <1>11, <1>17, <2>1, <2>2
  <1> QED
    BY <1>9, <1>17, <1>18, <1>19 DEF L, T, t, SplitInLines

\* The keys as fields, and the values in the order of the keys.
KeyFields(keys) == [i \in DOMAIN keys |-> <<keys[i]>>]
ValueFields(map, keys) == [i \in DOMAIN keys |-> map[keys[i]]]

Mapping(map, D, S) == map \in [D -> Seq(S)]

LEMMA Characters ==
    /\ {Tab, NewLine, Return, Mark, "1", "main", "number"} \subseteq Token
    /\ Words \subseteq Token \ {Tab, NewLine, Return}
    /\ {Mark, "1", "main", "number"} \cap {Tab, NewLine, Return} = {}
    /\ Tab # NewLine /\ Tab # Return /\ NewLine # Return
  BY MetadataAssumption DEF Token, Tab, NewLine, Return, Mark

LEMMA KeyFieldsType ==
    ASSUME NEW D, D \subseteq Words, NEW n, NEW keys, Enumerates(keys, D, n)
    PROVE  /\ KeyFields(keys) \in Seq(Seq(Token \ {Tab, NewLine}))
           /\ Len(KeyFields(keys)) = n /\ DOMAIN KeyFields(keys) = 1..n
           /\ \A i \in 1..n : KeyFields(keys)[i] = <<keys[i]>> /\ keys[i] \in D
  <1>1. n \in Nat /\ DOMAIN keys = 1..n /\ \A i \in 1..n : keys[i] \in D
    BY ElementOfSeq DEF Enumerates
  <1>2. D \subseteq Token \ {Tab, NewLine}
    BY Characters
  <1> DEFINE T == Token \ {Tab, NewLine}
             r == KeyFields(keys)
  <1>3. \A i \in 1..n : <<keys[i]>> \in Seq(T)
    BY <1>1, <1>2
  <1> HIDE DEF T
  <1>4. r \in [1..n -> Seq(T)] /\ \A i \in 1..n : r[i] = <<keys[i]>>
    BY <1>1, <1>3 DEF KeyFields
  <1> HIDE DEF r
  <1>5. r \in Seq(Seq(T)) /\ Len(r) = n /\ DOMAIN r = 1..n
    BY <1>1, <1>4, SeqDef
  <1> QED
    BY <1>1, <1>4, <1>5 DEF r, T

LEMMA ValueFieldsType ==
    ASSUME NEW S, NEW D, NEW map, Mapping(map, D, S), NEW n, NEW keys, Enumerates(keys, D, n)
    PROVE  /\ ValueFields(map, keys) \in Seq(Seq(S))
           /\ Len(ValueFields(map, keys)) = n /\ DOMAIN ValueFields(map, keys) = 1..n
           /\ \A i \in 1..n : ValueFields(map, keys)[i] = map[keys[i]]
  <1>1. n \in Nat /\ DOMAIN keys = 1..n /\ \A i \in 1..n : keys[i] \in D
    BY ElementOfSeq DEF Enumerates
  <1> DEFINE r == ValueFields(map, keys)
  <1>2. r \in [1..n -> Seq(S)] /\ \A i \in 1..n : r[i] = map[keys[i]]
    BY <1>1 DEF ValueFields, Mapping
  <1> HIDE DEF r
  <1>3. r \in Seq(Seq(S)) /\ Len(r) = n /\ DOMAIN r = 1..n
    BY <1>1, <1>2, SeqDef
  <1> QED
    BY <1>2, <1>3 DEF r

\* The two ways to put three texts together: a name that leaves the provers
\* one way to apply Regroup.
Grouped(s, t, u) == (s \o t) \o u = s \o (t \o u)

LEMMA Regroup ==
    ASSUME NEW s \in Seq(Token), NEW t \in Seq(Token), NEW u \in Seq(Token)
    PROVE  Grouped(s, t, u)
  BY ConcatAssociative DEF Grouped

\* What Encode puts together: the mark, the keys, the values and the last line.
Assembled(M, K, V, E) ==
    M \o <<"1", NewLine, "main", NewLine>> \o K \o <<NewLine>> \o V \o <<NewLine>> \o E

LEMMA FourLinesOfEncoded ==
    ASSUME NEW M \in Seq(Token), NEW K \in Seq(Token), NEW V \in Seq(Token), NEW E \in Seq(Token)
    PROVE  Assembled(M, K, V, E) = InLines(M \o <<"1">>, <<"main">>, K, V, E, NewLine)
  <1> DEFINE N == <<NewLine>>
             one == <<"1">>
             main == <<"main">>
             top == <<"1", NewLine, "main", NewLine>>
  <1>1. N \in Seq(Token) /\ one \in Seq(Token) /\ main \in Seq(Token) /\ top \in Seq(Token)
    BY Characters
  <1>2. /\ Append(M \o one, NewLine) = (M \o one) \o N
        /\ Append(main, NewLine) = main \o N
        /\ Append(K, NewLine) = K \o N
        /\ Append(V, NewLine) = V \o N
    <2>1. M \o one \in Seq(Token)
      BY <1>1, ConcatProperties
    <2> QED
      BY <1>1, <2>1, AppendIsConcat, Characters
  <1>3. top = one \o (N \o (main \o N))
    OBVIOUS
  <1> HIDE DEF N, one, main, top
  <1>4. PICK v : v \in Seq(Token) /\ v = N \o E
    BY <1>1, ConcatProperties
  <1>5. PICK w : w \in Seq(Token) /\ w = V \o v
    BY <1>4, ConcatProperties
  <1>6. PICK x : x \in Seq(Token) /\ x = N \o w
    BY <1>1, <1>5, ConcatProperties
  <1>7. PICK y : y \in Seq(Token) /\ y = K \o x
    BY <1>6, ConcatProperties
  <1>8. PICK a : a \in Seq(Token) /\ a = M \o top
    BY <1>1, ConcatProperties
  <1>9. PICK b : b \in Seq(Token) /\ b = a \o K
    BY <1>8, ConcatProperties
  <1>10. PICK c : c \in Seq(Token) /\ c = b \o N
    BY <1>1, <1>9, ConcatProperties
  <1>11. PICK e : e \in Seq(Token) /\ e = c \o V
    BY <1>10, ConcatProperties
  <1>12. PICK f : f \in Seq(Token) /\ f = e \o N
    BY <1>1, <1>11, ConcatProperties
  <1>13. f \o E = a \o y
    <2>1. (e \o N) \o E = e \o (N \o E)
      <3>1. Grouped(e, N, E)
        BY <1>1, <1>11, Regroup
      <3> QED
        BY <3>1 DEF Grouped
    <2>2. (c \o V) \o v = c \o (V \o v)
      <3>1. Grouped(c, V, v)
        BY <1>4, <1>10, Regroup
      <3> QED
        BY <3>1 DEF Grouped
    <2>3. (b \o N) \o w = b \o (N \o w)
      <3>1. Grouped(b, N, w)
        BY <1>1, <1>5, <1>9, Regroup
      <3> QED
        BY <3>1 DEF Grouped
    <2>4. (a \o K) \o x = a \o (K \o x)
      <3>1. Grouped(a, K, x)
        BY <1>6, <1>8, Regroup
      <3> QED
        BY <3>1 DEF Grouped
    <2> QED
      BY <1>4, <1>5, <1>6, <1>7, <1>9, <1>10, <1>11, <1>12, <2>1, <2>2, <2>3, <2>4
  <1>14. PICK g : g \in Seq(Token) /\ g = main \o N
    BY <1>1, ConcatProperties
  <1>15. PICK h : h \in Seq(Token) /\ h = N \o g
    BY <1>1, <1>14, ConcatProperties
  <1>16. PICK j : j \in Seq(Token) /\ j = M \o one
    BY <1>1, ConcatProperties
  <1>17. PICK l : l \in Seq(Token) /\ l = j \o N
    BY <1>1, <1>16, ConcatProperties
  <1>18. a = l \o g
    <2>1. (M \o one) \o h = M \o (one \o h)
      <3>1. Grouped(M, one, h)
        BY <1>1, <1>15, Regroup
      <3> QED
        BY <3>1 DEF Grouped
    <2>2. (j \o N) \o g = j \o (N \o g)
      <3>1. Grouped(j, N, g)
        BY <1>1, <1>14, <1>16, Regroup
      <3> QED
        BY <3>1 DEF Grouped
    <2> QED
      BY <1>3, <1>8, <1>14, <1>15, <1>16, <1>17, <2>1, <2>2
  <1>19. (l \o g) \o y = l \o (g \o y)
    <2>1. Grouped(l, g, y)
      BY <1>7, <1>14, <1>17, Regroup
    <2> QED
      BY <2>1 DEF Grouped
  <1>20. /\ (V \o N) \o E = V \o (N \o E)
         /\ (K \o N) \o w = K \o (N \o w)
    <2>1. (V \o N) \o E = V \o (N \o E)
      <3>1. Grouped(V, N, E)
        BY <1>1, Regroup
      <3> QED
        BY <3>1 DEF Grouped
    <2>2. (K \o N) \o w = K \o (N \o w)
      <3>1. Grouped(K, N, w)
        BY <1>1, <1>5, Regroup
      <3> QED
        BY <3>1 DEF Grouped
    <2> QED
      BY <2>1, <2>2
  <1>21. /\ a \o y = l \o (g \o y)
         /\ Append(K, NewLine) \o (Append(V, NewLine) \o E) = y
    BY <1>2, <1>4, <1>5, <1>6, <1>7, <1>18, <1>19, <1>20
  <1> QED
    BY <1>2, <1>8, <1>9, <1>10, <1>11, <1>12, <1>13, <1>14, <1>16, <1>17, <1>21, Zenon
       DEF N, one, main, top, Assembled, InLines

\* What the first four lines are.
Lines(lines, map, keys) ==
    /\ lines[1] \in {<<"1">>, <<Mark, "1">>}
    /\ lines[2] = <<"main">>
    /\ lines[3] = Join(KeyFields(keys), Tab)
    /\ lines[4] \in Seq(Token)
    /\ Join(ValueFields(map, keys), Tab) \in Seq(Token \ {NewLine})
         => lines[4] = Join(ValueFields(map, keys), Tab)

LEMMA EncodedLines ==
    ASSUME NEW D, D \subseteq Words, NEW map, Mapping(map, D, Token), NEW n, NEW keys,
           Enumerates(keys, D, n)
    PROVE  /\ Encoded(map, keys) \in Seq(Token)
           /\ Lines(Split(Encoded(map, keys), NewLine), map, keys)
  <1> DEFINE M == IF kind = "header" THEN Empty ELSE <<Mark>>
             E == IF kind = "header" THEN Empty ELSE <<NewLine>>
             K == Join(KeyFields(keys), Tab)
             V == Join(ValueFields(map, keys), Tab)
             a == M \o <<"1">>
             b == <<"main">>
  <1>1. M \in Seq(Token) /\ E \in Seq(Token)
    BY Characters DEF Empty
  <1>2. K \in Seq(Token \ {NewLine})
    <2> DEFINE T == Token \ {NewLine}
    <2>1. Tab \in T /\ Token \ {Tab, NewLine} \subseteq T
      BY Characters
    <2>2. KeyFields(keys) \in Seq(Seq(Token \ {Tab, NewLine}))
      BY KeyFieldsType
    <2> HIDE DEF T
    <2>3. Seq(Token \ {Tab, NewLine}) \subseteq Seq(T)
      BY <2>1, SeqMonotonic
    <2>4. KeyFields(keys) \in Seq(Seq(T))
      BY <2>2, <2>3, SeqMonotonic
    <2> QED
      BY <2>1, <2>4, JoinType DEF T
  <1>3. V \in Seq(Token)
    <2>1. ValueFields(map, keys) \in Seq(Seq(Token))
      BY ValueFieldsType
    <2> QED
      BY <2>1, Characters, JoinType
  <1>4. a \in {<<"1">>, <<Mark, "1">>} /\ a \in Seq(Token \ {NewLine})
    <2>1. Mark \in Token \ {NewLine} /\ "1" \in Token \ {NewLine}
      BY Characters
    <2>2. <<"1">> \in Seq(Token \ {NewLine}) /\ <<Mark, "1">> \in Seq(Token \ {NewLine})
      BY <2>1
    <2>3. Empty \o <<"1">> = <<"1">>
      BY <2>2, ConcatEmptySeq DEF Empty
    <2>4. <<Mark>> \o <<"1">> = <<Mark, "1">>
      <3> DEFINE x == <<Mark>>
                 y == <<"1">>
                 z == <<Mark, "1">>
      <3>1. x \in Seq(Token) /\ y \in Seq(Token) /\ z \in Seq(Token)
        BY Characters
      <3>2. Len(x) = 1 /\ Len(y) = 1 /\ Len(z) = 2
        OBVIOUS
      <3>3. x[1] = Mark /\ y[1] = "1" /\ z[1] = Mark /\ z[2] = "1"
        OBVIOUS
      <3> HIDE DEF x, y, z
      <3>4. /\ x \o y \in Seq(Token) /\ Len(x \o y) = 2
            /\ (x \o y)[1] = Mark /\ (x \o y)[2] = "1"
        BY <3>1, <3>2, <3>3, ConcatProperties, Z3
      <3>5. \A i \in 1..2 : (x \o y)[i] = z[i]
        BY <3>3, <3>4
      <3>6. x \o y = z
        BY <3>1, <3>2, <3>4, <3>5, SeqEqual
      <3> QED
        BY <3>6 DEF x, y, z
    <2>5. a = Empty \o <<"1">> \/ a = <<Mark>> \o <<"1">>
      OBVIOUS
    <2> HIDE DEF a
    <2> QED
      BY <2>2, <2>3, <2>4, <2>5
  <1>5. b \in Seq(Token \ {NewLine})
    <2>1. "main" \in Token \ {NewLine}
      BY Characters
    <2> QED
      BY <2>1
  <1>6. K \in Seq(Token)
    BY <1>2, SeqMonotonic
  <1>7. Encoded(map, keys) = Assembled(M, K, V, E)
    BY DEF Encoded, KeyFields, ValueFields, Assembled
  <1> HIDE DEF M, E, K, V
  <1>8. Encoded(map, keys) = InLines(a, b, K, V, E, NewLine)
    BY <1>1, <1>3, <1>6, <1>7, FourLinesOfEncoded
  <1> DEFINE t == Encoded(map, keys)
             lines == Split(t, NewLine)
  <1>9. lines = Split(t, NewLine)
    OBVIOUS
  <1>10. NewLine \in Token
    BY Characters
  <1> HIDE DEF lines, t, a, b
  <1>11. t = InLines(a, b, K, V, E, NewLine)
    BY <1>8 DEF t
  <1>12. /\ t \in Seq(Token)
         /\ lines[1] = a /\ lines[2] = b /\ lines[3] = K
         /\ lines[4] \in Seq(Token)
         /\ V \in Seq(Token \ {NewLine}) => lines[4] = V
    <2>1. AreLines(Token, a, b, K, V, E, NewLine)
      BY <1>1, <1>2, <1>3, <1>4, <1>5, <1>10 DEF AreLines
    <2>2. SplitInLines(t, Token, a, b, K, V, NewLine)
      BY <1>11, <2>1, FourLines
    <2> QED
      BY <1>9, <2>2 DEF SplitInLines
  <1> QED
    BY <1>4, <1>12 DEF lines, t, b, K, V, Lines

(***************************************************************************)
(* What Decode takes from those lines.                                     *)
(***************************************************************************)
LEMMA FieldsOfTop ==
    \A line \in {<<"1">>, <<Mark, "1">>, <<"main">>} :
       Fields(line) = <<line>> /\ Last(Fields(line)) = line /\ Head(line) \in Token
  <1> DEFINE T == Token \ {Tab, NewLine, Return}
  <1>1. "1" \in T /\ Mark \in T /\ "main" \in T
    BY Characters
  <1>2. ASSUME NEW line \in {<<"1">>, <<Mark, "1">>, <<"main">>}
        PROVE  Fields(line) = <<line>> /\ Last(Fields(line)) = line /\ Head(line) \in Token
    <2> HIDE DEF T
    <2>1. line \in Seq(T) /\ Len(line) \in 1..2 /\ Head(line) \in T /\ Last(line) \in T
      BY <1>1 DEF Last
    <2>2. T \subseteq Token \ {Tab} /\ Return \notin T /\ T \subseteq Token
      BY DEF T
    <2>3. line \in Seq(Token \ {Tab}) /\ Last(line) # Return
      BY <2>1, <2>2, SeqMonotonic
    <2>4. Fields(line) = <<line>>
      BY <2>3, FieldsOfOne
    <2>5. Last(<<line>>) = line
      BY DEF Last
    <2> QED
      BY <2>1, <2>2, <2>4, <2>5
  <1> QED
    BY <1>2

\* The keys are read back, in their order, if there are any.
LEMMA FieldsOfKeys ==
    ASSUME NEW D, D \subseteq Words, NEW n, n # 0, NEW keys, Enumerates(keys, D, n)
    PROVE  Fields(Join(KeyFields(keys), Tab)) = KeyFields(keys)
  <1> DEFINE r == KeyFields(keys)
             T == Token \ {Tab, NewLine}
  <1>1. /\ r \in Seq(Seq(T)) /\ Len(r) = n /\ DOMAIN r = 1..n
        /\ \A i \in 1..n : r[i] = <<keys[i]>> /\ keys[i] \in D
    BY KeyFieldsType
  <1>2. T \subseteq Token \ {Tab}
    OBVIOUS
  <1> HIDE DEF r, T
  <1>3. r \in Seq(Seq(Token \ {Tab})) /\ r # <<>>
    <2>1. Seq(T) \subseteq Seq(Token \ {Tab})
      BY <1>2, SeqMonotonic
    <2> QED
      BY <1>1, <2>1, SeqMonotonic, EmptySeq
  <1>4. ASSUME NEW i \in DOMAIN r
        PROVE  Last(r[i]) # Return
    <2>1. r[i] = <<keys[i]>> /\ keys[i] \in Words
      BY <1>1
    <2>2. keys[i] # Return
      BY <2>1, Characters
    <2>3. Last(<<keys[i]>>) = keys[i]
      BY DEF Last
    <2> QED
      BY <2>1, <2>2, <2>3
  <1> QED
    BY <1>3, <1>4, FieldsOfJoin DEF r

\* No key is read as an empty one.
LEMMA FieldsOfNoKeys ==
    ASSUME NEW D, NEW keys, Enumerates(keys, D, 0)
    PROVE  Fields(Join(KeyFields(keys), Tab)) = <<Empty>>
  <1>1. keys = <<>>
    BY EmptySeq DEF Enumerates
  <1>2. KeyFields(keys) = <<>>
    BY <1>1 DEF KeyFields
  <1>3. Join(KeyFields(keys), Tab) = Empty
    BY <1>2, JoinEmpty DEF Empty
  <1>4. Empty \in Seq(Token \ {Tab})
    BY EmptySeq DEF Empty
  <1> QED
    BY <1>3, <1>4, FieldsOfOne

\* Plain values stay in one line, and are read back.
LEMMA FieldsOfPlainValues ==
    ASSUME NEW D, NEW map, Mapping(map, D, Token), \A k \in D : Plain(map[k]),
           NEW n, n # 0, NEW keys, Enumerates(keys, D, n)
    PROVE  /\ Join(ValueFields(map, keys), Tab) \in Seq(Token \ {NewLine})
           /\ Fields(Join(ValueFields(map, keys), Tab)) = ValueFields(map, keys)
  <1> DEFINE r == ValueFields(map, keys)
             T == Token \ {Tab, NewLine}
  <1>1. ASSUME NEW k \in D
        PROVE  map[k] \in Seq(T)
    <2>1. map[k] \in Seq(Token) /\ \A i \in DOMAIN map[k] : map[k][i] \notin {Tab, NewLine}
      BY DEF Mapping, Plain
    <2> DEFINE v == map[k]
    <2>2. v \in Seq(Token) /\ \A i \in DOMAIN v : v[i] \notin {Tab, NewLine}
      BY <2>1
    <2> HIDE DEF v
    <2>3. PICK m \in Nat : Len(v) = m /\ DOMAIN v = 1..m
      BY <2>2, LenProperties
    <2>4. \A i \in 1..m : v[i] \in T
      BY <2>2, <2>3, ElementOfSeq
    <2>5. v = [i \in 1..m |-> v[i]]
      BY <2>2, <2>3, LenProperties
    <2>6. v \in [1..m -> T]
      BY <2>4, <2>5
    <2>7. v \in Seq(T)
      BY <2>6, SeqDef
    <2> QED
      BY <2>7 DEF v
  <1>2. map = [k \in D |-> map[k]]
    BY DEF Mapping
  <1>3. /\ r \in Seq(Seq(T)) /\ Len(r) = n /\ DOMAIN r = 1..n
        /\ \A i \in 1..n : r[i] = map[keys[i]]
    <2>1. Mapping(map, D, T)
      BY <1>1, <1>2 DEF Mapping
    <2> HIDE DEF T
    <2> QED
      BY <2>1, ValueFieldsType
  <1>4. T \subseteq Token \ {Tab} /\ T \subseteq Token \ {NewLine} /\ Tab \in Token \ {NewLine}
    BY Characters
  <1> HIDE DEF r, T
  <1>5. r \in Seq(Seq(Token \ {Tab})) /\ r # <<>>
    <2>1. Seq(T) \subseteq Seq(Token \ {Tab})
      BY <1>4, SeqMonotonic
    <2> QED
      BY <1>3, <2>1, SeqMonotonic, EmptySeq
  <1>6. Join(r, Tab) \in Seq(Token \ {NewLine})
    <2> DEFINE U == Token \ {NewLine}
    <2>1. Seq(T) \subseteq Seq(U) /\ Tab \in U
      BY <1>4, SeqMonotonic
    <2> HIDE DEF U
    <2>2. r \in Seq(Seq(U))
      BY <1>3, <2>1, SeqMonotonic
    <2> QED
      BY <2>1, <2>2, JoinType DEF U
  <1>7. ASSUME NEW i \in DOMAIN r
        PROVE  r[i] = Empty \/ Last(r[i]) # Return
    <2>1. r[i] = map[keys[i]] /\ keys[i] \in D
      BY <1>3, ElementOfSeq DEF Enumerates
    <2> QED
      BY <2>1 DEF Plain
  <1>8. Fields(Join(r, Tab)) = r
    BY <1>5, <1>7, FieldsOfJoin
  <1> QED
    BY <1>6, <1>8 DEF r

LEMMA ToMapOfKeys ==
    ASSUME NEW D, NEW n, NEW keys, Enumerates(keys, D, n), NEW values
    PROVE  /\ DOMAIN ToMap(keys, values) = D
           /\ ToMap(keys, values) = [k \in D |-> ToMap(keys, values)[k]]
           /\ \A i \in 1..n : ToMap(keys, values)[keys[i]] = values[i]
  <1>1. /\ n \in Nat /\ DOMAIN keys = 1..n /\ \A i \in 1..n : keys[i] \in D
        /\ \A i, j \in 1..n : keys[i] = keys[j] => i = j
        /\ \A k \in D : \E i \in 1..n : keys[i] = k
    BY ElementOfSeq DEF Enumerates
  <1>2. ToSet(keys) = D
    BY <1>1 DEF ToSet
  <1> DEFINE r == ToMap(keys, values)
  <1>3. r = [k \in D |-> values[Max({i \in DOMAIN keys : keys[i] = k})]]
    BY <1>2 DEF ToMap
  <1>4. ASSUME NEW j \in 1..n
        PROVE  r[keys[j]] = values[j]
    <2>1. {i \in DOMAIN keys : keys[i] = keys[j]} = {j}
      BY <1>1
    <2>2. Max({j}) = j
      BY <1>1 DEF Max
    <2> HIDE DEF r
    <2> QED
      BY <1>1, <1>3, <2>1, <2>2
  <1> HIDE DEF r
  <1> QED
    BY <1>3, <1>4 DEF r

(***************************************************************************)
(* The inductive invariant: a map of finitely many keys, which is written  *)
(* in some order of its keys after Start has set its own.                  *)
(***************************************************************************)
WrittenText ==
    phase = "written" => \E keys \in SetToSeqs(DOMAIN given) : text = Encoded(given, keys)

OwnNumbers ==
    phase # "adding" => \A k \in Own[kind] : k \in DOMAIN given /\ given[k] = Number

CodecInv ==
    /\ TypeOK
    /\ given \in [DOMAIN given -> Seq(Token)] /\ IsFiniteSet(DOMAIN given)
    /\ OwnNumbers /\ WrittenText
    /\ PlainMetadataSurvives /\ KeysSurvive

\* A map over another: the keys of both.
LEMMA MapOver ==
    ASSUME NEW D, NEW E, IsFiniteSet(D), IsFiniteSet(E),
           NEW f, Mapping(f, D, Token), NEW g, Mapping(g, E, Token)
    PROVE  Mapping(Over(f, g), D \cup E, Token) /\ IsFiniteSet(D \cup E)
  <1>1. Over(f, g) = [x \in D \cup E |-> IF x \in D THEN f[x] ELSE g[x]]
    BY DEF Over, Mapping
  <1>2. IsFiniteSet(D \cup E)
    BY FS_Union
  <1> QED
    BY <1>1, <1>2 DEF Mapping

LEMMA KnownKeys ==
    ASSUME kind \in Kinds
    PROVE  /\ IsFiniteSet(Known[kind]) /\ Preset[kind] \subseteq Known[kind]
           /\ Own[kind] \subseteq Known[kind] /\ IsFiniteSet(Preset[kind]) /\ IsFiniteSet(Own[kind])
           /\ Known[kind] \cup Others \subseteq Words
  <1>1. /\ IsFiniteSet(Known[kind]) /\ Preset[kind] \subseteq Known[kind]
        /\ Own[kind] \subseteq Known[kind] /\ Known[kind] \cup Others \subseteq Words
    BY MetadataAssumption
  <1> QED
    BY <1>1, FS_Subset

LEMMA InitInv == Init => CodecInv
  <1> SUFFICES ASSUME Init PROVE CodecInv
    OBVIOUS
  <1>1. /\ Preset[kind] \subseteq Known[kind] /\ IsFiniteSet(Preset[kind]) /\ MaxAdds \in Nat
        /\ Empty \in Seq(Token)
    BY KnownKeys, MetadataAssumption, EmptySeq DEF Init, Empty
  <1>2. given \in [Preset[kind] -> Seq(Token)] /\ DOMAIN given = Preset[kind]
    BY <1>1 DEF Init
  <1>3. /\ text \in Seq(Token) /\ read.objects \in Seq(Token) /\ read.name \in Seq(Token)
        /\ DOMAIN read.map = {}
    BY <1>1 DEF Init, NoSection, NoMap
  <1>4. TypeOK
    BY <1>1, <1>2, <1>3 DEF TypeOK, Init
  <1> QED
    BY <1>1, <1>2, <1>4
       DEF CodecInv, OwnNumbers, WrittenText, PlainMetadataSurvives, KeysSurvive, Tried, Init

LEMMA AddInv == CodecInv /\ Add => CodecInv'
  <1> SUFFICES ASSUME CodecInv, Add PROVE CodecInv'
    OBVIOUS
  <1>1. PICK k \in Known[kind] \cup Others, v \in Values : given' = Over([x \in {k} |-> v], given)
    BY DEF Add
  <1> DEFINE f == [x \in {k} |-> v]
             D == DOMAIN given
  <1>2. f \in [{k} -> Seq(Token)] /\ IsFiniteSet({k})
    <2>1. v \in Seq(Token)
      BY MetadataAssumption
    <2> QED
      BY <2>1, FS_Singleton
  <1>3. given \in [D -> Seq(Token)] /\ IsFiniteSet(D) /\ D \subseteq Known[kind] \cup Others
    BY DEF CodecInv, TypeOK
  <1> HIDE DEF f, D
  <1>4. /\ DOMAIN Over(f, given) = {k} \cup D /\ IsFiniteSet({k} \cup D)
        /\ Over(f, given) \in [{k} \cup D -> Seq(Token)]
    <2> DEFINE E == {k}
    <2>1. Mapping(f, E, Token) /\ IsFiniteSet(E) /\ Mapping(given, D, Token)
      BY <1>2, <1>3 DEF Mapping
    <2> HIDE DEF E
    <2>2. Mapping(Over(f, given), E \cup D, Token) /\ IsFiniteSet(E \cup D)
      BY <1>3, <2>1, MapOver
    <2> QED
      BY <2>2 DEF Mapping, E
  <1>5. /\ given' \in [DOMAIN given' -> Seq(Token)] /\ IsFiniteSet(DOMAIN given')
        /\ DOMAIN given' \subseteq Known[kind] \cup Others
    BY <1>1, <1>3, <1>4 DEF f
  <1>6. adds' \in 0..MaxAdds
    BY MetadataAssumption DEF CodecInv, TypeOK, Add
  <1>7. TypeOK'
    BY <1>5, <1>6 DEF CodecInv, TypeOK, Add
  <1>8. phase' = "adding"
    BY DEF Add
  <1> QED
    BY <1>5, <1>7, <1>8
       DEF CodecInv, OwnNumbers, WrittenText, PlainMetadataSurvives, KeysSurvive, Tried

LEMMA StartInv == CodecInv /\ Start => CodecInv'
  <1> SUFFICES ASSUME CodecInv, Start PROVE CodecInv'
    OBVIOUS
  <1> DEFINE f == [k \in Own[kind] |-> Number]
             D == DOMAIN given
  <1>1. /\ f \in [Own[kind] -> Seq(Token)] /\ IsFiniteSet(Own[kind])
        /\ Own[kind] \subseteq Known[kind] /\ \A k \in Own[kind] : f[k] = Number
        /\ Known[kind] \cup Others \subseteq Words
    <2>1. Number \in Seq(Token)
      BY Characters DEF Number
    <2> QED
      BY <2>1, KnownKeys DEF CodecInv, TypeOK
  <1>2. given \in [D -> Seq(Token)] /\ IsFiniteSet(D) /\ D \subseteq Known[kind] \cup Others
    BY DEF CodecInv, TypeOK
  <1>3. given' = Over(f, given)
    BY DEF Start
  <1> HIDE DEF f, D
  <1>4. /\ DOMAIN given' = Own[kind] \cup D /\ IsFiniteSet(Own[kind] \cup D)
        /\ given' \in [Own[kind] \cup D -> Seq(Token)]
        /\ \A k \in Own[kind] : given'[k] = f[k]
    <2> DEFINE E == Own[kind]
    <2>1. Mapping(f, E, Token) /\ IsFiniteSet(E) /\ Mapping(given, D, Token)
      BY <1>1, <1>2 DEF Mapping
    <2> HIDE DEF E
    <2>2. Mapping(Over(f, given), E \cup D, Token) /\ IsFiniteSet(E \cup D)
      BY <1>2, <2>1, MapOver
    <2>3. \A k \in E : Over(f, given)[k] = f[k]
      BY <2>1 DEF Over, Mapping
    <2> QED
      BY <1>3, <2>2, <2>3 DEF Mapping, E
  <1>5. /\ given' \in [DOMAIN given' -> Seq(Token)] /\ IsFiniteSet(DOMAIN given')
        /\ DOMAIN given' \subseteq Known[kind] \cup Others /\ DOMAIN given' \subseteq Words
    BY <1>1, <1>2, <1>4
  <1>6. kind' = kind /\ phase' = "written" /\ adds' = adds /\ read' = read
    BY DEF Start
  <1>7. PICK keys \in SetToSeqs(DOMAIN given') : text' = Encoded(given', keys)
    BY DEF Start
  <1>8. Encoded(given', keys) \in Seq(Token)
    <2> DEFINE E == DOMAIN given'
    <2>1. Mapping(given', E, Token) /\ E \subseteq Words /\ IsFiniteSet(E) /\ keys \in SetToSeqs(E)
      BY <1>5 DEF Mapping
    <2> HIDE DEF E
    <2>2. PICK n \in Nat : Enumerates(keys, E, n)
      BY <2>1, SetToSeqsEnumerates
    <2> QED
      BY <2>1, <2>2, EncodedLines
  <1>9. WrittenText'
    <2>1. Encoded(given, keys)' = Encoded(given', keys)
      BY <1>6 DEF Encoded
    <2> QED
      BY <1>7, <2>1 DEF WrittenText
  <1>10. TypeOK'
    BY <1>5, <1>6, <1>7, <1>8 DEF CodecInv, TypeOK
  <1>11. OwnNumbers'
    BY <1>1, <1>4, <1>6 DEF OwnNumbers
  <1> QED
    BY <1>5, <1>6, <1>9, <1>10, <1>11
       DEF CodecInv, PlainMetadataSurvives, KeysSurvive, Tried

LEMMA DecodeInv == CodecInv /\ Decode => CodecInv'
  <1> SUFFICES ASSUME CodecInv, Decode PROVE CodecInv'
    OBVIOUS
  <1> DEFINE D == DOMAIN given
             lines == Split(text, NewLine)
             K == Fields(lines[3])
             V == Fields(lines[4])
             U == Unknown(K)
             P == [i \in DOMAIN K |-> K[i][1]]
             objects == <<Head(Last(Fields(lines[1])))>>
             name == Last(Fields(lines[2]))
             section == [objects |-> objects, name |-> name, map |-> NoMap]
  <1>1. /\ Mapping(given, D, Token) /\ IsFiniteSet(D) /\ D \subseteq Known[kind] \cup Others
        /\ D \subseteq Words
    BY KnownKeys DEF CodecInv, TypeOK, Mapping
  <1>2. /\ phase = "written" /\ kind' = kind /\ given' = given /\ adds' = adds /\ text' = text
        /\ \/ U # {} /\ phase' = "error" /\ read' = section
           \/ U = {} /\ Len(V) < Len(K) /\ phase' = "panic" /\ read' = section
           \/ /\ U = {} /\ Len(V) >= Len(K) /\ phase' = "decoded"
              /\ read' = [section EXCEPT !.map = ToMap(P, V)]
    BY DEF Decode, Fields
  <1>3. PICK keys \in SetToSeqs(D) : text = Encoded(given, keys)
    BY <1>2 DEF CodecInv, WrittenText
  <1> HIDE DEF D
  <1>4. PICK n \in Nat : Enumerates(keys, D, n)
    BY <1>1, SetToSeqsEnumerates
  <1>5. /\ lines[1] \in {<<"1">>, <<Mark, "1">>}
        /\ lines[2] = <<"main">>
        /\ lines[3] = Join(KeyFields(keys), Tab)
        /\ lines[4] \in Seq(Token)
        /\ Join(ValueFields(given, keys), Tab) \in Seq(Token \ {NewLine})
             => lines[4] = Join(ValueFields(given, keys), Tab)
    <2>1. lines = Split(Encoded(given, keys), NewLine)
      BY <1>3
    <2>2. Lines(Split(Encoded(given, keys), NewLine), given, keys)
      BY <1>1, <1>4, EncodedLines
    <2> HIDE DEF lines
    <2> QED
      BY <2>1, <2>2 DEF Lines
  <1>6. objects \in Seq(Token) /\ name = <<"main">> /\ name \in Seq(Token)
    <2>1. /\ Last(Fields(lines[1])) = lines[1] /\ Head(lines[1]) \in Token
          /\ Last(Fields(lines[2])) = lines[2]
      BY <1>5, FieldsOfTop
    <2>2. <<"main">> \in Seq(Token)
      BY Characters
    <2>3. PICK c \in Token : c = Head(Last(Fields(lines[1])))
      BY <2>1
    <2>4. <<c>> \in Seq(Token) /\ objects = <<c>>
      BY <2>3
    <2>5. name = <<"main">>
      BY <1>5, <2>1
    <2> QED
      BY <2>2, <2>4, <2>5
  <1>7. V \in Seq(Seq(Token)) /\ Len(V) \in Nat /\ DOMAIN V = 1..Len(V)
    <2>1. V \in Seq(Seq(Token))
      BY <1>5, FieldsType
    <2> HIDE DEF V
    <2> QED
      BY <2>1, LenProperties
  <1>8. n # 0 => K = KeyFields(keys)
    BY <1>1, <1>4, <1>5, FieldsOfKeys
  <1>9. n = 0 => K = <<Empty>>
    BY <1>4, <1>5, FieldsOfNoKeys
  <1> HIDE DEF lines, V
  <1>10. U = {} => n # 0
    <2> SUFFICES ASSUME n = 0 PROVE U # {}
      OBVIOUS
    <2>1. DOMAIN K = {1} /\ K[1] = Empty
      BY <1>9
    <2>2. Empty \notin {<<k>> : k \in Known[kind]}
      BY DEF Empty
    <2>3. 1 \in U
      BY <2>1, <2>2 DEF Unknown
    <2> QED
      BY <2>3
  <1>11. /\ n \in Nat /\ keys \in Seq(D) /\ DOMAIN keys = 1..n
         /\ \A i \in 1..n : keys[i] \in D
         /\ \A k \in D : \E i \in 1..n : keys[i] = k
    BY <1>4, ElementOfSeq DEF Enumerates
  <1>12. ASSUME n # 0
         PROVE  Len(K) = n /\ DOMAIN K = 1..n /\ (\A i \in 1..n : K[i] = <<keys[i]>>) /\ P = keys
    <2>1. /\ Len(K) = n /\ DOMAIN K = 1..n
          /\ \A i \in 1..n : K[i] = <<keys[i]>>
      BY <1>1, <1>4, <1>8, <1>12, KeyFieldsType
    <2> HIDE DEF K
    <2>2. \A i \in 1..n : K[i][1] = keys[i]
      BY <2>1
    <2>3. P = [i \in 1..n |-> keys[i]]
      BY <2>1, <2>2
    <2>4. keys = [i \in 1..n |-> keys[i]]
      BY <1>11, LenProperties
    <2> QED
      BY <2>1, <2>3, <2>4
  <1> HIDE DEF K, P
  <1>13. n # 0 => (U = {} <=> D \subseteq Known[kind])
    <2> SUFFICES ASSUME n # 0 PROVE U = {} <=> D \subseteq Known[kind]
      OBVIOUS
    <2>1. U = {i \in 1..n : <<keys[i]>> \notin {<<k>> : k \in Known[kind]}}
      BY <1>12 DEF Unknown
    <2>2. \A x : <<x>> \in {<<k>> : k \in Known[kind]} <=> x \in Known[kind]
      OBVIOUS
    <2> QED
      BY <1>11, <2>1, <2>2
  <1> HIDE DEF U
  <1>14. ASSUME phase' = "decoded"
         PROVE  /\ n # 0 /\ D \subseteq Known[kind] /\ Len(V) >= n
                /\ read' = [section EXCEPT !.map = ToMap(keys, V)]
    <2>1. /\ U = {} /\ Len(V) >= Len(K)
          /\ read' = [section EXCEPT !.map = ToMap(P, V)]
      BY <1>2, <1>14
    <2> HIDE DEF section
    <2> QED
      BY <1>10, <1>12, <1>13, <2>1
  <1> DEFINE M == ToMap(keys, V)
  <1>15. /\ DOMAIN M = D /\ M = [k \in D |-> M[k]]
         /\ \A i \in 1..n : M[keys[i]] = V[i]
    BY <1>4, ToMapOfKeys
  <1> HIDE DEF M
  <1>16. ASSUME phase' = "decoded"
         PROVE  /\ read'.objects = objects /\ read'.name = name /\ read'.map = M
                /\ \A k \in D : M[k] \in Seq(Token)
    <2>1. read'.objects = objects /\ read'.name = name /\ read'.map = M
      BY <1>14, <1>16 DEF M
    <2>2. ASSUME NEW k \in D
          PROVE  M[k] \in Seq(Token)
      <3>1. PICK i \in 1..n : keys[i] = k
        BY <1>11
      <3>2. i \in 1..Len(V)
        BY <1>7, <1>11, <1>14, <1>16
      <3>3. V[i] \in Seq(Token)
        BY <1>7, <3>2, ElementOfSeq
      <3> QED
        BY <1>15, <3>1, <3>3
    <2> QED
      BY <2>1, <2>2
  <1>17. ASSUME phase' # "decoded"
         PROVE  /\ read'.objects = objects /\ read'.name = name /\ DOMAIN read'.map = {}
                /\ phase' \in {"error", "panic"}
    BY <1>2, <1>17 DEF NoMap
  <1>18. TypeOK'
    <2>1. kind \in Kinds /\ adds \in 0..MaxAdds /\ text \in Seq(Token)
      BY DEF CodecInv, TypeOK
    <2>2. phase' \in {"decoded", "error", "panic"}
      BY <1>17
    <2>3. /\ read'.objects \in Seq(Token) /\ read'.name \in Seq(Token)
      BY <1>6, <1>16, <1>17
    <2>4. \A k \in DOMAIN read'.map : k \in Known[kind] /\ read'.map[k] \in Seq(Token)
      <3>1. CASE phase' = "decoded"
        BY <1>14, <1>15, <1>16, <3>1
      <3>2. CASE phase' # "decoded"
        BY <1>17, <3>2
      <3> QED
        BY <3>1, <3>2
    <2> QED
      BY <1>1, <1>2, <2>1, <2>2, <2>3, <2>4 DEF TypeOK, D
  <1>19. KeysSurvive'
    BY <1>2, <1>6, <1>15, <1>16 DEF KeysSurvive, D
  <1>20. OwnNumbers' /\ \A k \in Own[kind] : k \in D /\ given[k] = Number
    BY <1>2 DEF CodecInv, OwnNumbers, D
  <1>21. PlainMetadataSurvives'
    <2> SUFFICES ASSUME given # NoMap, D \subseteq Known[kind], \A k \in D : Plain(given[k])
                 PROVE  /\ phase' = "decoded" /\ read'.map = given
                        /\ \A k \in Own[kind] : read'.map[k] = Number
      BY <1>2 DEF PlainMetadataSurvives, D
    <2>1. given = [k \in D |-> given[k]]
      BY <1>1 DEF Mapping
    <2>2. n # 0
      <3>1. D # {}
        BY <2>1 DEF NoMap
      <3> QED
        BY <1>11, <3>1
    <2>3. V = ValueFields(given, keys)
      <3>1. /\ Join(ValueFields(given, keys), Tab) \in Seq(Token \ {NewLine})
            /\ Fields(Join(ValueFields(given, keys), Tab)) = ValueFields(given, keys)
        BY <1>1, <1>4, <2>2, FieldsOfPlainValues
      <3> QED
        BY <1>5, <3>1 DEF V
    <2>4. Len(V) = n /\ \A i \in 1..n : V[i] = given[keys[i]]
      BY <1>1, <1>4, <2>3, ValueFieldsType
    <2>5. phase' = "decoded"
      BY <1>2, <1>11, <1>12, <1>13, <2>2, <2>4
    <2>6. ASSUME NEW k \in D
          PROVE  M[k] = given[k]
      <3>1. PICK i \in 1..n : keys[i] = k
        BY <1>11
      <3>2. M[keys[i]] = V[i] /\ V[i] = given[keys[i]]
        BY <1>15, <2>4
      <3> QED
        BY <3>1, <3>2
    <2>7. M = given
      BY <1>15, <2>1, <2>6
    <2> QED
      BY <1>16, <1>20, <2>5, <2>7
  <1>22. /\ (given \in [DOMAIN given -> Seq(Token)])' /\ IsFiniteSet(DOMAIN given)'
         /\ WrittenText'
    <2>1. phase' # "written"
      BY <1>2
    <2> QED
      BY <1>2, <2>1 DEF CodecInv, WrittenText
  <1> QED
    BY <1>18, <1>19, <1>20, <1>21, <1>22 DEF CodecInv

LEMMA Invariance == Spec => []CodecInv
  <1>1. ASSUME CodecInv, UNCHANGED vars
        PROVE  CodecInv'
    <2>1. \A map, keys : Encoded(map, keys)' = Encoded(map, keys)
      BY <1>1 DEF vars, Encoded
    <2> QED
      BY <1>1 DEF vars, CodecInv, TypeOK, OwnNumbers, WrittenText, Encoded,
                  PlainMetadataSurvives, KeysSurvive, Tried
  <1>2. CodecInv /\ [Next]_vars => CodecInv'
    BY <1>1, AddInv, StartInv, DecodeInv DEF Next
  <1> QED
    BY <1>2, InitInv, PTL DEF Spec

\* Types: the texts, what is given and what is read are of the kinds that the
\* Go code declares, whatever the caller gives to AddMediaInfo, AddCaseData or
\* AddDeviceInformation; and what is read has only keys that the table knows.
THEOREM TypeCorrect == Spec => []TypeOK
  BY Invariance, PTL DEF CodecInv

\* Known keys with plain values are read back as they were given, in whatever
\* order Go goes through the map when Encode writes it; and the numbers that the
\* size of the image is computed from are those that Start has set.
THEOREM PlainSurvives == Spec => []PlainMetadataSurvives
  BY Invariance, PTL DEF CodecInv

\* Whatever tabs and ends of line are in the values, a section that Decode
\* accepts has the keys it was given, all of them, and its name.
THEOREM KeysAlwaysSurvive == Spec => []KeysSurvive
  BY Invariance, PTL DEF CodecInv
=============================================================================
