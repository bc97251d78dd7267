-------------------------- MODULE EwfReaderProofs --------------------------
(***************************************************************************)
(* Theorems about the two readers, for every image, caller and failure.    *)
(* What is in EwfReader is proved once; Evf1 and Evf2 are the readers.     *)
(***************************************************************************)
EXTENDS Evf1Reader, EwfLemmas

Evf2 == INSTANCE Evf2Reader

(***************************************************************************)
(* Total.  Sums(g, ns, n): g[i] is the sum of the first i of ns.           *)
(***************************************************************************)
Sums(g, ns, n) == g = [i \in 0..n |-> IF i = 0 THEN 0 ELSE g[i - 1] + ns[i]]

LEMMA SumsExist == \A ns : \A n \in Nat : \E g : Sums(g, ns, n)
  <1> SUFFICES ASSUME NEW ns PROVE \A n \in Nat : \E g : Sums(g, ns, n)
    OBVIOUS
  <1> DEFINE S == {n \in Nat : \E g : Sums(g, ns, n)}
  <1>1. 0 \in S
    <2> DEFINE g == [i \in 0..0 |-> 0]
    <2>1. Sums(g, ns, 0)
      BY DEF Sums
    <2> QED
      BY <2>1
  <1>2. ASSUME NEW n \in Nat, n \in S
        PROVE  n + 1 \in S
    <2>1. PICK g : Sums(g, ns, n)
      BY <1>2
    <2> DEFINE h == [i \in 0..(n + 1) |-> IF i = n + 1 THEN g[n] + ns[n + 1] ELSE g[i]]
    <2>2. \A i \in 0..n : g[i] = IF i = 0 THEN 0 ELSE g[i - 1] + ns[i]
      BY <2>1 DEF Sums
    <2>3. \A i \in 0..(n + 1) : h[i] = IF i = 0 THEN 0 ELSE h[i - 1] + ns[i]
      <3> SUFFICES ASSUME NEW i \in 0..(n + 1)
                   PROVE  h[i] = IF i = 0 THEN 0 ELSE h[i - 1] + ns[i]
        OBVIOUS
      <3>1. CASE i = n + 1
        BY <3>1
      <3>2. CASE i # n + 1
        <4>1. i \in 0..n /\ (i # 0 => i - 1 \in 0..n /\ i - 1 # n + 1 /\ i - 1 \in 0..(n + 1))
          BY <3>2
        <4> QED
          BY <2>2, <3>2, <4>1
      <3> QED
        BY <3>1, <3>2
    <2>4. h = [i \in 0..(n + 1) |-> h[i]]
      OBVIOUS
    <2> HIDE DEF h
    <2>5. Sums(h, ns, n + 1)
      BY <2>3, <2>4 DEF Sums
    <2> QED
      BY <2>5
  <1>3. Nat \subseteq S
    <2> HIDE DEF S
    <2> QED
      BY <1>1, <1>2, SetInduction
  <1> QED
    BY <1>3

LEMMA SumsStep ==
    ASSUME NEW ns, NEW n \in Nat, NEW g, Sums(g, ns, n)
    PROVE  g[0] = 0 /\ \A i \in Nat : i + 1 <= n => g[i + 1] = g[i] + ns[i + 1]
  <1>1. \A i \in 0..n : g[i] = IF i = 0 THEN 0 ELSE g[i - 1] + ns[i]
    BY DEF Sums
  <1>2. 0 \in 0..n
    OBVIOUS
  <1>3. ASSUME NEW i \in Nat, i + 1 <= n
        PROVE  g[i + 1] = g[i] + ns[i + 1]
    <2>1. i + 1 \in 0..n /\ i + 1 # 0 /\ (i + 1) - 1 = i
      BY <1>3
    <2> QED
      BY <1>1, <2>1
  <1> QED
    BY <1>1, <1>2, <1>3

\* Total is the last sum.
LEMMA TotalIs ==
    ASSUME NEW ns, NEW n \in Nat, Len(ns) = n
    PROVE  \E g : Sums(g, ns, n) /\ Total(ns) = g[n]
  <1> DEFINE g == CHOOSE f : Sums(f, ns, n)
  <1>1. Sums(g, ns, n)
    BY SumsExist
  <1>2. Total(ns) = g[n]
    BY DEF Total, Sums
  <1> HIDE DEF g
  <1> QED
    BY <1>1, <1>2

LEMMA SumsType ==
    ASSUME NEW ns \in Seq(Nat), NEW n \in Nat, Len(ns) = n, NEW g, Sums(g, ns, n)
    PROVE  \A i \in 0..n : g[i] \in Nat
  <1> DEFINE S == {i \in Nat : i <= n => g[i] \in Nat}
  <1>1. g[0] = 0 /\ \A i \in Nat : i + 1 <= n => g[i + 1] = g[i] + ns[i + 1]
    BY SumsStep, Zenon
  <1>2. 0 \in S
    BY <1>1
  <1>3. ASSUME NEW i \in Nat, i \in S
        PROVE  i + 1 \in S
    <2> SUFFICES ASSUME i + 1 <= n PROVE g[i + 1] \in Nat
      OBVIOUS
    <2>1. g[i] \in Nat
      BY <1>3
    <2>2. ns[i + 1] \in Nat
      BY ElementOfSeq
    <2> QED
      BY <1>1, <2>1, <2>2
  <1>4. Nat \subseteq S
    <2> HIDE DEF S
    <2> QED
      BY <1>2, <1>3, SetInduction
  <1> QED
    BY <1>4

LEMMA TotalEmpty == Total(<<>>) = 0
  <1>1. Len(<<>>) = 0 /\ 0 \in Nat
    OBVIOUS
  <1>2. PICK g : Sums(g, <<>>, 0) /\ Total(<<>>) = g[0]
    BY <1>1, TotalIs
  <1> QED
    BY <1>1, <1>2, SumsStep

LEMMA TotalType ==
    ASSUME NEW ns \in Seq(Nat)
    PROVE  Total(ns) \in Nat
  <1>1. PICK n \in Nat : Len(ns) = n
    BY LenProperties
  <1>2. PICK g : Sums(g, ns, n) /\ Total(ns) = g[n]
    BY <1>1, TotalIs
  <1> QED
    BY <1>1, <1>2, SumsType

(***************************************************************************)
(* TableOf.  Turns(g, os, x, n): g[k] is the range searched after k turns. *)
(***************************************************************************)
Turns(g, os, x, n) ==
    g = [k \in 0..n |-> IF k = 0 THEN [i |-> 0, j |-> n] ELSE Halve(g[k - 1], os, x)]

LEMMA TurnsExist ==
    ASSUME NEW os, NEW x, NEW m \in Nat
    PROVE  \E g : Turns(g, os, x, m)
  <1> DEFINE first == [i |-> 0, j |-> m]
             Does(g, n) == \A k \in 0..n : g[k] = IF k = 0 THEN first ELSE Halve(g[k - 1], os, x)
             S == {n \in Nat : \E g : g = [k \in 0..n |-> g[k]] /\ Does(g, n)}
  <1> HIDE DEF first
  <1>1. 0 \in S
    <2> DEFINE g == [k \in 0..0 |-> first]
    <2>1. g = [k \in 0..0 |-> g[k]] /\ Does(g, 0)
      OBVIOUS
    <2> QED
      BY <2>1
  <1>2. ASSUME NEW n \in Nat, n \in S
        PROVE  n + 1 \in S
    <2>1. PICK g : Does(g, n)
      BY <1>2
    <2> DEFINE h == [k \in 0..(n + 1) |-> IF k = n + 1 THEN Halve(g[n], os, x) ELSE g[k]]
    <2>2. \A k \in 0..n : g[k] = IF k = 0 THEN first ELSE Halve(g[k - 1], os, x)
      BY <2>1
    <2>3. Does(h, n + 1)
      <3> SUFFICES ASSUME NEW k \in 0..(n + 1)
                   PROVE  h[k] = IF k = 0 THEN first ELSE Halve(h[k - 1], os, x)
        OBVIOUS
      <3>1. CASE k = n + 1
        BY <3>1
      <3>2. CASE k # n + 1
        <4>1. k \in 0..n /\ (k # 0 => k - 1 \in 0..n /\ k - 1 # n + 1 /\ k - 1 \in 0..(n + 1))
          BY <3>2
        <4> QED
          BY <2>2, <3>2, <4>1
      <3> QED
        BY <3>1, <3>2
    <2>4. h = [k \in 0..(n + 1) |-> h[k]]
      OBVIOUS
    <2> HIDE DEF h, Does
    <2> QED
      BY <2>3, <2>4
  <1>3. Nat \subseteq S
    <2> HIDE DEF S
    <2> QED
      BY <1>1, <1>2, SetInduction
  <1>4. PICK g : g = [k \in 0..m |-> g[k]] /\ Does(g, m)
    BY <1>3
  <1>5. g = [k \in 0..m |-> IF k = 0 THEN first ELSE Halve(g[k - 1], os, x)]
    BY <1>4
  <1> QED
    BY <1>5 DEF Turns, first

LEMMA TableOfIs ==
    ASSUME NEW os, NEW x, NEW n \in Nat, Len(os) = n
    PROVE  \E g : Turns(g, os, x, n) /\ TableOf(os, x) = g[n].i + 1
  <1> DEFINE g == CHOOSE f : Turns(f, os, x, n)
  <1>1. Turns(g, os, x, n)
    BY TurnsExist
  <1>2. TableOf(os, x) = g[n].i + 1
    BY DEF TableOf, Turns
  <1> HIDE DEF g
  <1> QED
    BY <1>1, <1>2

LEMMA HalfWay ==
    ASSUME NEW i \in Nat, NEW j \in Nat, i < j
    PROVE  /\ (i + j) \div 2 \in Nat
           /\ i <= (i + j) \div 2 /\ (i + j) \div 2 < j
  OBVIOUS

\* Of n offsets, the search is in 0..n, and shorter with every turn.
LEMMA TurnsNarrow ==
    ASSUME NEW os, NEW x, NEW n \in Nat, NEW g, Turns(g, os, x, n)
    PROVE  \A k \in 0..n : /\ g[k] \in [i : Nat, j : Nat]
                           /\ g[k].i <= g[k].j /\ g[k].j <= n
                           /\ g[k].i < g[k].j => g[k].j - g[k].i <= n - k
  <1> DEFINE Good(k) == /\ g[k] \in [i : Nat, j : Nat]
                        /\ g[k].i <= g[k].j /\ g[k].j <= n
                        /\ g[k].i < g[k].j => g[k].j - g[k].i <= n - k
             S == {k \in Nat : k <= n => Good(k)}
  <1>1. 0 \in S
    <2>1. g[0] = [i |-> 0, j |-> n]
      BY DEF Turns
    <2> QED
      BY <2>1
  <1>2. ASSUME NEW k \in Nat, k \in S
        PROVE  k + 1 \in S
    <2> SUFFICES ASSUME k + 1 <= n PROVE Good(k + 1)
      OBVIOUS
    <2>1. Good(k)
      BY <1>2
    <2>2. g[k + 1] = Halve(g[k], os, x)
      <3>1. k + 1 \in 0..n /\ k + 1 # 0 /\ (k + 1) - 1 = k
        OBVIOUS
      <3> QED
        BY <3>1 DEF Turns
    <2>3. PICK i \in Nat, j \in Nat : g[k] = [i |-> i, j |-> j]
      BY <2>1
    <2>4. CASE i >= j
      BY <2>1, <2>2, <2>3, <2>4 DEF Halve
    <2>5. CASE i < j
      <3> DEFINE h == (i + j) \div 2
      <3>1. h \in Nat /\ i <= h /\ h < j
        BY <2>5, HalfWay
      <3>2. g[k + 1] = [i |-> i, j |-> h] \/ g[k + 1] = [i |-> h + 1, j |-> j]
        BY <2>2, <2>3, <2>5 DEF Halve
      <3> HIDE DEF h
      <3>3. j <= n /\ j - i <= n - k
        BY <2>1, <2>3, <2>5
      <3> QED
        BY <3>1, <3>2, <3>3
    <2> QED
      BY <2>3, <2>4, <2>5
  <1>3. Nat \subseteq S
    <2> HIDE DEF S
    <2> QED
      BY <1>1, <1>2, SetInduction
  <1> QED
    BY <1>3

LEMMA TableOfBounds ==
    ASSUME NEW os \in Seq(Nat), NEW x
    PROVE  TableOf(os, x) \in 1..(Len(os) + 1)
  <1>1. PICK n \in Nat : Len(os) = n
    BY LenProperties
  <1>2. PICK g : Turns(g, os, x, n) /\ TableOf(os, x) = g[n].i + 1
    BY <1>1, TableOfIs
  <1>3. n \in 0..n
    OBVIOUS
  <1>4. g[n] \in [i : Nat, j : Nat] /\ g[n].i <= g[n].j /\ g[n].j <= n
    BY <1>2, <1>3, TurnsNarrow, Zenon
  <1>5. g[n].i \in Nat /\ g[n].i <= n
    BY <1>4
  <1> QED
    BY <1>1, <1>2, <1>5

(***************************************************************************)
(* The image.                                                              *)
(***************************************************************************)
LEMMA FilesType ==
    /\ Files \in Seq(Seq(Nat)) /\ DOMAIN Files \subseteq Nat \ {0}
    /\ \A f \in DOMAIN Files : Files[f] \in Seq(Nat) /\ DOMAIN Files[f] \subseteq Nat \ {0}
  <1>1. Files \in Seq(Seq(Nat))
    BY ReaderAssumption
  <1>2. \A f \in DOMAIN Files : Files[f] \in Seq(Nat)
    BY <1>1, ElementOfSeq
  <1> QED
    BY <1>1, <1>2

LEMMA PrefixType ==
    ASSUME NEW S, NEW s \in Seq(S), NEW n \in Nat, n <= Len(s)
    PROVE  /\ SubSeq(s, 1, n) \in Seq(S) /\ Len(SubSeq(s, 1, n)) = n
           /\ \A i \in 1..n : SubSeq(s, 1, n)[i] = s[i]
  <1>1. \A i \in 1..n : s[i] \in S
    BY LenProperties, ElementOfSeq
  <1>2. 1 \in Int /\ n \in Int
    OBVIOUS
  <1>3. /\ SubSeq(s, 1, n) \in Seq(S)
        /\ Len(SubSeq(s, 1, n)) = IF 1 <= n THEN n - 1 + 1 ELSE 0
        /\ \A i \in 1..(n - 1 + 1) : SubSeq(s, 1, n)[i] = s[1 + i - 1]
    BY <1>1, <1>2, SubSeqProperties
  <1> QED
    BY <1>3

LEMMA TableStartType ==
    ASSUME NEW f \in DOMAIN Files, NEW t \in DOMAIN Files[f]
    PROVE  TableStart[f][t] \in Nat
  <1>1. /\ Files[f] \in Seq(Nat) /\ t \in 1..Len(Files[f]) /\ Len(Files[f]) \in Nat
    BY FilesType, LenProperties
  <1>2. t - 1 \in Nat /\ t - 1 <= Len(Files[f])
    BY <1>1
  <1>3. SubSeq(Files[f], 1, t - 1) \in Seq(Nat)
    BY <1>1, <1>2, PrefixType
  <1>4. TableStart[f][t] = Total(SubSeq(Files[f], 1, t - 1))
    BY DEF TableStart
  <1> QED
    BY <1>3, <1>4, TotalType

Tables == [t : Nat, first : Nat, count : Nat, sectorCount : Nat, sectorOffset : Nat,
           entries : EntryStates]

LEMMA NewTableType ==
    ASSUME NEW f \in DOMAIN Files, NEW t \in DOMAIN Files[f], NEW o \in Nat
    PROVE  NewTable(f, t, o) \in Tables
  <1>1. TableStart[f][t] \in Nat
    BY TableStartType
  <1>2. Files[f][t] \in Nat /\ t \in Nat
    BY FilesType, ElementOfSeq, LenProperties
  <1>3. Files[f][t] * ChunkSectors \in Nat
    BY <1>2, ReaderAssumption, Product
  <1> QED
    BY <1>1, <1>2, <1>3 DEF NewTable, Tables, EntryStates

(***************************************************************************)
(* What holds of every segment a reader has, and of a segment and what it  *)
(* becomes: once decoded it stays, but for the entries and the cursor.     *)
(***************************************************************************)
SegmentOK(seg) ==
    /\ seg \in Segment
    /\ seg.cursor.at = "section" => seg.cursor.n # 0
    /\ \A i \in DOMAIN seg.sections :
         seg.sections[i].at = "table" => seg.sections[i].n \in DOMAIN Files[seg.file]
    /\ seg.tables = <<>> => seg.sectorCount = 0 /\ seg.tableOffsets = <<>>
    /\ seg.tables # <<>> => Len(seg.tableOffsets) < Len(seg.tables)
    /\ ~seg.decoded => seg.sectorOffset = 0 /\ seg.sectorCount = 0

SameTable(t, u) ==
    /\ u.t = t.t /\ u.first = t.first /\ u.count = t.count
    /\ u.sectorCount = t.sectorCount /\ u.sectorOffset = t.sectorOffset

Later(s, t) ==
    /\ t.file = s.file
    /\ s.decoded => /\ t.decoded /\ t.sectorOffset = s.sectorOffset
                    /\ t.sectorCount = s.sectorCount /\ t.tableOffsets = s.tableOffsets
                    /\ Len(t.tables) = Len(s.tables)
                    /\ \A j \in DOMAIN s.tables : SameTable(s.tables[j], t.tables[j])

LEMMA LaterSame == ASSUME NEW s PROVE Later(s, s)
  BY DEF Later, SameTable

LEMMA SegmentFields ==
    ASSUME NEW seg \in Segment
    PROVE  /\ seg.file \in DOMAIN Files /\ seg.decoded \in BOOLEAN /\ seg.volume \in BOOLEAN
           /\ seg.sections \in Seq(Sections) /\ seg.tables \in Seq(Tables)
           /\ seg.tableOffsets \in Seq(Nat)
           /\ seg.sectorCount \in Nat /\ seg.sectorOffset \in Nat /\ seg.cursor \in Cursors
  BY DEF Segment, Tables

LEMMA NewSegmentOK ==
    ASSUME NEW f \in DOMAIN Files
    PROVE  SegmentOK(NewSegment(f)) /\ NewSegment(f).file = f
  <1>1. /\ <<>> \in Seq(Sections) /\ <<>> \in Seq(Tables) /\ <<>> \in Seq(Nat)
    BY EmptySeq
  <1>2. At("section", 1) \in Cursors
    BY DEF At, Cursors
  <1>3. NewSegment(f) \in Segment
    BY <1>1, <1>2 DEF NewSegment, Segment, Tables
  <1> QED
    BY <1>3 DEF NewSegment, SegmentOK, At

\* Another cursor.
LEMMA MoveCursor ==
    ASSUME NEW seg, SegmentOK(seg), NEW cursor \in Cursors,
           cursor.at = "section" => cursor.n # 0
    PROVE  /\ SegmentOK([seg EXCEPT !.cursor = cursor])
           /\ Later(seg, [seg EXCEPT !.cursor = cursor])
  <1> DEFINE new == [seg EXCEPT !.cursor = cursor]
  <1>1. seg \in Segment
    BY DEF SegmentOK
  <1>2. /\ new \in Segment /\ new.cursor = cursor /\ new.file = seg.file
        /\ new.decoded = seg.decoded /\ new.sections = seg.sections
        /\ new.tables = seg.tables /\ new.tableOffsets = seg.tableOffsets
        /\ new.sectorCount = seg.sectorCount /\ new.sectorOffset = seg.sectorOffset
    BY <1>1 DEF Segment
  <1> HIDE DEF new
  <1>3. SegmentOK(new)
    BY <1>2 DEF SegmentOK
  <1>4. Later(seg, new)
    BY <1>2 DEF Later, SameTable
  <1> QED
    BY <1>3, <1>4 DEF new

\* Another state of a table's entries, with another cursor.
WithEntries(seg, cursor, tab, e) ==
    [seg EXCEPT !.cursor = cursor, !.tables[tab].entries = e]

LEMMA ChangeEntries ==
    ASSUME NEW seg, SegmentOK(seg), NEW cursor \in Cursors,
           cursor.at = "section" => cursor.n # 0,
           NEW tab \in DOMAIN seg.tables, NEW e \in EntryStates
    PROVE  /\ SegmentOK(WithEntries(seg, cursor, tab, e))
           /\ Later(seg, WithEntries(seg, cursor, tab, e))
           /\ Len(WithEntries(seg, cursor, tab, e).tables) = Len(seg.tables)
           /\ \A j \in DOMAIN seg.tables :
                /\ SameTable(seg.tables[j], WithEntries(seg, cursor, tab, e).tables[j])
                /\ WithEntries(seg, cursor, tab, e).tables[j].entries =
                      IF j = tab THEN e ELSE seg.tables[j].entries
  <1> DEFINE new == WithEntries(seg, cursor, tab, e)
             changed == [seg.tables[tab] EXCEPT !.entries = e]
             tables == [seg.tables EXCEPT ![tab] = changed]
  <1>1. seg \in Segment /\ seg.tables \in Seq(Tables)
    BY SegmentFields DEF SegmentOK
  <1>2. seg.tables[tab] \in Tables
    BY <1>1, ElementOfSeq, LenProperties
  <1>3. /\ changed \in Tables /\ SameTable(seg.tables[tab], changed) /\ changed.entries = e
    BY <1>2 DEF Tables, SameTable
  <1> HIDE DEF changed
  <1>4. PICK n \in Nat : Len(seg.tables) = n /\ DOMAIN seg.tables = 1..n
    BY <1>1, LenProperties
  <1>5. /\ tables \in Seq(Tables) /\ Len(tables) = n
        /\ \A j \in 1..n : tables[j] = IF j = tab THEN changed ELSE seg.tables[j]
    BY <1>1, <1>3, <1>4, ExceptSeq
  <1>6. new = [seg EXCEPT !.cursor = cursor, !.tables = tables]
    BY <1>1 DEF WithEntries, Segment, changed
  <1> HIDE DEF tables
  <1>7. /\ new \in Segment /\ new.cursor = cursor /\ new.file = seg.file
        /\ new.decoded = seg.decoded /\ new.sections = seg.sections
        /\ new.tables = tables /\ new.tableOffsets = seg.tableOffsets
        /\ new.sectorCount = seg.sectorCount /\ new.sectorOffset = seg.sectorOffset
    BY <1>1, <1>5, <1>6 DEF Segment, Tables
  <1> HIDE DEF new
  <1>8. tables = <<>> <=> seg.tables = <<>>
    BY <1>1, <1>4, <1>5, EmptySeq
  <1>9. SegmentOK(new)
    BY <1>4, <1>5, <1>7, <1>8 DEF SegmentOK
  <1>10. \A j \in 1..n : /\ SameTable(seg.tables[j], tables[j])
                         /\ tables[j].entries = IF j = tab THEN e ELSE seg.tables[j].entries
    <2> TAKE j \in 1..n
    <2> QED
      BY <1>3, <1>5 DEF SameTable
  <1>11. Later(seg, new)
    BY <1>4, <1>5, <1>7, <1>10 DEF Later
  <1> QED
    BY <1>4, <1>5, <1>7, <1>9, <1>10, <1>11 DEF new

(***************************************************************************)
(* Decoding.                                                               *)
(***************************************************************************)
\* The tables among some sections are tables of their file.
LEMMA TablesInType ==
    ASSUME NEW D, NEW sections \in Seq(Sections),
           \A i \in DOMAIN sections : sections[i].at = "table" => sections[i].n \in D
    PROVE  TablesIn(sections) \in Seq(D)
  <1> DEFINE ones == [i \in DOMAIN sections |->
                        IF sections[i].at = "table" THEN <<sections[i].n>> ELSE <<>>]
  <1>1. DOMAIN sections = 1..Len(sections) /\ Len(sections) \in Nat
    BY LenProperties
  <1>2. \A i \in DOMAIN sections : ones[i] \in Seq(D)
    <2> TAKE i \in DOMAIN sections
    <2>1. CASE sections[i].at = "table"
      <3>1. sections[i].n \in D
        BY <2>1
      <3>2. <<sections[i].n>> \in Seq(D)
        BY <3>1
      <3> QED
        BY <2>1, <3>2
    <2>2. CASE sections[i].at # "table"
      BY <2>2, EmptySeq
    <2> QED
      BY <2>1, <2>2
  <1>3. ones = [i \in 1..Len(sections) |-> ones[i]]
    BY <1>1
  <1> HIDE DEF ones
  <1>4. ones \in [1..Len(sections) -> Seq(D)]
    BY <1>1, <1>2, <1>3
  <1>5. ones \in Seq(Seq(D))
    BY <1>1, <1>4, SeqDef
  <1>6. FlattenSeq(ones) \in Seq(D)
    BY <1>5, FlattenType
  <1> QED
    BY <1>6 DEF TablesIn, ones

SectorsOf(f, ts) == [i \in DOMAIN ts |-> Files[f][ts[i]] * ChunkSectors]
OffsetsOf(f, ts) == [i \in DOMAIN ts |-> Total(SubSeq(SectorsOf(f, ts), 1, i - 1))]
TablesOf(f, ts) == [i \in DOMAIN ts |-> NewTable(f, ts[i], OffsetsOf(f, ts)[i])]

LEMMA AddTablesIs ==
    ASSUME NEW seg, NEW ts
    PROVE  AddTables(seg, ts) =
             [seg EXCEPT !.tables = @ \o TablesOf(seg.file, ts),
                         !.tableOffsets = @ \o SubSeq(OffsetsOf(seg.file, ts), 2, Len(ts))]
  BY DEF AddTables, SectorsOf, OffsetsOf, TablesOf

LEMMA OffsetsOfType ==
    ASSUME NEW f \in DOMAIN Files, NEW ts \in Seq(DOMAIN Files[f])
    PROVE  /\ SectorsOf(f, ts) \in Seq(Nat) /\ Len(SectorsOf(f, ts)) = Len(ts)
           /\ OffsetsOf(f, ts) \in Seq(Nat) /\ Len(OffsetsOf(f, ts)) = Len(ts)
           /\ TablesOf(f, ts) \in Seq(Tables) /\ Len(TablesOf(f, ts)) = Len(ts)
  <1>1. PICK n \in Nat : Len(ts) = n /\ DOMAIN ts = 1..n /\ \A i \in 1..n : ts[i] \in DOMAIN Files[f]
    BY LenProperties, ElementOfSeq
  <1>2. \A i \in 1..n : SectorsOf(f, ts)[i] = Files[f][ts[i]] * ChunkSectors
    BY <1>1 DEF SectorsOf
  <1>3. \A i \in 1..n : SectorsOf(f, ts)[i] \in Nat
    <2> TAKE i \in 1..n
    <2>1. Files[f][ts[i]] \in Nat
      BY <1>1, FilesType, ElementOfSeq, LenProperties
    <2> QED
      BY <1>2, <2>1, Product, ReaderAssumption
  <1>4. SectorsOf(f, ts) \in [1..n -> Nat]
    BY <1>1, <1>3 DEF SectorsOf
  <1>5. SectorsOf(f, ts) \in Seq(Nat) /\ Len(SectorsOf(f, ts)) = n
    BY <1>4, SeqDef, LenProperties
  <1>6. \A i \in 1..n : OffsetsOf(f, ts)[i] \in Nat
    <2> TAKE i \in 1..n
    <2>1. SubSeq(SectorsOf(f, ts), 1, i - 1) \in Seq(Nat)
      <3>1. i - 1 \in Nat /\ i - 1 <= n
        OBVIOUS
      <3> QED
        BY <1>5, <3>1, PrefixType
    <2> QED
      BY <1>1, <2>1, TotalType DEF OffsetsOf
  <1>7. OffsetsOf(f, ts) \in [1..n -> Nat]
    BY <1>1, <1>6 DEF OffsetsOf
  <1>8. OffsetsOf(f, ts) \in Seq(Nat) /\ Len(OffsetsOf(f, ts)) = n
    BY <1>7, SeqDef, LenProperties
  <1>9. \A i \in 1..n : TablesOf(f, ts)[i] \in Tables
    BY <1>1, <1>6, NewTableType DEF TablesOf
  <1>10. TablesOf(f, ts) \in [1..n -> Tables]
    BY <1>1, <1>9 DEF TablesOf
  <1>11. TablesOf(f, ts) \in Seq(Tables) /\ Len(TablesOf(f, ts)) = n
    BY <1>10, SeqDef, LenProperties
  <1> QED
    BY <1>1, <1>5, <1>8, <1>11

LEMMA AddTablesOK ==
    ASSUME NEW seg, SegmentOK(seg), ~seg.decoded, NEW ts \in Seq(DOMAIN Files[seg.file])
    PROVE  LET new == AddTables(seg, ts)
           IN  /\ SegmentOK(new) /\ new.file = seg.file /\ ~new.decoded
               /\ new.volume = seg.volume /\ new.sections = seg.sections
               /\ new.cursor = seg.cursor
               /\ new.tables = seg.tables \o TablesOf(seg.file, ts)
  <1> DEFINE new == AddTables(seg, ts)
             more == TablesOf(seg.file, ts)
             offsets == SubSeq(OffsetsOf(seg.file, ts), 2, Len(ts))
  <1>1. seg \in Segment /\ seg.file \in DOMAIN Files /\ seg.tables \in Seq(Tables)
        /\ seg.tableOffsets \in Seq(Nat)
    BY SegmentFields DEF SegmentOK
  <1>2. PICK m \in Nat, t \in Nat, o \in Nat :
          Len(ts) = m /\ Len(seg.tables) = t /\ Len(seg.tableOffsets) = o
    BY <1>1, LenProperties
  <1>3. /\ OffsetsOf(seg.file, ts) \in Seq(Nat) /\ Len(OffsetsOf(seg.file, ts)) = m
        /\ more \in Seq(Tables) /\ Len(more) = m
    BY <1>1, <1>2, OffsetsOfType
  <1>4. offsets \in Seq(Nat) /\ Len(offsets) = IF 2 <= m THEN m - 1 ELSE 0
    <2>1. \A i \in 2..m : OffsetsOf(seg.file, ts)[i] \in Nat
      BY <1>3, ElementOfSeq
    <2>2. 2 \in Int /\ m \in Int
      OBVIOUS
    <2> QED
      BY <1>2, <2>1, <2>2, SubSeqProperties
  <1>5. new = [seg EXCEPT !.tables = @ \o more, !.tableOffsets = @ \o offsets]
    BY AddTablesIs, Zenon
  <1> HIDE DEF more, offsets
  <1>6. seg.tables \o more \in Seq(Tables) /\ Len(seg.tables \o more) = t + m
    <2>1. seg.tables \in Seq(Tables) /\ more \in Seq(Tables)
      BY <1>1, <1>3
    <2>2. /\ seg.tables \o more \in Seq(Tables)
          /\ Len(seg.tables \o more) = Len(seg.tables) + Len(more)
      BY <2>1, ConcatProperties, Zenon
    <2> QED
      BY <1>2, <1>3, <2>2
  <1>7. /\ seg.tableOffsets \o offsets \in Seq(Nat)
        /\ Len(seg.tableOffsets \o offsets) = o + (IF 2 <= m THEN m - 1 ELSE 0)
    <2>1. seg.tableOffsets \in Seq(Nat) /\ offsets \in Seq(Nat)
      BY <1>1, <1>4
    <2>2. /\ seg.tableOffsets \o offsets \in Seq(Nat)
          /\ Len(seg.tableOffsets \o offsets) = Len(seg.tableOffsets) + Len(offsets)
      BY <2>1, ConcatProperties, Zenon
    <2> QED
      BY <1>2, <1>4, <2>2
  <1>8. /\ new \in Segment /\ new.cursor = seg.cursor /\ new.file = seg.file
        /\ new.decoded = seg.decoded /\ new.sections = seg.sections /\ new.volume = seg.volume
        /\ new.tables = seg.tables \o more
        /\ new.tableOffsets = seg.tableOffsets \o offsets
        /\ new.sectorCount = seg.sectorCount /\ new.sectorOffset = seg.sectorOffset
    BY <1>1, <1>5, <1>6, <1>7 DEF Segment, Tables
  <1> HIDE DEF new
  <1>9. /\ t = 0 => o = 0 /\ seg.sectorCount = 0
        /\ t # 0 => o < t
    <2>1. t = 0 <=> seg.tables = <<>>
      BY <1>1, <1>2, EmptySeq
    <2>2. seg.tableOffsets = <<>> => o = 0
      BY <1>2
    <2> QED
      BY <1>2, <2>1, <2>2 DEF SegmentOK
  <1>10. new.tables = <<>> => new.sectorCount = 0 /\ new.tableOffsets = <<>>
    <2>1. new.tables = <<>> => t = 0 /\ m = 0
      BY <1>6, <1>8
    <2>2. t = 0 /\ m = 0 => seg.tableOffsets \o offsets = <<>>
      BY <1>7, <1>9, EmptySeq
    <2> QED
      BY <1>8, <1>9, <2>1, <2>2
  <1>11. new.tables # <<>> => Len(new.tableOffsets) < Len(new.tables)
    <2>1. new.tables # <<>> => t + m # 0
      BY <1>6, <1>8, EmptySeq
    <2> QED
      BY <1>6, <1>7, <1>8, <1>9, <2>1
  <1>12. SegmentOK(new)
    BY <1>8, <1>10, <1>11 DEF SegmentOK
  <1> QED
    BY <1>8, <1>12 DEF new, more

\* What Decode changes of a segment beside its tables.
Changed(seg, v, cursor) == [seg EXCEPT !.volume = v, !.cursor = cursor]

LEMMA ChangeSegment ==
    ASSUME NEW seg, SegmentOK(seg), NEW v \in BOOLEAN, NEW cursor \in Cursors,
           cursor.at = "section" => cursor.n # 0
    PROVE  /\ SegmentOK(Changed(seg, v, cursor)) /\ Changed(seg, v, cursor).file = seg.file
           /\ Changed(seg, v, cursor).decoded = seg.decoded
           /\ Changed(seg, v, cursor).volume = v
           /\ Changed(seg, v, cursor).sections = seg.sections
           /\ Changed(seg, v, cursor).cursor = cursor
           /\ Changed(seg, v, cursor).tables = seg.tables
  <1> DEFINE new == Changed(seg, v, cursor)
  <1>1. seg \in Segment
    BY DEF SegmentOK
  <1>2. /\ new \in Segment /\ new.cursor = cursor /\ new.file = seg.file
        /\ new.decoded = seg.decoded /\ new.sections = seg.sections /\ new.volume = v
        /\ new.tables = seg.tables /\ new.tableOffsets = seg.tableOffsets
        /\ new.sectorCount = seg.sectorCount /\ new.sectorOffset = seg.sectorOffset
    BY <1>1 DEF Changed, Segment
  <1> HIDE DEF new
  <1>3. SegmentOK(new)
    BY <1>2 DEF SegmentOK
  <1> QED
    BY <1>2, <1>3 DEF new

\* elem.Prev(): none, or a segment.
LinkOK(link) == link # <<>> => SegmentOK(link[1])

LinkEnd(link) == IF link = <<>> THEN 0 ELSE link[1].sectorOffset + link[1].sectorCount

\* new is what seg is when decoded behind the segment before it.
IsDecoded(new, seg, link) ==
    /\ SegmentOK(new) /\ new.file = seg.file /\ new.decoded = TRUE
    /\ new.sectorOffset = LinkEnd(link)
    /\ new.sectorCount = Total([i \in DOMAIN seg.tables |-> seg.tables[i].sectorCount])
    /\ new.tables = seg.tables /\ new.volume = seg.volume
    /\ new.cursor = seg.cursor /\ new.tableOffsets = seg.tableOffsets

LEMMA DecodedOK ==
    ASSUME NEW seg, SegmentOK(seg), NEW link, LinkOK(link)
    PROVE  IsDecoded(Decoded(seg, link), seg, link)
  <1> DEFINE new == Decoded(seg, link)
             counts == [i \in DOMAIN seg.tables |-> seg.tables[i].sectorCount]
  <1>1. seg \in Segment /\ seg.tables \in Seq(Tables)
    BY SegmentFields DEF SegmentOK
  <1>2. PICK n \in Nat : Len(seg.tables) = n /\ DOMAIN seg.tables = 1..n
    BY <1>1, LenProperties
  <1>3. counts \in Seq(Nat) /\ Len(counts) = n
    <2>1. \A i \in 1..n : counts[i] \in Nat
      <3> TAKE i \in 1..n
      <3>1. seg.tables[i] \in Tables
        BY <1>1, <1>2, ElementOfSeq
      <3> QED
        BY <1>2, <3>1 DEF Tables
    <2>2. counts \in [1..n -> Nat]
      BY <1>2, <2>1
    <2> QED
      BY <2>2, SeqDef, LenProperties
  <1>4. Total(counts) \in Nat /\ (seg.tables = <<>> => Total(counts) = 0)
    <2>1. seg.tables = <<>> => n = 0
      BY <1>2
    <2>2. n = 0 => counts = <<>>
      BY <1>3, EmptySeq
    <2>3. Total(counts) \in Nat
      BY <1>3, TotalType
    <2> HIDE DEF counts
    <2> QED
      BY <2>1, <2>2, <2>3, TotalEmpty
  <1>5. LinkEnd(link) \in Nat
    <2>1. link # <<>> => link[1].sectorOffset \in Nat /\ link[1].sectorCount \in Nat
      BY SegmentFields DEF LinkOK, SegmentOK
    <2> QED
      BY <2>1 DEF LinkEnd
  <1>6. new = [seg EXCEPT !.decoded = TRUE, !.sectorCount = Total(counts),
                          !.sectorOffset = LinkEnd(link)]
    BY DEF Decoded, LinkEnd
  <1> HIDE DEF counts
  <1>7. /\ new \in Segment /\ new.cursor = seg.cursor /\ new.file = seg.file
        /\ new.decoded = TRUE /\ new.sections = seg.sections /\ new.volume = seg.volume
        /\ new.tables = seg.tables /\ new.tableOffsets = seg.tableOffsets
        /\ new.sectorCount = Total(counts) /\ new.sectorOffset = LinkEnd(link)
    BY <1>1, <1>4, <1>5, <1>6 DEF Segment
  <1> HIDE DEF new
  <1>8. SegmentOK(new)
    BY <1>4, <1>7 DEF SegmentOK
  <1> QED
    BY <1>7, <1>8 DEF new, counts, IsDecoded

(***************************************************************************)
(* The invariant.                                                          *)
(***************************************************************************)
Frames == [call : {"none", "ReadAt", "Read", "Segment"}, off : Nat, len : Nat, seg : Nat,
           sector : Nat, count : Nat, at : Nat, left : Nat, tab : Nat, rest : Nat,
           entry : EntryStates, cpos : Cursors, buf : Seq(Int), hit : BOOLEAN,
           alone : BOOLEAN]

Results == [off : Nat, len : Nat, data : Seq(Int), err : Errors]

InTable == {"table", "chunk", "alloc", "fill", "seek", "data"}
AtEntry == {"alloc", "fill", "seek", "data"}

\* Nothing that a call at segment f.seg still wants is in the segments before.
Behind(f, ss) ==
    f.seg > 1 => /\ ss[f.seg - 1].decoded
                 /\ f.sector >= ss[f.seg - 1].sectorOffset + ss[f.seg - 1].sectorCount

\* A call with variables f at place p can use the segments ss.  In evf1, where
\* counted is TRUE, an entry is counted from the beginning of the table.
Fits(p, f, ss, counted) ==
    /\ f.cpos.at = "section" => f.cpos.n # 0
    /\ p = "find" => f.seg \in 1..(Len(ss) + 1) /\ Behind(f, ss)
    /\ p = "segment" => f.seg \in 1..(Len(ss) + 1) /\ (f.count = 0 \/ Behind(f, ss))
    /\ p \in InTable => /\ f.seg \in 1..Len(ss) /\ ss[f.seg].decoded
                        /\ f.tab \in 1..Len(ss[f.seg].tables)
                        /\ \/ f.count = 0
                           \/ f.sector >= ss[f.seg].sectorOffset + ss[f.seg].sectorCount
    /\ p \in AtEntry /\ counted => f.at >= ss[f.seg].tables[f.tab].sectorOffset

\* The first sector of a segment is 0, or the one behind the segment before.
Linked(ss, i) ==
    \/ ss[i].sectorOffset = 0
    \/ /\ i > 1 /\ ss[i - 1].decoded
       /\ ss[i].sectorOffset = ss[i - 1].sectorOffset + ss[i - 1].sectorCount

SegsOK(ss) ==
    /\ ss \in Seq(Segment)
    /\ \A i \in 1..Len(ss) : SegmentOK(ss[i]) /\ Linked(ss, i)

Stays(ss, tt) == Len(tt) = Len(ss) /\ \A i \in 1..Len(ss) : Later(ss[i], tt[i])

Inv(counted) ==
    /\ opened \in {"no", "yes", "panic"} /\ position \in Nat /\ faults \in 0..MaxFaults
    /\ pc \in [Clients -> Places] /\ frame \in [Clients -> Frames]
    /\ result \in [Clients -> Results]
    /\ SegsOK(segs)
    /\ \A c \in Clients : /\ Fits(pc[c], frame[c], segs, counted)
                          /\ Len(result[c].data) <= result[c].len
                          /\ pc[c] # "idle" => opened = "yes"

LEMMA FrameFields ==
    ASSUME NEW f \in Frames
    PROVE  /\ f.call \in {"none", "ReadAt", "Read", "Segment"} /\ f.off \in Nat /\ f.len \in Nat
           /\ f.seg \in Nat /\ f.sector \in Nat /\ f.count \in Nat /\ f.at \in Nat
           /\ f.left \in Nat /\ f.tab \in Nat /\ f.rest \in Nat /\ f.entry \in EntryStates
           /\ f.cpos \in Cursors /\ f.buf \in Seq(Int) /\ f.hit \in BOOLEAN
           /\ f.alone \in BOOLEAN
  BY DEF Frames

LEMMA NoCallType ==
    ASSUME NEW a \in BOOLEAN, NEW h \in BOOLEAN
    PROVE  /\ NoCall \in Frames /\ NoCall.cpos.at # "section"
           /\ [NoCall EXCEPT !.alone = a, !.hit = h] \in Frames
           /\ [NoCall EXCEPT !.alone = a, !.hit = h].cpos.at # "section"
  <1>1. Elsewhere \in Cursors /\ Elsewhere.at # "section" /\ <<>> \in Seq(Int)
    BY EmptySeq DEF Elsewhere, At, Cursors
  <1>2. NoCall \in Frames /\ NoCall.cpos = Elsewhere
    BY <1>1 DEF NoCall, Frames, EntryStates
  <1>3. /\ [NoCall EXCEPT !.alone = a, !.hit = h] \in Frames
        /\ [NoCall EXCEPT !.alone = a, !.hit = h].cpos = Elsewhere
    BY <1>2 DEF Frames
  <1> QED
    BY <1>1, <1>2, <1>3

LEMMA FitsIdle ==
    ASSUME NEW f, f.cpos.at # "section", NEW ss, NEW counted
    PROVE  Fits("idle", f, ss, counted)
  BY DEF Fits, InTable, AtEntry

\* What holds of a call holds when the segments stay, and does not depend on
\* whether the call is alone.
LEMMA FitsLater ==
    ASSUME NEW ss, NEW tt, SegsOK(ss), SegsOK(tt), Stays(ss, tt), NEW p, NEW counted,
           NEW f \in Frames, Fits(p, f, ss, counted)
    PROVE  Fits(p, f, tt, counted)
  <1>1. PICK n \in Nat : Len(ss) = n /\ Len(tt) = n
    BY LenProperties DEF SegsOK, Stays
  <1>2. \A i \in 1..n : Later(ss[i], tt[i])
    BY <1>1 DEF Stays
  <1>3. f.seg \in Nat /\ f.tab \in Nat
    BY FrameFields
  <1>4. ASSUME f.seg \in 1..(n + 1), Behind(f, ss)
        PROVE  Behind(f, tt)
    <2> SUFFICES ASSUME f.seg > 1
                 PROVE  /\ tt[f.seg - 1].decoded
                        /\ f.sector >= tt[f.seg - 1].sectorOffset + tt[f.seg - 1].sectorCount
      BY DEF Behind
    <2>1. f.seg - 1 \in 1..n
      BY <1>3, <1>4
    <2>2. Later(ss[f.seg - 1], tt[f.seg - 1])
      BY <1>2, <2>1
    <2> QED
      BY <1>4, <2>2 DEF Behind, Later
  <1>5. ASSUME p \in InTable
        PROVE  /\ f.seg \in 1..n /\ tt[f.seg].decoded
               /\ f.tab \in 1..Len(tt[f.seg].tables)
               /\ \/ f.count = 0
                  \/ f.sector >= tt[f.seg].sectorOffset + tt[f.seg].sectorCount
               /\ SameTable(ss[f.seg].tables[f.tab], tt[f.seg].tables[f.tab])
    <2>1. /\ f.seg \in 1..n /\ ss[f.seg].decoded /\ f.tab \in 1..Len(ss[f.seg].tables)
          /\ f.count = 0 \/ f.sector >= ss[f.seg].sectorOffset + ss[f.seg].sectorCount
      BY <1>1, <1>5 DEF Fits
    <2>2. Later(ss[f.seg], tt[f.seg])
      BY <1>2, <2>1
    <2>3. ss[f.seg].tables \in Seq(Tables)
      BY <1>1, <2>1, SegmentFields DEF SegsOK, SegmentOK
    <2>4. DOMAIN ss[f.seg].tables = 1..Len(ss[f.seg].tables)
      BY <2>3, LenProperties
    <2> QED
      BY <2>1, <2>2, <2>4 DEF Later
  <1>6. p \in AtEntry => p \in InTable
    BY DEF AtEntry, InTable
  <1> QED
    BY <1>1, <1>4, <1>5, <1>6 DEF Fits, SameTable

LEMMA FitsAlone ==
    ASSUME NEW p, NEW f \in Frames, NEW ss, NEW counted, NEW a \in BOOLEAN,
           Fits(p, f, ss, counted)
    PROVE  /\ [f EXCEPT !.alone = a] \in Frames
           /\ Fits(p, [f EXCEPT !.alone = a], ss, counted)
  <1> DEFINE g == [f EXCEPT !.alone = a]
  <1>1. /\ g \in Frames /\ g.cpos = f.cpos /\ g.seg = f.seg /\ g.sector = f.sector
        /\ g.count = f.count /\ g.tab = f.tab /\ g.at = f.at
    BY DEF Frames
  <1> HIDE DEF g
  <1>2. Fits(p, g, ss, counted)
    BY <1>1 DEF Fits, Behind
  <1> QED
    BY <1>1, <1>2 DEF g

\* A segment replaced by a later one.
LEMMA ReplaceSegment ==
    ASSUME NEW ss, SegsOK(ss), NEW i \in 1..Len(ss), NEW new, SegmentOK(new),
           Later(ss[i], new),
           ss[i].decoded \/ new.sectorOffset = 0 \/
             (i > 1 /\ ss[i - 1].decoded
                /\ new.sectorOffset = ss[i - 1].sectorOffset + ss[i - 1].sectorCount)
    PROVE  SegsOK([ss EXCEPT ![i] = new]) /\ Stays(ss, [ss EXCEPT ![i] = new])
  <1> DEFINE tt == [ss EXCEPT ![i] = new]
  <1>1. ss \in Seq(Segment) /\ new \in Segment
    BY DEF SegsOK, SegmentOK
  <1>2. PICK n \in Nat : Len(ss) = n /\ DOMAIN ss = 1..n
    BY <1>1, LenProperties
  <1>3. /\ tt \in Seq(Segment) /\ Len(tt) = n
        /\ \A j \in 1..n : tt[j] = IF j = i THEN new ELSE ss[j]
    BY <1>1, <1>2, ExceptSeq
  <1> HIDE DEF tt
  <1>4. \A j \in 1..n : SegmentOK(ss[j]) /\ Linked(ss, j)
    BY <1>2 DEF SegsOK
  <1>5. \A j \in 1..n : Later(ss[j], tt[j])
    BY <1>3, LaterSame
  <1>6. \A j \in 1..n : SegmentOK(tt[j])
    BY <1>3, <1>4
  <1>7. ASSUME NEW j \in 1..n
        PROVE  Linked(tt, j)
    <2>1. ss[j].decoded \/ j # i => Linked(ss, j) /\ tt[j].sectorOffset = ss[j].sectorOffset
      BY <1>3, <1>4, <1>5 DEF Later
    <2>2. j > 1 /\ ss[j - 1].decoded =>
            /\ tt[j - 1].decoded /\ tt[j - 1].sectorOffset = ss[j - 1].sectorOffset
            /\ tt[j - 1].sectorCount = ss[j - 1].sectorCount
      <3>1. j > 1 => j - 1 \in 1..n
        OBVIOUS
      <3> QED
        BY <1>5, <3>1 DEF Later
    <2>3. CASE ss[j].decoded \/ j # i
      BY <2>1, <2>2, <2>3 DEF Linked
    <2>4. CASE ~ss[j].decoded /\ j = i
      BY <1>2, <1>3, <2>2, <2>4 DEF Linked
    <2> QED
      BY <2>3, <2>4
  <1>8. SegsOK(tt)
    BY <1>3, <1>6, <1>7 DEF SegsOK
  <1>9. Stays(ss, tt)
    BY <1>2, <1>3, <1>5 DEF Stays
  <1> QED
    BY <1>8, <1>9 DEF tt

(***************************************************************************)
(* The ends of the steps.                                                  *)
(***************************************************************************)
\* What a step leaves of the segments.
SegsStep == SegsOK(segs') /\ Stays(segs, segs')

LEMMA Unchanged ==
    ASSUME NEW counted, Inv(counted), segs' = segs
    PROVE  SegsStep
  BY LaterSame DEF Inv, SegsStep, Stays

\* The other calls go on as they were.
LEMMA OthersFit ==
    ASSUME NEW counted, Inv(counted), SegsStep, NEW c \in Clients
    PROVE  /\ frame[c] \in Frames /\ result[c] \in Results /\ pc[c] \in Places
           /\ Fits(pc[c], frame[c], segs', counted)
           /\ Len(result[c].data) <= result[c].len
  <1>1. /\ frame[c] \in Frames /\ result[c] \in Results /\ pc[c] \in Places
        /\ Fits(pc[c], frame[c], segs, counted) /\ Len(result[c].data) <= result[c].len
    BY DEF Inv
  <1>2. SegsOK(segs)
    BY DEF Inv
  <1> QED
    BY <1>1, <1>2, FitsLater DEF SegsStep

LEMMA GotoOK ==
    ASSUME NEW counted, Inv(counted), SegsStep, NEW c \in Clients, pc[c] # "idle",
           NEW place \in Places, NEW f \in Frames, Fits(place, f, segs', counted),
           Goto(c, place, f), UNCHANGED opened, faults' \in 0..MaxFaults
    PROVE  Inv(counted)'
  <1>1. /\ opened' = "yes" /\ position' \in Nat /\ faults' \in 0..MaxFaults
        /\ pc' = [pc EXCEPT ![c] = place] /\ frame' = [frame EXCEPT ![c] = f]
        /\ result' = result
    BY DEF Goto, Inv
  <1>2. /\ pc' \in [Clients -> Places] /\ frame' \in [Clients -> Frames]
        /\ result' \in [Clients -> Results]
    BY <1>1 DEF Inv
  <1>3. ASSUME NEW d \in Clients
        PROVE  /\ Fits(pc'[d], frame'[d], segs', counted)
               /\ Len(result'[d].data) <= result'[d].len
    <2>1. CASE d = c
      <3>1. pc'[d] = place /\ frame'[d] = f
        BY <1>1, <2>1 DEF Inv
      <3> QED
        BY <1>1, <3>1, OthersFit
    <2>2. CASE d # c
      <3>1. pc'[d] = pc[d] /\ frame'[d] = frame[d]
        BY <1>1, <2>2 DEF Inv
      <3> QED
        BY <1>1, <3>1, OthersFit
    <2> QED
      BY <2>1, <2>2
  <1> QED
    BY <1>1, <1>2, <1>3 DEF Inv, SegsStep

LEMMA OutcomeType ==
    ASSUME NEW off \in Nat, NEW len \in Nat, NEW data \in Seq(Int), NEW err \in Errors
    PROVE  /\ Outcome(off, len, data, err) \in Results
           /\ Outcome(off, len, data, err).data = data
           /\ Outcome(off, len, data, err).len = len
  BY DEF Outcome, Results

LEMMA EndOK ==
    ASSUME NEW counted, Inv(counted), SegsStep, NEW c \in Clients,
           NEW data \in Seq(Int), Len(data) <= frame[c].len, NEW err \in Errors,
           NEW hit \in BOOLEAN,
           End(c, data, err, hit), UNCHANGED opened, faults' \in 0..MaxFaults
    PROVE  Inv(counted)'
  <1> DEFINE g == [NoCall EXCEPT !.alone = frame[c].alone, !.hit = hit]
             r == Outcome(frame[c].off, frame[c].len, data, err)
  <1>1. /\ frame[c] \in Frames /\ frame[c].alone \in BOOLEAN /\ frame[c].off \in Nat
        /\ frame[c].len \in Nat
    BY FrameFields DEF Inv
  <1>2. g \in Frames /\ g.cpos.at # "section"
    BY <1>1, NoCallType, Zenon
  <1>3. /\ opened' = opened /\ faults' \in 0..MaxFaults
        /\ pc' = [pc EXCEPT ![c] = "idle"] /\ frame' = [frame EXCEPT ![c] = g]
        /\ result' = result \/ result' = [result EXCEPT ![c] = r]
        /\ position' = position \/ position' = position + Len(data)
    BY DEF End
  <1>4. r \in Results /\ r.data = data /\ r.len = frame[c].len
    BY <1>1, OutcomeType
  <1>5. position' \in Nat
    <2>1. Len(data) \in Nat /\ position \in Nat
      BY LenProperties DEF Inv
    <2> QED
      BY <1>3, <2>1
  <1> HIDE DEF g, r
  <1>6. /\ pc' \in [Clients -> Places] /\ frame' \in [Clients -> Frames]
        /\ result' \in [Clients -> Results] /\ opened' \in {"no", "yes", "panic"}
    BY <1>2, <1>3, <1>4 DEF Inv, Places
  <1>7. ASSUME NEW d \in Clients
        PROVE  /\ Fits(pc'[d], frame'[d], segs', counted)
               /\ Len(result'[d].data) <= result'[d].len
               /\ pc'[d] # "idle" => opened' = "yes"
    <2>1. CASE d = c
      <3>1. pc'[d] = "idle" /\ frame'[d] = g /\ (result'[d] = result[d] \/ result'[d] = r)
        BY <1>3, <2>1 DEF Inv
      <3>2. Fits("idle", g, segs', counted)
        BY <1>2, FitsIdle
      <3> QED
        BY <1>4, <2>1, <3>1, <3>2, OthersFit
    <2>2. CASE d # c
      <3>1. pc'[d] = pc[d] /\ frame'[d] = frame[d] /\ result'[d] = result[d]
        BY <1>3, <2>2 DEF Inv
      <3> QED
        BY <1>3, <3>1, OthersFit DEF Inv
    <2> QED
      BY <2>1, <2>2
  <1> QED
    BY <1>3, <1>5, <1>6, <1>7 DEF Inv, SegsStep

LEMMA ReturnNothingOK ==
    ASSUME NEW counted, Inv(counted), SegsStep, NEW c \in Clients, NEW err \in Errors,
           Return(c, <<>>, err), UNCHANGED opened, faults' \in 0..MaxFaults
    PROVE  Inv(counted)'
  <1>1. <<>> \in Seq(Int) /\ Len(<<>>) <= frame[c].len
    <2>1. frame[c].len \in Nat
      BY FrameFields DEF Inv
    <2> QED
      BY <2>1, EmptySeq
  <1> QED
    BY <1>1, EndOK DEF Return

LEMMA FaultOK ==
    ASSUME NEW counted, Inv(counted), SegsStep, NEW c \in Clients, Fault(c),
           faults < MaxFaults, UNCHANGED opened
    PROVE  Inv(counted)'
  <1>1. PICK err \in FaultErrors : End(c, <<>>, err, TRUE)
    BY DEF Fault
  <1>2. faults' \in 0..MaxFaults
    BY ReaderAssumption DEF Fault, Inv
  <1>3. err \in Errors
    BY ReaderAssumption DEF Errors
  <1>4. <<>> \in Seq(Int) /\ Len(<<>>) <= frame[c].len
    <2>1. frame[c].len \in Nat
      BY FrameFields DEF Inv
    <2> QED
      BY <2>1, EmptySeq
  <1> QED
    BY <1>1, <1>2, <1>3, <1>4, EndOK

LEMMA BeginOK ==
    ASSUME NEW counted, Inv(counted), NEW c \in Clients, opened = "yes",
           NEW place \in Places, NEW call \in Frames, Begin(c, place, call),
           Fits(place, call, segs, counted)
    PROVE  Inv(counted)'
  <1>1. /\ pc' = [pc EXCEPT ![c] = place] /\ result' = [result EXCEPT ![c] = NoOutcome]
        /\ opened' = opened /\ segs' = segs /\ position' = position /\ faults' = faults
    BY DEF Begin
  <1>2. frame' = [d \in Clients |->
                    IF d = c THEN [call EXCEPT !.alone = Others(c) = {}]
                    ELSE IF d \in Others(c) THEN [frame[d] EXCEPT !.alone = FALSE]
                    ELSE frame[d]]
    BY DEF Begin
  <1>3. NoOutcome \in Results /\ Len(NoOutcome.data) <= NoOutcome.len
    <2>1. <<>> \in Seq(Int) /\ Len(<<>>) = 0 /\ "none" \in Errors /\ 0 \in Nat
      BY EmptySeq DEF Errors
    <2>2. NoOutcome \in Results /\ NoOutcome.data = <<>> /\ NoOutcome.len = 0
      BY <2>1 DEF NoOutcome, Outcome, Results
    <2> QED
      BY <2>1, <2>2
  <1>4. SegsStep
    BY <1>1, Unchanged
  <1>5. ASSUME NEW d \in Clients
        PROVE  /\ frame'[d] \in Frames /\ Fits(pc'[d], frame'[d], segs', counted)
               /\ result'[d] \in Results /\ Len(result'[d].data) <= result'[d].len
               /\ pc'[d] \in Places
    <2>1. CASE d = c
      <3> DEFINE a == Others(c) = {}
      <3>1. a \in BOOLEAN
        OBVIOUS
      <3>2. frame'[d] = [call EXCEPT !.alone = a] /\ pc'[d] = place /\ result'[d] = NoOutcome
        BY <1>1, <1>2, <2>1 DEF Inv
      <3> HIDE DEF a
      <3>3. frame'[d] \in Frames /\ Fits(place, frame'[d], segs, counted)
        BY <3>1, <3>2, FitsAlone
      <3> QED
        BY <1>1, <1>3, <3>2, <3>3
    <2>2. CASE d # c
      <3>1. pc'[d] = pc[d] /\ result'[d] = result[d]
        BY <1>1, <2>2 DEF Inv
      <3>2. frame'[d] = frame[d] \/ frame'[d] = [frame[d] EXCEPT !.alone = FALSE]
        BY <1>2, <2>2
      <3>3. /\ frame[d] \in Frames /\ result[d] \in Results /\ pc[d] \in Places
            /\ Fits(pc[d], frame[d], segs', counted)
            /\ Len(result[d].data) <= result[d].len
        BY <1>4, OthersFit
      <3>4. /\ [frame[d] EXCEPT !.alone = FALSE] \in Frames
            /\ Fits(pc[d], [frame[d] EXCEPT !.alone = FALSE], segs', counted)
        BY <3>3, FitsAlone
      <3>5. frame'[d] \in Frames /\ Fits(pc[d], frame'[d], segs', counted)
        BY <3>2, <3>3, <3>4
      <3> QED
        BY <3>1, <3>3, <3>5
    <2> QED
      BY <2>1, <2>2
  <1>6. /\ pc' \in [Clients -> Places] /\ frame' \in [Clients -> Frames]
        /\ result' \in [Clients -> Results]
    BY <1>1, <1>2, <1>3, <1>5 DEF Inv
  <1> QED
    BY <1>1, <1>5, <1>6 DEF Inv

(***************************************************************************)
(* The actions that are the same in both readers.                          *)
(***************************************************************************)
\* What EWFSegment.Decode of seg may come to.
DecodesTo(a, seg, link) ==
    /\ SegmentOK(a.gives) /\ a.gives.file = seg.file
    /\ a.out \in {"ok", "error", "fault", "panic"}
    /\ a.out = "fault" => faults < MaxFaults
    /\ a.out = "ok" => a.gives.decoded
    /\ a.gives.decoded => a.gives.sectorOffset = LinkEnd(link)

LEMMA InitOK == ASSUME NEW counted, Init PROVE Inv(counted)
  <1>1. /\ opened = "no" /\ segs = <<>> /\ position = 0 /\ faults = 0
        /\ pc = [c \in Clients |-> "idle"] /\ frame = [c \in Clients |-> NoCall]
        /\ result = [c \in Clients |-> NoOutcome]
    BY DEF Init
  <1>2. NoCall \in Frames /\ NoCall.cpos.at # "section"
    BY NoCallType, Zenon
  <1>3. Fits("idle", NoCall, segs, counted)
    BY <1>2, FitsIdle
  <1>4. NoOutcome \in Results /\ Len(NoOutcome.data) <= NoOutcome.len
    <2>1. <<>> \in Seq(Int) /\ Len(<<>>) = 0 /\ "none" \in Errors /\ 0 \in Nat
      BY EmptySeq DEF Errors
    <2> QED
      BY <2>1 DEF NoOutcome, Outcome, Results
  <1>5. SegsOK(segs)
    BY <1>1, EmptySeq DEF SegsOK
  <1>6. 0 \in 0..MaxFaults
    BY ReaderAssumption
  <1> QED
    BY <1>1, <1>2, <1>3, <1>4, <1>5, <1>6 DEF Inv, Places

\* A sorted list of some files is a list of files, as long as the list.
LEMMA SortedType ==
    ASSUME NEW fs \in Given, NEW order \in Sorted(fs)
    PROVE  /\ order \in Seq(DOMAIN Files) /\ Len(order) = Len(fs) /\ Len(fs) # 0
  <1>1. fs \in Seq(DOMAIN Files) /\ fs # <<>>
    BY ReaderAssumption
  <1>2. PICK n \in Nat : Len(fs) = n /\ DOMAIN fs = 1..n
    BY <1>1, LenProperties
  <1>3. PICK p \in Bijection(1..n, 1..n) : order = [i \in 1..n |-> fs[p[i]]]
    BY <1>2 DEF Sorted
  <1>4. p \in [1..n -> 1..n]
    BY <1>3 DEF Bijection, Injection
  <1>5. order \in [1..n -> DOMAIN Files]
    BY <1>1, <1>2, <1>3, <1>4, ElementOfSeq
  <1>6. order \in Seq(DOMAIN Files) /\ Len(order) = n
    BY <1>5, SeqDef, LenProperties
  <1> QED
    BY <1>1, <1>2, <1>6, EmptySeq

\* The segments of OpenEWF: the first decoded, the others as they come.
LEMMA OpenedSegments ==
    ASSUME NEW order \in Seq(DOMAIN Files), Len(order) # 0, NEW a,
           DecodesTo(a, NewSegment(Head(order)), <<>>)
    PROVE  SegsOK(<<a.gives>> \o [i \in 1..(Len(order) - 1) |-> NewSegment(order[i + 1])])
  <1>1. PICK n \in Nat : Len(order) = n + 1 /\ n + 1 \in Nat
    <2>1. PICK k \in Nat : Len(order) = k
      BY LenProperties
    <2>2. k - 1 \in Nat /\ k = (k - 1) + 1
      BY <2>1
    <2> QED
      BY <2>1, <2>2
  <1> DEFINE rest == [i \in 1..n |-> NewSegment(order[i + 1])]
             ss == <<a.gives>> \o rest
  <1>2. \A i \in 1..n : SegmentOK(NewSegment(order[i + 1])) /\ NewSegment(order[i + 1]).sectorOffset = 0
    <2> TAKE i \in 1..n
    <2>1. order[i + 1] \in DOMAIN Files
      <3>1. i + 1 \in 1..Len(order)
        BY <1>1
      <3> QED
        BY <3>1, ElementOfSeq
    <2> QED
      BY <2>1, NewSegmentOK DEF NewSegment
  <1>3. SegmentOK(a.gives) /\ a.gives \in Segment /\ a.gives.sectorOffset = 0
    BY DEF DecodesTo, SegmentOK, LinkEnd
  <1>4. rest \in Seq(Segment) /\ Len(rest) = n
    <2>1. rest \in [1..n -> Segment]
      BY <1>2 DEF SegmentOK
    <2> QED
      BY <2>1, SeqDef, LenProperties
  <1>5. <<a.gives>> \in Seq(Segment) /\ Len(<<a.gives>>) = 1 /\ <<a.gives>>[1] = a.gives
    BY <1>3
  <1>6. \A i \in 1..n : SegmentOK(rest[i]) /\ rest[i].sectorOffset = 0
    BY <1>2
  <1> HIDE DEF rest
  <1>7. /\ ss \in Seq(Segment) /\ Len(ss) = Len(<<a.gives>>) + Len(rest)
        /\ \A i \in 1..(Len(<<a.gives>>) + Len(rest)) :
             ss[i] = IF i <= Len(<<a.gives>>) THEN <<a.gives>>[i]
                     ELSE rest[i - Len(<<a.gives>>)]
    BY <1>4, <1>5, ConcatProperties, Zenon
  <1>8. Len(ss) = n + 1 /\ \A i \in 1..(n + 1) : ss[i] = IF i = 1 THEN a.gives ELSE rest[i - 1]
    BY <1>4, <1>5, <1>7
  <1>9. ASSUME NEW i \in 1..(n + 1)
        PROVE  SegmentOK(ss[i]) /\ ss[i].sectorOffset = 0
    <2>1. i # 1 => i - 1 \in 1..n
      OBVIOUS
    <2> QED
      BY <1>3, <1>6, <1>8, <2>1
  <1>10. SegsOK(ss)
    BY <1>7, <1>8, <1>9 DEF SegsOK, Linked
  <1> QED
    BY <1>1, <1>10 DEF rest

LEMMA OpenEWFOK ==
    ASSUME NEW counted, Inv(counted), NEW decodes, OpenEWF(decodes),
           \A f \in DOMAIN Files : \A a \in decodes[f] : DecodesTo(a, NewSegment(f), <<>>)
    PROVE  Inv(counted)'
  <1> DEFINE Opens(order, a) ==
        /\ opened' = CASE a.out = "ok" -> "yes" [] a.out = "panic" -> "panic"
                       [] OTHER -> "no"
        /\ segs' = IF a.out = "ok"
                   THEN <<a.gives>> \o [i \in 1..(Len(order) - 1) |-> NewSegment(order[i + 1])]
                   ELSE <<>>
        /\ faults' = faults + (IF a.out = "fault" THEN 1 ELSE 0)
  <1>1. PICK fs \in Given : \E order \in Sorted(fs) :
          \E a \in decodes[Head(order)] : Opens(order, a)
    BY DEF OpenEWF
  <1>2. PICK order \in Sorted(fs) : \E a \in decodes[Head(order)] : Opens(order, a)
    BY <1>1
  <1>3. PICK a \in decodes[Head(order)] : Opens(order, a)
    BY <1>2
  <1>4. opened = "no" /\ UNCHANGED <<position, pc, frame, result>>
    BY DEF OpenEWF
  <1>5. order \in Seq(DOMAIN Files) /\ Len(order) # 0
    BY SortedType
  <1>6. Head(order) \in DOMAIN Files
    BY <1>5, EmptySeq, HeadTailProperties
  <1>7. DecodesTo(a, NewSegment(Head(order)), <<>>)
    BY <1>6
  <1>8. SegsOK(segs')
    <2>1. SegsOK(<<>>)
      BY EmptySeq DEF SegsOK
    <2> QED
      BY <1>3, <1>5, <1>7, <2>1, OpenedSegments
  <1>9. faults' \in 0..MaxFaults
    BY <1>3, <1>7, ReaderAssumption DEF DecodesTo, Inv
  <1>10. opened' \in {"no", "yes", "panic"}
    BY <1>3
  <1> HIDE DEF Opens
  <1>11. ASSUME NEW c \in Clients
         PROVE  pc[c] = "idle" /\ Fits(pc[c], frame[c], segs', counted)
    <2>1. pc[c] = "idle" /\ Fits(pc[c], frame[c], segs, counted)
      BY <1>4 DEF Inv
    <2> QED
      BY <2>1 DEF Fits, InTable, AtEntry
  <1> QED
    BY <1>4, <1>8, <1>9, <1>10, <1>11 DEF Inv

LEMMA BeginReadOK ==
    ASSUME NEW counted, Inv(counted), NEW c \in Clients, opened = "yes",
           NEW call \in {"ReadAt", "Read"}, NEW off \in Nat, NEW len \in Nat,
           BeginRead(c, call, off, len)
    PROVE  Inv(counted)'
  <1> DEFINE f == [NoCall EXCEPT !.call = call, !.off = off, !.len = len, !.seg = 1,
                                 !.sector = off \div SectorSize,
                                 !.count = SectorsAsked(off, len)]
  <1>1. off \div SectorSize \in Nat /\ SectorsAsked(off, len) \in Nat
    <2>1. SectorSize \in Nat \ {0}
      BY ReadAtAssumption
    <2>2. off % SectorSize \in Nat
      BY <2>1
    <2>3. PICK k \in Nat : k = (IF FromSectorStart THEN off % SectorSize ELSE 0) + len
      BY <2>2
    <2>4. (k + SectorSize - 1) \div SectorSize \in Nat
      BY <2>1
    <2> QED
      BY <2>1, <2>3, <2>4 DEF SectorsAsked, CeilDiv
  <1>2. NoCall \in Frames /\ NoCall.cpos.at # "section"
    BY NoCallType, Zenon
  <1>3. f \in Frames /\ f.cpos = NoCall.cpos /\ f.seg = 1
    BY <1>1, <1>2 DEF Frames
  <1>4. Begin(c, "find", f)
    BY DEF BeginRead
  <1> HIDE DEF f
  <1>5. Fits("find", f, segs, counted)
    <2>1. Len(segs) \in Nat
      BY LenProperties DEF Inv, SegsOK
    <2> QED
      BY <1>2, <1>3, <2>1 DEF Fits, Behind, InTable, AtEntry
  <1>6. "find" \in Places
    BY DEF Places
  <1> QED
    BY <1>3, <1>4, <1>5, <1>6, BeginOK

LEMMA CallOK ==
    ASSUME NEW counted, Inv(counted), NEW c \in Clients, Call(c)
    PROVE  Inv(counted)'
  <1>1. CASE CallReadAt(c)
    <2>1. opened = "yes"
      BY <1>1 DEF CallReadAt, Idle
    <2>2. PICK off \in Offsets, len \in Lengths : BeginRead(c, "ReadAt", off, len)
      BY <1>1 DEF CallReadAt
    <2>3. off \in Nat /\ len \in Nat
      BY ReaderAssumption
    <2> QED
      BY <2>1, <2>2, <2>3, BeginReadOK
  <1>2. CASE CallRead(c)
    <2>1. opened = "yes"
      BY <1>2 DEF CallRead, Idle
    <2>2. PICK len \in Lengths : BeginRead(c, "Read", position, len)
      BY <1>2 DEF CallRead
    <2>3. position \in Nat /\ len \in Nat
      BY ReaderAssumption DEF Inv
    <2> QED
      BY <2>1, <2>2, <2>3, BeginReadOK
  <1>3. CASE CallSegment(c)
    <2>1. opened = "yes"
      BY <1>3 DEF CallSegment, Idle
    <2>2. PICK i \in DOMAIN segs :
            Begin(c, "asked", [NoCall EXCEPT !.call = "Segment", !.seg = i])
      BY <1>3, Zenon DEF CallSegment
    <2> DEFINE f == [NoCall EXCEPT !.call = "Segment", !.seg = i]
    <2>3. i \in Nat
      BY LenProperties DEF Inv, SegsOK
    <2>4. NoCall \in Frames /\ NoCall.cpos.at # "section"
      BY NoCallType, Zenon
    <2>5. f \in Frames /\ f.cpos = NoCall.cpos
      BY <2>3, <2>4 DEF Frames
    <2>6. Begin(c, "asked", f)
      BY <2>2
    <2> HIDE DEF f
    <2>7. Fits("asked", f, segs, counted) /\ "asked" \in Places
      BY <2>4, <2>5 DEF Fits, InTable, AtEntry, Places
    <2> QED
      BY <2>1, <2>5, <2>6, <2>7, BeginOK
  <1>4. CASE Seek(c)
    <2>1. position' \in Nat /\ UNCHANGED <<opened, segs, pc, frame, result, faults>>
      BY <1>4, ReaderAssumption DEF Seek
    <2> QED
      BY <2>1 DEF Inv
  <1> QED
    BY <1>1, <1>2, <1>3, <1>4 DEF Call

LEMMA LesserIs ==
    ASSUME NEW a \in Int, NEW b \in Int
    PROVE  /\ Lesser(a, b) \in Int /\ Lesser(a, b) <= a /\ Lesser(a, b) <= b
           /\ Lesser(a, b) = a \/ Lesser(a, b) = b
  BY DEF Lesser

\* What holds of the call of a client that runs.
LEMMA OfCall ==
    ASSUME NEW counted, Inv(counted), NEW c \in Clients
    PROVE  /\ frame[c] \in Frames
           /\ frame[c].cpos.at = "section" => frame[c].cpos.n # 0
           /\ Fits(pc[c], frame[c], segs, counted) /\ faults \in 0..MaxFaults
           /\ SegsOK(segs) /\ Len(segs) \in Nat /\ DOMAIN segs = 1..Len(segs)
           /\ \A i \in 1..Len(segs) : SegmentOK(segs[i])
  BY LenProperties DEF Inv, Fits, SegsOK

LEMMA SegmentAskedOK ==
    ASSUME NEW counted, Inv(counted), NEW c \in Clients, SegmentAsked(c)
    PROVE  Inv(counted)'
  <1>1. Return(c, <<>>, "nil") /\ UNCHANGED <<opened, segs, faults>>
    BY DEF SegmentAsked, Quiet
  <1>2. SegsStep
    BY <1>1, Unchanged
  <1>3. "nil" \in Errors /\ faults' \in 0..MaxFaults
    BY <1>1, OfCall DEF Errors
  <1> QED
    BY <1>1, <1>2, <1>3, ReturnNothingOK

\* Decoding a segment: elem.Prev() is decoded, or its end is 0.
LEMMA DecodeSegmentOK ==
    ASSUME NEW counted, Inv(counted), NEW c \in Clients, NEW decodes,
           DecodeSegment(c, decodes),
           \A a \in decodes : DecodesTo(a, SegmentOf(c), LinkOf(c))
    PROVE  Inv(counted)'
  <1> DEFINE i == frame[c].seg
  <1>1. PICK a \in decodes :
          /\ segs' = [segs EXCEPT ![i] = a.gives]
          /\ CASE a.out = "ok" -> UNCHANGED <<pc, frame, position, result, faults>>
               [] a.out = "fault" -> Fault(c)
               [] OTHER -> Return(c, <<>>, a.out) /\ UNCHANGED faults
    BY DEF DecodeSegment
  <1>2. i \in DOMAIN segs /\ ~segs[i].decoded /\ opened' = opened
    BY DEF DecodeSegment
  <1>3. i \in 1..Len(segs) /\ Len(segs) \in Nat /\ \A k \in 1..Len(segs) : SegmentOK(segs[k])
    BY <1>2, OfCall
  <1>4. DecodesTo(a, segs[i], LinkOf(c))
    BY DEF SegmentOf
  <1>5. Later(segs[i], a.gives)
    BY <1>2, <1>4 DEF Later, DecodesTo
  <1>6. a.gives.sectorOffset = 0 \/
          (i > 1 /\ segs[i - 1].decoded
             /\ a.gives.sectorOffset = segs[i - 1].sectorOffset + segs[i - 1].sectorCount)
    <2>1. CASE ~a.gives.decoded
      BY <1>4, <2>1 DEF DecodesTo, SegmentOK
    <2>2. CASE a.gives.decoded /\ i = 1
      BY <1>4, <2>2 DEF DecodesTo, LinkOf, LinkEnd
    <2>3. CASE a.gives.decoded /\ i # 1
      <3>1. i - 1 \in 1..Len(segs)
        BY <1>3, <2>3
      <3>2. LinkOf(c) = <<segs[i - 1]>>
        BY <2>3 DEF LinkOf
      <3>3. LinkEnd(LinkOf(c)) = segs[i - 1].sectorOffset + segs[i - 1].sectorCount
        BY <3>2 DEF LinkEnd
      <3>4. ~segs[i - 1].decoded =>
               segs[i - 1].sectorOffset = 0 /\ segs[i - 1].sectorCount = 0
        BY <1>3, <3>1 DEF SegmentOK
      <3> QED
        BY <1>3, <1>4, <2>3, <3>3, <3>4 DEF DecodesTo
    <2> QED
      BY <2>1, <2>2, <2>3
  <1>7. SegmentOK(a.gives)
    BY <1>4 DEF DecodesTo
  <1>8. SegsOK(segs)
    BY DEF Inv
  <1> HIDE DEF i
  <1>9. SegsStep
    BY <1>1, <1>3, <1>5, <1>6, <1>7, <1>8, ReplaceSegment DEF SegsStep
  <1>10. CASE a.out = "ok"
    <2>1. UNCHANGED <<opened, pc, frame, position, result, faults>>
      BY <1>1, <1>2, <1>10
    <2>2. \A d \in Clients : Fits(pc[d], frame[d], segs', counted)
      BY <1>9, OthersFit
    <2> QED
      BY <1>9, <2>1, <2>2 DEF Inv, SegsStep
  <1>11. CASE a.out = "fault"
    <2>1. Fault(c) /\ faults < MaxFaults
      BY <1>1, <1>4, <1>11 DEF DecodesTo
    <2> QED
      BY <1>2, <1>9, <2>1, FaultOK
  <1>12. CASE a.out \in {"error", "panic"}
    <2>1. Return(c, <<>>, a.out) /\ UNCHANGED faults
      BY <1>1, <1>12
    <2>2. a.out \in Errors /\ faults' \in 0..MaxFaults
      BY <1>12, <2>1, OfCall DEF Errors
    <2> QED
      BY <1>2, <1>9, <2>1, <2>2, ReturnNothingOK
  <1> QED
    BY <1>4, <1>10, <1>11, <1>12 DEF DecodesTo

LEMMA NextSegFrame ==
    ASSUME NEW f \in Frames
    PROVE  LET g == [f EXCEPT !.seg = @ + 1]
           IN  /\ g \in Frames /\ g.seg = f.seg + 1 /\ g.cpos = f.cpos
               /\ g.sector = f.sector /\ g.count = f.count
  <1> DEFINE g == [f EXCEPT !.seg = @ + 1]
  <1>1. PICK k \in Nat : k = f.seg + 1
    BY FrameFields
  <1>2. g = [f EXCEPT !.seg = k]
    BY <1>1
  <1> HIDE DEF g
  <1>3. /\ g \in Frames /\ g.seg = f.seg + 1 /\ g.cpos = f.cpos
        /\ g.sector = f.sector /\ g.count = f.count
    BY <1>1, <1>2 DEF Frames
  <1> QED
    BY <1>3 DEF g

LEMMA FindOK ==
    ASSUME NEW counted, Inv(counted), NEW c \in Clients, Find(c)
    PROVE  Inv(counted)'
  <1> DEFINE f == frame[c]
  <1>1. pc[c] = "find" /\ UNCHANGED <<opened, segs, faults>>
    BY DEF Find, Quiet
  <1>2. SegsStep /\ faults' \in 0..MaxFaults
    BY <1>1, Unchanged, OfCall
  <1>3. f \in Frames /\ (f.cpos.at = "section" => f.cpos.n # 0) /\ Len(segs) \in Nat
    BY OfCall
  <1>4. f.seg \in 1..(Len(segs) + 1) /\ Behind(f, segs)
    BY <1>1, OfCall DEF Fits
  <1>5. CASE f.seg > Len(segs) /\ Return(c, <<>>, "range")
    <2>1. "range" \in Errors
      BY DEF Errors
    <2> QED
      BY <1>1, <1>2, <1>5, <2>1, ReturnNothingOK
  <1>6. CASE /\ f.seg <= Len(segs) /\ segs[f.seg].decoded
             /\ f.sector >= segs[f.seg].sectorOffset + segs[f.seg].sectorCount
             /\ Goto(c, "find", [f EXCEPT !.seg = @ + 1])
    <2> DEFINE g == [f EXCEPT !.seg = @ + 1]
    <2>1. Goto(c, "find", g)
      BY <1>6
    <2> HIDE DEF f
    <2>2. g \in Frames /\ g.seg = f.seg + 1 /\ g.cpos = f.cpos /\ g.sector = f.sector
      BY <1>3, NextSegFrame
    <2> HIDE DEF g
    <2>3. g.seg \in 1..(Len(segs) + 1) /\ g.seg - 1 = f.seg
      BY <1>3, <1>4, <1>6, <2>2
    <2>4. Behind(g, segs)
      BY <1>6, <2>2, <2>3 DEF Behind
    <2>5. Fits("find", g, segs', counted) /\ "find" \in Places
      BY <1>1, <1>3, <2>2, <2>3, <2>4 DEF Fits, InTable, AtEntry, Places
    <2> QED
      BY <1>1, <1>2, <2>1, <2>2, <2>5, GotoOK
  <1>7. CASE f.seg <= Len(segs) /\ Goto(c, "segment", f)
    <2> HIDE DEF f
    <2>1. Fits("segment", f, segs', counted) /\ "segment" \in Places
      BY <1>1, <1>3, <1>4 DEF Fits, InTable, AtEntry, Places
    <2> QED
      BY <1>1, <1>2, <1>3, <1>7, <2>1, GotoOK
  <1> QED
    BY <1>5, <1>6, <1>7 DEF Find

\* The n elements of a sequence behind the first i.
LEMMA PartOfSeq ==
    ASSUME NEW S, NEW s \in Seq(S), NEW i \in Nat, NEW n \in Nat, n # 0 => i + n <= Len(s)
    PROVE  /\ SubSeq(s, i + 1, i + n) \in Seq(S) /\ Len(SubSeq(s, i + 1, i + n)) = n
           /\ \A k \in 1..n : SubSeq(s, i + 1, i + n)[k] = s[i + k]
  <1>1. \A k \in (i + 1)..(i + n) : s[k] \in S
    <2> TAKE k \in (i + 1)..(i + n)
    <2>1. PICK m \in Nat : Len(s) = m
      BY LenProperties
    <2>2. k \in 1..m
      BY <2>1
    <2> QED
      BY <2>1, <2>2, ElementOfSeq
  <1>2. i + 1 \in Int /\ i + n \in Int
    OBVIOUS
  <1> DEFINE part == SubSeq(s, i + 1, i + n)
  <1>3. /\ part \in Seq(S)
        /\ Len(part) = IF i + 1 <= i + n THEN i + n - (i + 1) + 1 ELSE 0
        /\ \A k \in 1..(i + n - (i + 1) + 1) : part[k] = s[i + 1 + k - 1]
    BY <1>1, <1>2, SubSeqProperties
  <1> HIDE DEF part
  <1>4. Len(part) = n /\ \A k \in 1..n : part[k] = s[i + k]
    BY <1>3
  <1> QED
    BY <1>3, <1>4 DEF part

\* The end of ReadAt: no more than the caller asked for.
LEMMA FinishOK ==
    ASSUME NEW counted, Inv(counted), SegsStep, NEW c \in Clients,
           NEW err \in {"nil", "EOF"}, Finish(c, err), UNCHANGED <<opened, faults>>
    PROVE  Inv(counted)'
  <1> DEFINE f == frame[c]
             inside == f.off % SectorSize
             n == IF inside >= Len(f.buf) THEN 0 ELSE CopyLength(Len(f.buf) - inside, f.len)
             data == SubSeq(f.buf, inside + 1, inside + n)
  <1>1. f.buf \in Seq(Int) /\ f.off \in Nat /\ f.len \in Nat
    BY OfCall, FrameFields
  <1>2. PICK m \in Nat : Len(f.buf) = m
    BY <1>1, LenProperties
  <1>3. inside \in Nat
    BY <1>1, ReadAtAssumption
  <1>4. \A x \in Nat : x % Width \in Nat /\ x % Width <= x
    BY ReadAtAssumption
  <1>5. n \in Nat /\ n <= f.len /\ (n # 0 => inside + n <= m)
    <2>1. CASE inside >= m
      BY <1>1, <1>2, <2>1
    <2>2. CASE inside < m
      <3>1. m - inside \in Nat
        BY <1>3, <2>2
      <3>2. n = Lesser((m - inside) % Width, f.len % Width)
        BY <1>2, <1>3, <2>2 DEF CopyLength
      <3>3. /\ (m - inside) % Width \in Nat /\ (m - inside) % Width <= m - inside
            /\ f.len % Width \in Nat /\ f.len % Width <= f.len
        BY <1>1, <1>4, <3>1
      <3> HIDE DEF inside, n, f
      <3>4. n \in Nat /\ n <= f.len /\ n <= m - inside
        BY <1>1, <1>3, <3>1, <3>2, <3>3, LesserIs DEF Lesser
      <3> QED
        BY <1>3, <3>4
    <2> QED
      BY <1>3, <2>1, <2>2
  <1>6. data \in Seq(Int) /\ Len(data) = n
    <2> HIDE DEF inside, n, f
    <2> QED
      BY <1>1, <1>2, <1>3, <1>5, PartOfSeq
  <1>7. PICK e \in Errors : Return(c, data, e)
    BY DEF Finish, Errors
  <1>8. faults' \in 0..MaxFaults
    BY OfCall
  <1>9. Len(data) <= frame[c].len
    BY <1>5, <1>6
  <1> HIDE DEF data
  <1> QED
    BY <1>6, <1>7, <1>8, <1>9, EndOK DEF Return

\* In the loop over the tables of a segment, no table is left to look at, or
\* the next one is.
LEMMA AfterTableOK ==
    ASSUME NEW counted, Inv(counted), SegsStep, NEW c \in Clients,
           pc[c] \in InTable, AfterTable(c, frame[c]), UNCHANGED <<opened, segs, faults>>
    PROVE  Inv(counted)'
  <1> DEFINE f == frame[c]
             n == Len(segs[f.seg].tables)
  <1>1. /\ f \in Frames /\ (f.cpos.at = "section" => f.cpos.n # 0)
        /\ f.seg \in 1..Len(segs) /\ segs[f.seg].decoded /\ f.tab \in 1..n
        /\ \/ f.count = 0
           \/ f.sector >= segs[f.seg].sectorOffset + segs[f.seg].sectorCount
        /\ Len(segs) \in Nat
    BY OfCall DEF Fits
  <1>2. faults' \in 0..MaxFaults /\ pc[c] # "idle"
    BY OfCall DEF InTable
  <1>3. n \in Nat
    <2>1. segs[f.seg].tables \in Seq(Tables)
      BY <1>1, OfCall, SegmentFields DEF SegmentOK
    <2> QED
      BY <2>1, LenProperties
  <1>4. CASE f.left = 0 \/ f.tab >= n
    <2> DEFINE g == [f EXCEPT !.seg = @ + 1]
    <2>1. Goto(c, "segment", g)
      BY <1>4 DEF AfterTable
    <2>2. /\ g \in Frames /\ g.seg = f.seg + 1 /\ g.cpos = f.cpos
          /\ g.sector = f.sector /\ g.count = f.count
      BY <1>1, NextSegFrame
    <2> HIDE DEF g, f, n
    <2>3. g.seg \in 1..(Len(segs) + 1) /\ g.seg - 1 = f.seg
      BY <1>1, <2>2
    <2>4. g.count = 0 \/ Behind(g, segs)
      BY <1>1, <2>2, <2>3 DEF Behind
    <2>5. Fits("segment", g, segs', counted) /\ "segment" \in Places
      BY <1>1, <2>2, <2>3, <2>4 DEF Fits, InTable, AtEntry, Places
    <2> QED
      BY <1>2, <2>1, <2>2, <2>5, GotoOK
  <1>5. CASE ~(f.left = 0 \/ f.tab >= n)
    <2> DEFINE g == [f EXCEPT !.tab = @ + 1]
    <2>1. Goto(c, "table", g)
      BY <1>5 DEF AfterTable
    <2>2. PICK k \in Nat : k = f.tab + 1
      BY <1>1, FrameFields
    <2>3. g = [f EXCEPT !.tab = k]
      BY <2>2
    <2> HIDE DEF g, f
    <2>4. /\ g \in Frames /\ g.seg = f.seg /\ g.cpos = f.cpos
          /\ g.sector = f.sector /\ g.count = f.count /\ g.tab = k
      BY <1>1, <2>2, <2>3 DEF Frames
    <2>5. g.tab \in 1..n
      BY <1>1, <1>3, <1>5, <2>2, <2>4
    <2>6. Fits("table", g, segs', counted) /\ "table" \in Places
      BY <1>1, <2>4, <2>5 DEF Fits, InTable, AtEntry, Places
    <2> QED
      BY <1>2, <2>1, <2>4, <2>6, GotoOK
  <1> QED
    BY <1>4, <1>5

\* readSectors enters the tables of a segment at the first one it needs.
LEMMA NextSegmentOK ==
    ASSUME NEW counted, Inv(counted), NEW c \in Clients, NextSegment(c)
    PROVE  Inv(counted)'
  <1> DEFINE f == frame[c]
             s == segs[f.seg]
             n == Lesser(s.sectorCount - (f.sector - s.sectorOffset), f.count)
             at == f.sector - s.sectorOffset
             tab == TableOf(s.tableOffsets, at)
             g == [f EXCEPT !.at = at, !.left = n, !.tab = tab,
                            !.sector = @ + n, !.count = @ - n]
  <1>1. pc[c] = "segment" /\ UNCHANGED <<opened, segs, faults>>
    BY DEF NextSegment, Quiet
  <1>2. /\ f \in Frames /\ (f.cpos.at = "section" => f.cpos.n # 0)
        /\ f.seg \in 1..(Len(segs) + 1) /\ (f.count = 0 \/ Behind(f, segs))
        /\ Len(segs) \in Nat
    BY <1>1, OfCall DEF Fits
  <1>3. SegsStep /\ faults' \in 0..MaxFaults /\ pc[c] # "idle"
    BY <1>1, OfCall, Unchanged
  <1>4. CASE \E err \in {"nil", "EOF"} : Finish(c, err)
    BY <1>1, <1>3, <1>4, FinishOK
  <1>5. CASE /\ f.count > 0 /\ f.seg <= Len(segs) /\ s.decoded
             /\ ~(n <= 0) /\ Goto(c, "table", g)
    <2>1. f.seg \in 1..Len(segs) /\ s \in Segment /\ SegmentOK(s) /\ Linked(segs, f.seg)
      <3>1. f.seg \in 1..Len(segs)
        BY <1>2, <1>5
      <3> QED
        BY <3>1, OfCall DEF SegsOK, SegmentOK
    <2>2. /\ s.sectorCount \in Nat /\ s.sectorOffset \in Nat
          /\ s.tableOffsets \in Seq(Nat) /\ s.tables \in Seq(Tables)
      BY <2>1, SegmentFields
    <2>3. f.sector \in Nat /\ f.count \in Nat
      BY <1>2, FrameFields
    <2> HIDE DEF g, tab, n, f, s
    <2>4. at \in Nat
      <3>1. CASE s.sectorOffset = 0
        BY <2>3, <3>1
      <3>2. CASE s.sectorOffset # 0
        <4>1. /\ f.seg > 1
              /\ s.sectorOffset = segs[f.seg - 1].sectorOffset + segs[f.seg - 1].sectorCount
          BY <2>1, <3>2 DEF Linked, s
        <4>2. f.sector >= segs[f.seg - 1].sectorOffset + segs[f.seg - 1].sectorCount
          BY <1>2, <1>5, <4>1 DEF Behind
        <4> QED
          BY <2>2, <2>3, <4>1, <4>2
      <3> QED
        BY <3>1, <3>2
    <2>5. PICK o \in Nat, m \in Nat : Len(s.tableOffsets) = o /\ Len(s.tables) = m
      BY <2>2, LenProperties
    <2>6. n \in Nat /\ n <= s.sectorCount - at /\ n <= f.count /\ s.sectorCount # 0
          /\ (n = f.count \/ n = s.sectorCount - at)
      <3>1. n = Lesser(s.sectorCount - at, f.count)
        BY DEF n
      <3> HIDE DEF at
      <3> QED
        BY <1>5, <2>2, <2>3, <2>4, <3>1 DEF Lesser
    <2>7. o < m
      BY <2>1, <2>5, <2>6 DEF SegmentOK
    <2>8. tab \in 1..m
      <3>1. tab \in 1..(o + 1)
        BY <2>2, <2>5, TableOfBounds DEF tab
      <3> QED
        BY <2>7, <3>1
    <2>9. PICK sector \in Nat, count \in Nat : sector = f.sector + n /\ count = f.count - n
      BY <2>3, <2>6
    <2>10. g = [f EXCEPT !.at = at, !.left = n, !.tab = tab, !.sector = sector, !.count = count]
      BY <2>9 DEF g
    <2>11. count = 0 \/ sector >= s.sectorOffset + s.sectorCount
      BY <2>2, <2>3, <2>6, <2>9, SMTT(20)
    <2> HIDE DEF at
    <2>12. /\ g \in Frames /\ g.seg = f.seg /\ g.cpos = f.cpos
           /\ g.sector = sector /\ g.count = count /\ g.tab = tab
      <3>1. at \in Nat /\ n \in Nat /\ tab \in Nat
        BY <2>4, <2>5, <2>6, <2>8
      <3> QED
        BY <1>2, <2>9, <2>10, <3>1 DEF Frames
    <2>13. Fits("table", g, segs', counted) /\ "table" \in Places
      BY <1>1, <1>2, <1>5, <2>1, <2>5, <2>8, <2>11, <2>12 DEF Fits, InTable, AtEntry, Places, s
    <2> QED
      BY <1>1, <1>3, <1>5, <2>12, <2>13, GotoOK
  <1> QED
    BY <1>1, <1>4, <1>5 DEF NextSegment

\* A call in a segment has a table of it.
LEMMA OfTable ==
    ASSUME NEW counted, Inv(counted), NEW c \in Clients, pc[c] \in InTable
    PROVE  /\ frame[c].seg \in 1..Len(segs) /\ SegmentOK(segs[frame[c].seg])
           /\ segs[frame[c].seg].decoded
           /\ frame[c].tab \in 1..Len(segs[frame[c].seg].tables)
           /\ frame[c].tab \in DOMAIN segs[frame[c].seg].tables
           /\ Table(c) \in Tables
  <1> DEFINE i == frame[c].seg
  <1>1. i \in 1..Len(segs) /\ segs[i].decoded /\ frame[c].tab \in 1..Len(segs[i].tables)
    BY OfCall DEF Fits
  <1>2. SegmentOK(segs[i])
    BY <1>1, OfCall
  <1>3. segs[i].tables \in Seq(Tables)
    BY <1>2, SegmentFields DEF SegmentOK
  <1> HIDE DEF i
  <1>4. frame[c].tab \in DOMAIN segs[i].tables
    BY <1>1, <1>3, LenProperties
  <1>5. segs[i].tables[frame[c].tab] \in Tables
    BY <1>1, <1>3, ElementOfSeq
  <1> QED
    BY <1>1, <1>2, <1>4, <1>5 DEF i, Table

\* A call that stays at its table.
LEMMA SameTableFits ==
    ASSUME NEW ss, NEW counted, NEW p \in InTable, NEW q \in InTable, NEW f, NEW g,
           Fits(p, f, ss, counted),
           g.seg = f.seg, g.tab = f.tab, g.count = f.count, g.sector = f.sector,
           g.cpos.at = "section" => g.cpos.n # 0,
           q \in AtEntry /\ counted => g.at >= ss[f.seg].tables[f.tab].sectorOffset
    PROVE  Fits(q, g, ss, counted)
  BY Zenon DEF Fits, InTable, AtEntry

LEMMA NextTableOK ==
    ASSUME NEW counted, Inv(counted), NEW c \in Clients, NextTable(c)
    PROVE  Inv(counted)'
  <1> DEFINE f == frame[c]
             t == segs[f.seg].tables[f.tab]
             n == Lesser(t.sectorCount - (f.at - t.sectorOffset), f.left)
             g == [f EXCEPT !.rest = n, !.left = @ - n]
  <1>1. pc[c] = "table" /\ UNCHANGED <<opened, segs, faults>>
    BY DEF NextTable, Quiet
  <1>2. pc[c] \in InTable /\ pc[c] # "idle"
    BY <1>1 DEF InTable
  <1>3. t \in Tables /\ f \in Frames
    BY <1>2, OfTable, OfCall DEF Table
  <1>4. t.sectorCount \in Nat /\ t.sectorOffset \in Nat /\ f.at \in Nat /\ f.left \in Nat
    BY <1>3, FrameFields DEF Tables
  <1>5. n \in Int /\ n <= f.left
    <2>1. t.sectorCount - (f.at - t.sectorOffset) \in Int /\ f.left \in Int
      BY <1>4
    <2> QED
      BY <2>1, LesserIs
  <1>6. SegsStep /\ faults' \in 0..MaxFaults
    BY <1>1, OfCall, Unchanged
  <1>7. \/ n < 0 /\ Return(c, <<>>, "panic")
        \/ n = 0 /\ AfterTable(c, f)
        \/ n > 0 /\ Goto(c, "chunk", g)
    <2>1. CASE n < 0
      BY <2>1, Zenon DEF NextTable
    <2>2. CASE n = 0
      BY <2>2, Zenon DEF NextTable
    <2>3. CASE n > 0
      BY <2>3 DEF NextTable
    <2> HIDE DEF n, g
    <2>4. n < 0 \/ n = 0 \/ n > 0
      BY <1>5
    <2> QED
      BY <2>1, <2>2, <2>3, <2>4, Zenon
  <1>8. CASE n < 0 /\ Return(c, <<>>, "panic")
    <2>1. "panic" \in Errors
      BY DEF Errors
    <2> QED
      BY <1>1, <1>6, <1>8, <2>1, ReturnNothingOK
  <1>9. CASE n = 0 /\ AfterTable(c, f)
    BY <1>1, <1>2, <1>6, <1>9, AfterTableOK
  <1>10. CASE n > 0 /\ Goto(c, "chunk", g)
    <2>1. g = [f EXCEPT !.rest = n, !.left = f.left - n]
      OBVIOUS
    <2>2. Fits(pc[c], f, segs, counted) /\ (f.cpos.at = "section" => f.cpos.n # 0)
      BY OfCall
    <2> HIDE DEF g, n, f
    <2>3. PICK rest \in Nat, left \in Nat : rest = n /\ left = f.left - n
      BY <1>4, <1>5, <1>10
    <2>4. /\ g \in Frames /\ g.seg = f.seg /\ g.tab = f.tab /\ g.count = f.count
          /\ g.sector = f.sector /\ g.cpos = f.cpos
      BY <1>3, <2>1, <2>3 DEF Frames
    <2>5. "chunk" \in InTable /\ "chunk" \notin AtEntry /\ "chunk" \in Places
      BY DEF InTable, AtEntry, Places
    <2>6. Fits("chunk", g, segs', counted)
      BY <1>1, <1>2, <2>2, <2>4, <2>5, SameTableFits
    <2> QED
      BY <1>1, <1>2, <1>6, <1>10, <2>4, <2>5, <2>6, GotoOK
  <1> QED
    BY <1>7, <1>8, <1>9, <1>10, Zenon

\* The entry of a chunk: in evf1 it is counted from the beginning of the table.
LEMMA NextChunkOK ==
    ASSUME NEW counted, Inv(counted), NEW c \in Clients, NEW index, NextChunk(c, index),
           counted /\ index \in 0..(Table(c).count - 1) => frame[c].at >= Table(c).sectorOffset
    PROVE  Inv(counted)'
  <1> DEFINE f == frame[c]
             g == [f EXCEPT !.entry = Table(c).entries]
  <1>1. pc[c] = "chunk" /\ UNCHANGED <<opened, segs, faults>>
    BY DEF NextChunk, Quiet
  <1>2. pc[c] \in InTable /\ pc[c] # "idle"
    BY <1>1 DEF InTable
  <1>3. Table(c) \in Tables /\ f \in Frames /\ Table(c) = segs[f.seg].tables[f.tab]
    BY <1>2, OfTable, OfCall DEF Table
  <1>4. Fits(pc[c], f, segs, counted) /\ (f.cpos.at = "section" => f.cpos.n # 0)
    BY OfCall
  <1>5. SegsStep /\ faults' \in 0..MaxFaults
    BY <1>1, OfCall, Unchanged
  <1>6. \/ AfterTable(c, f)
        \/ Return(c, <<>>, "error")
        \/ index \in 0..(Table(c).count - 1) /\ Goto(c, "alloc", f)
        \/ index \in 0..(Table(c).count - 1) /\ Goto(c, "seek", g)
    <2>1. f.rest \in Nat
      BY <1>3, FrameFields
    <2>2. CASE f.rest = 0
      BY <2>2 DEF NextChunk
    <2>3. CASE f.rest # 0 /\ index \notin 0..(Table(c).count - 1)
      <3>1. f.rest > 0
        BY <2>1, <2>3
      <3> QED
        BY <2>3, <3>1 DEF NextChunk
    <2>4. CASE f.rest # 0 /\ index \in 0..(Table(c).count - 1)
      BY <2>4 DEF NextChunk
    <2> QED
      BY <2>2, <2>3, <2>4
  <1>7. CASE AfterTable(c, f)
    BY <1>1, <1>2, <1>5, <1>7, AfterTableOK
  <1>8. CASE Return(c, <<>>, "error")
    <2>1. "error" \in Errors
      BY DEF Errors
    <2> QED
      BY <1>1, <1>5, <1>8, <2>1, ReturnNothingOK
  <1>9. CASE index \in 0..(Table(c).count - 1) /\ Goto(c, "alloc", f)
    <2>1. "alloc" \in InTable /\ "alloc" \in Places
      BY DEF InTable, Places
    <2>2. counted => f.at >= segs[f.seg].tables[f.tab].sectorOffset
      BY <1>3, <1>9
    <2> HIDE DEF f
    <2>3. Fits("alloc", f, segs', counted)
      BY <1>1, <1>2, <1>4, <2>1, <2>2, SameTableFits
    <2> QED
      BY <1>1, <1>2, <1>3, <1>5, <1>9, <2>1, <2>3, GotoOK
  <1>10. CASE index \in 0..(Table(c).count - 1) /\ Goto(c, "seek", g)
    <2>1. "seek" \in InTable /\ "seek" \in Places
      BY DEF InTable, Places
    <2>2. counted => f.at >= segs[f.seg].tables[f.tab].sectorOffset
      BY <1>3, <1>10
    <2>3. Table(c).entries \in EntryStates
      BY <1>3 DEF Tables
    <2> HIDE DEF f
    <2>4. /\ g \in Frames /\ g.seg = f.seg /\ g.tab = f.tab /\ g.count = f.count
          /\ g.sector = f.sector /\ g.cpos = f.cpos /\ g.at = f.at
      BY <1>3, <2>3 DEF Frames
    <2> HIDE DEF g
    <2>5. Fits("seek", g, segs', counted)
      BY <1>1, <1>2, <1>4, <2>1, <2>2, <2>4, SameTableFits
    <2> QED
      BY <1>1, <1>2, <1>5, <1>10, <2>1, <2>4, <2>5, GotoOK
  <1> QED
    BY <1>6, <1>7, <1>8, <1>9, <1>10

LEMMA ChangedCursor ==
    ASSUME NEW ss \in Seq(Segment), NEW i \in 1..Len(ss), NEW cursor
    PROVE  [ss EXCEPT ![i].cursor = cursor] = [ss EXCEPT ![i] = [ss[i] EXCEPT !.cursor = cursor]]
  BY LenProperties

LEMMA SetCursorOK ==
    ASSUME NEW counted, Inv(counted), NEW c \in Clients, pc[c] \in InTable,
           NEW cursor \in Cursors, cursor.at = "section" => cursor.n # 0,
           SetCursor(c, cursor)
    PROVE  SegsStep
  <1> DEFINE i == frame[c].seg
             new == [segs[i] EXCEPT !.cursor = cursor]
  <1>1. i \in 1..Len(segs) /\ SegmentOK(segs[i]) /\ segs[i].decoded /\ SegsOK(segs)
    BY OfTable, OfCall
  <1>2. segs \in Seq(Segment)
    BY <1>1 DEF SegsOK
  <1>3. segs' = [segs EXCEPT ![i].cursor = cursor]
    BY DEF SetCursor
  <1> HIDE DEF i
  <1>4. segs' = [segs EXCEPT ![i] = new]
    BY <1>1, <1>2, <1>3, ChangedCursor
  <1>5. SegmentOK(new) /\ Later(segs[i], new)
    BY <1>1, MoveCursor
  <1> HIDE DEF new
  <1>6. SegsOK([segs EXCEPT ![i] = new]) /\ Stays(segs, [segs EXCEPT ![i] = new])
    BY <1>1, <1>5, ReplaceSegment
  <1> QED
    BY <1>4, <1>6 DEF SegsStep

LEMMA SetEntriesOK ==
    ASSUME NEW counted, Inv(counted), NEW c \in Clients, pc[c] \in InTable,
           NEW cursor \in Cursors, cursor.at = "section" => cursor.n # 0,
           NEW e \in EntryStates,
           segs' = [segs EXCEPT ![frame[c].seg].cursor = cursor,
                                ![frame[c].seg].tables[frame[c].tab].entries = e]
    PROVE  SegsStep
  <1> DEFINE i == frame[c].seg
             tab == frame[c].tab
             new == WithEntries(segs[i], cursor, tab, e)
  <1>1. /\ i \in 1..Len(segs) /\ SegmentOK(segs[i]) /\ segs[i].decoded /\ SegsOK(segs)
        /\ tab \in DOMAIN segs[i].tables
    BY OfTable, OfCall
  <1>2. segs \in Seq(Segment)
    BY <1>1 DEF SegsOK
  <1>3. segs' = [segs EXCEPT ![i].cursor = cursor, ![i].tables[tab].entries = e]
    BY Zenon
  <1> HIDE DEF i, tab
  <1>4. segs' = [segs EXCEPT ![i] = new]
    BY <1>1, <1>2, <1>3, LenProperties, Zenon DEF WithEntries
  <1>5. SegmentOK(new) /\ Later(segs[i], new)
    BY <1>1, ChangeEntries, Zenon
  <1> HIDE DEF new
  <1>6. SegsOK([segs EXCEPT ![i] = new]) /\ Stays(segs, [segs EXCEPT ![i] = new])
    BY <1>1, <1>5, ReplaceSegment
  <1> QED
    BY <1>4, <1>6 DEF SegsStep

\* A call at the entry of a chunk stays there: at and the table are the same.
LEMMA SameEntryFits ==
    ASSUME NEW ss, NEW counted, NEW p \in AtEntry, NEW q \in AtEntry, NEW f, NEW g,
           Fits(p, f, ss, counted),
           g.seg = f.seg, g.tab = f.tab, g.count = f.count, g.sector = f.sector,
           g.at = f.at, g.cpos.at = "section" => g.cpos.n # 0
    PROVE  Fits(q, g, ss, counted)
  BY DEF Fits, InTable, AtEntry

LEMMA AllocEntriesOK ==
    ASSUME NEW counted, Inv(counted), NEW c \in Clients, AllocEntries(c)
    PROVE  Inv(counted)'
  <1> DEFINE f == frame[c]
             g == [f EXCEPT !.cpos = segs[f.seg].cursor]
             cursor == At("entries", Table(c).t)
  <1>1. pc[c] = "alloc" /\ UNCHANGED <<opened, faults>> /\ Goto(c, "fill", g)
    BY DEF AllocEntries
  <1>2. segs' = [segs EXCEPT ![f.seg].cursor = cursor, ![f.seg].tables[f.tab].entries = "zero"]
    BY DEF AllocEntries
  <1>3. pc[c] \in InTable /\ pc[c] \in AtEntry /\ pc[c] # "idle"
    BY <1>1 DEF InTable, AtEntry
  <1>4. cursor \in Cursors /\ cursor.at # "section" /\ "zero" \in EntryStates
    <2>1. Table(c).t \in Nat
      BY <1>3, OfTable, Zenon DEF Tables
    <2> QED
      BY <2>1 DEF At, Cursors, EntryStates
  <1>5. SegsStep /\ faults' \in 0..MaxFaults
    <2> HIDE DEF cursor
    <2> QED
      BY <1>1, <1>2, <1>3, <1>4, SetEntriesOK, OfCall, Zenon
  <1>6. f \in Frames /\ Fits(pc[c], f, segs', counted)
    BY <1>5, OthersFit
  <1>7. SegmentOK(segs[f.seg])
    BY <1>3, OfTable
  <1>8. PICK cpos \in Cursors : /\ cpos = segs[f.seg].cursor
                                /\ (cpos.at = "section" => cpos.n # 0)
    BY <1>7, SegmentFields DEF SegmentOK
  <1>9. g = [f EXCEPT !.cpos = cpos]
    BY <1>8
  <1> HIDE DEF f, g
  <1>10. /\ g \in Frames /\ g.seg = f.seg /\ g.tab = f.tab /\ g.count = f.count
         /\ g.sector = f.sector /\ g.at = f.at /\ g.cpos = cpos
    BY <1>6, <1>8, <1>9 DEF Frames
  <1>11. "fill" \in AtEntry /\ "fill" \in Places
    BY DEF AtEntry, Places
  <1>12. Fits("fill", g, segs', counted)
    BY <1>3, <1>6, <1>8, <1>10, <1>11, SameEntryFits
  <1> QED
    BY <1>1, <1>3, <1>5, <1>10, <1>11, <1>12, GotoOK

LEMMA FillEntriesOK ==
    ASSUME NEW counted, Inv(counted), NEW c \in Clients, FillEntries(c)
    PROVE  Inv(counted)'
  <1> DEFINE f == frame[c]
             right == segs[f.seg].cursor = At("entries", Table(c).t)
             filled == IF right THEN "full" ELSE "junk"
             g == [f EXCEPT !.entry = filled, !.cpos = Elsewhere]
  <1>1. pc[c] = "fill" /\ opened' = opened
    BY DEF FillEntries
  <1>2. pc[c] \in InTable /\ pc[c] \in AtEntry /\ pc[c] # "idle"
    BY <1>1 DEF InTable, AtEntry
  <1>3. f \in Frames /\ f.cpos \in Cursors /\ (f.cpos.at = "section" => f.cpos.n # 0)
    BY OfCall, FrameFields
  <1>4. filled \in EntryStates
    BY Zenon DEF EntryStates
  <1>5. \/ /\ segs' = [segs EXCEPT ![f.seg].cursor = f.cpos, ![f.seg].tables[f.tab].entries = filled]
           /\ Goto(c, "seek", g) /\ UNCHANGED faults
        \/ SetCursor(c, f.cpos) /\ CanFail("entries") /\ Fault(c)
        \/ SetCursor(c, f.cpos) /\ Return(c, <<>>, "error") /\ UNCHANGED faults
    BY DEF FillEntries
  <1> HIDE DEF filled
  <1>6. CASE /\ segs' = [segs EXCEPT ![f.seg].cursor = f.cpos, ![f.seg].tables[f.tab].entries = filled]
             /\ Goto(c, "seek", g) /\ UNCHANGED faults
    <2>1. SegsStep
      BY <1>2, <1>3, <1>4, <1>6, SetEntriesOK, Zenon
    <2>2. Fits(pc[c], f, segs', counted) /\ faults' \in 0..MaxFaults
      BY <1>6, <2>1, OthersFit, OfCall, Zenon
    <2>3. Elsewhere \in Cursors /\ Elsewhere.at # "section"
      BY DEF Elsewhere, At, Cursors
    <2>4. "seek" \in AtEntry /\ "seek" \in Places
      BY Zenon DEF AtEntry, Places
    <2>5. Goto(c, "seek", g)
      BY <1>6
    <2> HIDE DEF f
    <2>6. /\ g \in Frames /\ g.seg = f.seg /\ g.tab = f.tab /\ g.count = f.count
          /\ g.sector = f.sector /\ g.at = f.at /\ g.cpos = Elsewhere
      BY <1>3, <1>4, <2>3 DEF Frames
    <2> HIDE DEF g
    <2>7. Fits("seek", g, segs', counted)
      BY <1>2, <2>2, <2>3, <2>4, <2>6, SameEntryFits
    <2> QED
      BY <1>1, <1>2, <2>1, <2>2, <2>4, <2>5, <2>6, <2>7, GotoOK, Zenon
  <1>7. CASE SetCursor(c, f.cpos) /\ CanFail("entries") /\ Fault(c)
    <2>1. SegsStep
      BY <1>2, <1>3, <1>7, SetCursorOK
    <2> QED
      BY <1>1, <1>7, <2>1, FaultOK DEF CanFail
  <1>8. CASE SetCursor(c, f.cpos) /\ Return(c, <<>>, "error") /\ UNCHANGED faults
    <2>1. SegsStep
      BY <1>2, <1>3, <1>8, SetCursorOK
    <2>2. "error" \in Errors /\ faults' \in 0..MaxFaults
      BY <1>8, OfCall DEF Errors
    <2> QED
      BY <1>1, <1>8, <2>1, <2>2, ReturnNothingOK
  <1> QED
    BY <1>5, <1>6, <1>7, <1>8, Zenon

LEMMA SeekChunkOK ==
    ASSUME NEW counted, Inv(counted), NEW c \in Clients, NEW seeks, SeekChunk(c, seeks),
           \A a \in seeks : /\ a.cursor \in Cursors /\ a.cursor.at # "section"
                            /\ a.out \in {"ok", "error", "panic"}
    PROVE  Inv(counted)'
  <1>1. pc[c] = "seek" /\ UNCHANGED <<opened, faults>>
    BY DEF SeekChunk
  <1>2. pc[c] \in InTable /\ pc[c] \in AtEntry /\ pc[c] # "idle"
    BY <1>1 DEF InTable, AtEntry
  <1>3. PICK a \in seeks :
          /\ SetCursor(c, a.cursor)
          /\ IF a.out = "ok" THEN Goto(c, "data", frame[c]) ELSE Return(c, <<>>, a.out)
    BY DEF SeekChunk
  <1>4. SegsStep /\ faults' \in 0..MaxFaults
    BY <1>1, <1>2, <1>3, SetCursorOK, OfCall
  <1>5. CASE a.out = "ok"
    <2>1. Goto(c, "data", frame[c])
      BY <1>3, <1>5
    <2>2. frame[c] \in Frames /\ Fits(pc[c], frame[c], segs', counted)
      BY <1>4, OthersFit
    <2>3. "data" \in AtEntry /\ "data" \in Places
      BY DEF AtEntry, Places
    <2>4. frame[c].cpos.at = "section" => frame[c].cpos.n # 0
      BY OfCall
    <2>5. Fits("data", frame[c], segs', counted)
      BY <1>2, <2>2, <2>3, <2>4, SameEntryFits
    <2> QED
      BY <1>1, <1>2, <1>4, <2>1, <2>2, <2>3, <2>5, GotoOK
  <1>6. CASE a.out # "ok"
    <2>1. Return(c, <<>>, a.out)
      BY <1>3, <1>6
    <2>2. a.out \in Errors
      BY <1>6 DEF Errors
    <2> QED
      BY <1>1, <1>4, <2>1, <2>2, ReturnNothingOK
  <1> QED
    BY <1>5, <1>6

LEMMA SliceType ==
    ASSUME NEW buf \in Seq(Int), NEW i \in Nat, NEW j \in Nat, NEW cuts \in BOOLEAN
    PROVE  /\ Slice(buf, i, j, cuts).out \in {"ok", "panic"}
           /\ Slice(buf, i, j, cuts).out = "ok" => Slice(buf, i, j, cuts).gives \in Seq(Int)
  <1>1. PICK m \in Nat : Len(buf) = m
    BY LenProperties
  <1>2. PICK end \in Nat : end = IF cuts THEN Lesser(j, m) ELSE j
    BY <1>1 DEF Lesser
  <1>3. CASE i > end \/ end > m
    BY <1>1, <1>2, <1>3 DEF Slice, Attempt
  <1>4. CASE ~(i > end \/ end > m)
    <2>1. PICK n \in Nat : i + n = end
      <3>1. end - i \in Nat /\ i + (end - i) = end
        BY <1>4
      <3> QED
        BY <3>1
    <2>2. SubSeq(buf, i + 1, end) \in Seq(Int)
      BY <1>1, <1>4, <2>1, PartOfSeq
    <2>3. Slice(buf, i, j, cuts) = Attempt(SubSeq(buf, i + 1, end), "ok")
      BY <1>1, <1>2, <1>4 DEF Slice
    <2> QED
      BY <2>2, <2>3 DEF Attempt
  <1> QED
    BY <1>3, <1>4

\* What a read of a chunk may come to.
GivesBytes(a) ==
    /\ a.gives \in Seq(Int) /\ a.out \in {"ok", "error", "fault"}
    /\ a.out = "fault" => faults < MaxFaults

\* The chunk, or a part of it, is put behind what was read before.
LEMMA ReadChunkOK ==
    ASSUME NEW counted, Inv(counted), NEW c \in Clients, NEW reads, NEW cuts \in BOOLEAN,
           ReadChunk(c, reads, cuts),
           \A a \in reads : GivesBytes(a)
    PROVE  Inv(counted)'
  <1> DEFINE f == frame[c]
             first == f.at % ChunkSectors
             n == Lesser(ChunkSectors - first, f.rest)
             taken(d) == IF n = ChunkSectors THEN Attempt(d, "ok")
                         ELSE Slice(d, first * SectorSize, (first + n) * SectorSize, cuts)
             Read(a) == IF a.out = "ok" THEN taken(a.gives) ELSE a
             g(b) == [f EXCEPT !.buf = @ \o b.gives, !.at = @ + n, !.rest = @ - n]
  <1>1. pc[c] = "data" /\ opened' = opened /\ SetCursor(c, Elsewhere)
    BY DEF ReadChunk
  <1>2. pc[c] \in InTable /\ pc[c] \in AtEntry /\ pc[c] # "idle"
    BY <1>1, Zenon DEF InTable, AtEntry
  <1>3. PICK a \in reads :
          LET b == Read(a)
          IN  CASE b.out = "fault" -> Fault(c)
                [] b.out = "ok" -> Goto(c, "chunk", g(b)) /\ UNCHANGED faults
                [] OTHER -> Return(c, <<>>, b.out) /\ UNCHANGED faults
    BY Zenon DEF ReadChunk
  <1>4. /\ a.gives \in Seq(Int) /\ a.out \in {"ok", "error", "fault"}
        /\ a.out = "fault" => faults < MaxFaults
    BY DEF GivesBytes
  <1>5. Elsewhere \in Cursors /\ Elsewhere.at # "section"
    BY DEF Elsewhere, At, Cursors
  <1>6. SegsStep
    BY <1>1, <1>2, <1>5, SetCursorOK
  <1>7. f \in Frames /\ Fits(pc[c], f, segs', counted) /\ (f.cpos.at = "section" => f.cpos.n # 0)
    BY <1>6, OthersFit, OfCall
  <1>8. f.at \in Nat /\ f.rest \in Nat /\ f.buf \in Seq(Int)
    BY <1>7, FrameFields
  <1>9. first \in Nat /\ first < ChunkSectors
    <2>1. ChunkSectors \in Nat \ {0}
      BY ReaderAssumption
    <2>2. \A x \in Nat : x % ChunkSectors \in Nat /\ x % ChunkSectors < ChunkSectors
      BY <2>1
    <2> QED
      BY <1>8, <2>2
  <1>10. n \in Nat /\ n <= f.rest
    <2> HIDE DEF first, f
    <2> QED
      BY <1>8, <1>9, ReaderAssumption DEF Lesser
  <1>11. first * SectorSize \in Nat /\ (first + n) * SectorSize \in Nat
    <2>1. first + n \in Nat /\ SectorSize \in Nat
      BY <1>9, <1>10, ReadAtAssumption
    <2> QED
      BY <1>9, <2>1, Product
  <1> DEFINE b == Read(a)
  <1>12. /\ b.out \in {"ok", "error", "fault", "panic"}
         /\ b.out = "fault" => faults < MaxFaults
         /\ b.out = "ok" => b.gives \in Seq(Int)
    <2>1. CASE a.out # "ok"
      BY <1>4, <2>1
    <2>2. CASE a.out = "ok" /\ n = ChunkSectors
      BY <1>4, <2>2 DEF Attempt
    <2>3. CASE a.out = "ok" /\ n # ChunkSectors
      <3>1. b = Slice(a.gives, first * SectorSize, (first + n) * SectorSize, cuts)
        BY <2>3
      <3> HIDE DEF b
      <3> QED
        BY <1>4, <1>11, <3>1, SliceType
    <2> QED
      BY <2>1, <2>2, <2>3
  <1>13. CASE b.out = "fault" /\ Fault(c)
    BY <1>1, <1>6, <1>12, <1>13, FaultOK
  <1>14. CASE b.out = "ok" /\ Goto(c, "chunk", g(b)) /\ UNCHANGED faults
    <2> DEFINE h == [f EXCEPT !.buf = f.buf \o b.gives, !.at = f.at + n, !.rest = f.rest - n]
    <2>1. Goto(c, "chunk", h)
      BY <1>14
    <2> HIDE DEF b, g
    <2>2. f.buf \o b.gives \in Seq(Int)
      BY <1>8, <1>12, <1>14, ConcatProperties
    <2> HIDE DEF h, n, f
    <2>3. PICK at \in Nat, rest \in Nat : at = f.at + n /\ rest = f.rest - n
      BY <1>8, <1>10
    <2>4. PICK buf \in Seq(Int) : buf = f.buf \o b.gives
      BY <2>2
    <2>5. h = [f EXCEPT !.buf = buf, !.at = at, !.rest = rest]
      BY <2>3, <2>4 DEF h
    <2>6. /\ h \in Frames /\ h.seg = f.seg /\ h.tab = f.tab /\ h.count = f.count
          /\ h.sector = f.sector /\ h.cpos = f.cpos
      BY <1>7, <2>3, <2>4, <2>5 DEF Frames
    <2>7. "chunk" \in InTable /\ "chunk" \notin AtEntry /\ "chunk" \in Places
      BY DEF InTable, AtEntry, Places
    <2>8. Fits("chunk", h, segs', counted)
      BY <1>2, <1>7, <2>6, <2>7, SameTableFits
    <2>9. faults' \in 0..MaxFaults
      BY <1>14, OfCall
    <2> QED
      BY <1>1, <1>2, <1>6, <2>1, <2>6, <2>7, <2>8, <2>9, GotoOK
  <1>15. CASE b.out \in {"error", "panic"} /\ Return(c, <<>>, b.out) /\ UNCHANGED faults
    <2> HIDE DEF b
    <2>1. b.out \in Errors /\ faults' \in 0..MaxFaults
      BY <1>15, OfCall DEF Errors
    <2> QED
      BY <1>1, <1>6, <1>15, <2>1, ReturnNothingOK
  <1>16. CASE b.out = "fault"
    <2>1. Fault(c)
      BY <1>3, <1>16
    <2> QED
      BY <1>13, <1>16, <2>1
  <1>17. CASE b.out = "ok"
    <2>1. Goto(c, "chunk", g(b)) /\ UNCHANGED faults
      BY <1>3, <1>17
    <2> QED
      BY <1>14, <1>17, <2>1
  <1>18. CASE b.out \in {"error", "panic"}
    <2>1. Return(c, <<>>, b.out) /\ UNCHANGED faults
      BY <1>3, <1>18
    <2> QED
      BY <1>15, <1>18, <2>1
  <1> QED
    BY <1>12, <1>16, <1>17, <1>18

(***************************************************************************)
(* The EVF1 reader.                                                        *)
(***************************************************************************)
\* The sections a file f may have.
FileSections(f) == {x \in Sections : x.at = "table" => x.n \in DOMAIN Files[f]}

LEMMA SectionsOfType ==
    ASSUME NEW f \in DOMAIN Files
    PROVE  SectionsOf[f] \in Seq(FileSections(f))
  <1>1. Files[f] \in Seq(Nat) /\ DOMAIN Files[f] = 1..Len(Files[f]) /\ Len(Files[f]) \in Nat
    BY FilesType, LenProperties
  <1>2. \A w \in {"volume", "done"} : At(w, 0) \in FileSections(f)
    BY DEF At, Sections, FileSections
  <1>3. \A t \in DOMAIN Files[f] : At("table", t) \in FileSections(f)
    BY <1>1 DEF At, Sections, FileSections
  <1> DEFINE before == IF f = 1 THEN <<At("volume", 0)>> ELSE <<>>
             tables == [t \in DOMAIN Files[f] |-> At("table", t)]
             after == <<At("done", 0)>>
  <1>4. before \in Seq(FileSections(f))
    <2>1. <<At("volume", 0)>> \in Seq(FileSections(f))
      BY <1>2
    <2> QED
      BY <2>1, EmptySeq
  <1>5. tables \in Seq(FileSections(f))
    <2>1. tables \in [1..Len(Files[f]) -> FileSections(f)]
      BY <1>1, <1>3
    <2> HIDE DEF tables
    <2> QED
      BY <1>1, <2>1, SeqDef
  <1>6. after \in Seq(FileSections(f))
    BY <1>2
  <1>7. SectionsOf[f] = (before \o tables) \o after
    BY DEF SectionsOf
  <1> HIDE DEF before, tables, after
  <1>8. before \o tables \in Seq(FileSections(f))
    BY <1>4, <1>5, ConcatProperties
  <1> QED
    BY <1>6, <1>7, <1>8, ConcatProperties

\* The segment after some sections of its file, with any cursor.
LEMMA AfterSectionsOK ==
    ASSUME NEW seg, SegmentOK(seg), ~seg.decoded, NEW from \in Nat \ {0}, NEW to \in Int,
           to <= Len(SectionsOf[seg.file]), NEW cursor \in Cursors,
           cursor.at = "section" => cursor.n # 0
    PROVE  LET new == [AfterSections(seg, from, to) EXCEPT !.cursor = cursor]
           IN  SegmentOK(new) /\ new.file = seg.file /\ ~new.decoded
  <1> DEFINE sections == SectionsOf[seg.file]
             done == SubSeq(sections, from, to)
             added == AddTables(seg, TablesIn(done))
             v == added.volume \/ \E i \in DOMAIN done : done[i].at = "volume"
             new == [AfterSections(seg, from, to) EXCEPT !.cursor = cursor]
  <1>1. seg.file \in DOMAIN Files
    BY SegmentFields DEF SegmentOK
  <1>2. sections \in Seq(FileSections(seg.file))
    BY <1>1, SectionsOfType
  <1>3. PICK n \in Nat : Len(sections) = n
    BY <1>2, LenProperties
  <1>4. \A i \in from..to : sections[i] \in FileSections(seg.file)
    <2> TAKE i \in from..to
    <2>1. i \in 1..n
      BY <1>3
    <2> QED
      BY <1>2, <1>3, <2>1, ElementOfSeq
  <1> HIDE DEF sections
  <1>5. done \in Seq(FileSections(seg.file))
    BY <1>4, SubSeqProperties
  <1>6. TablesIn(done) \in Seq(DOMAIN Files[seg.file])
    <2>1. done \in Seq(Sections)
      <3>1. PICK m \in Nat : Len(done) = m /\ DOMAIN done = 1..m /\ done \in [1..m -> FileSections(seg.file)]
        BY <1>5, LenProperties
      <3>2. done \in [1..m -> Sections]
        BY <3>1 DEF FileSections
      <3> QED
        BY <3>2, SeqDef
    <2>2. \A i \in DOMAIN done : done[i].at = "table" => done[i].n \in DOMAIN Files[seg.file]
      <3> TAKE i \in DOMAIN done
      <3>1. done[i] \in FileSections(seg.file)
        BY <1>5, LenProperties, ElementOfSeq
      <3> QED
        BY <3>1 DEF FileSections
    <2> HIDE DEF done
    <2> QED
      BY <2>1, <2>2, TablesInType
  <1> HIDE DEF done
  <1>7. SegmentOK(added) /\ added.file = seg.file /\ ~added.decoded
    BY <1>6, AddTablesOK
  <1>8. AfterSections(seg, from, to) = [added EXCEPT !.volume = v]
    BY DEF AfterSections, done, sections
  <1>9. added \in Segment /\ v \in BOOLEAN
    BY <1>7, SegmentFields DEF SegmentOK
  <1> HIDE DEF added, v
  <1>10. new = Changed(added, v, cursor)
    BY <1>8, <1>9 DEF Changed, Segment
  <1>11. /\ SegmentOK(Changed(added, v, cursor)) /\ Changed(added, v, cursor).file = added.file
         /\ Changed(added, v, cursor).decoded = added.decoded
    BY <1>7, <1>9, ChangeSegment
  <1> HIDE DEF new
  <1> QED
    BY <1>7, <1>10, <1>11 DEF new

LEMMA EndedOK ==
    ASSUME NEW seg, SegmentOK(seg), ~seg.decoded, NEW link, LinkOK(link)
    PROVE  DecodesTo(Ended(seg, link), seg, link)
  <1>1. CASE seg.volume
    <2>1. Ended(seg, link) = Attempt(Decoded(seg, link), "ok")
      BY <1>1 DEF Ended
    <2>2. IsDecoded(Decoded(seg, link), seg, link)
      BY DecodedOK
    <2> QED
      BY <2>1, <2>2 DEF DecodesTo, Attempt, IsDecoded
  <1>2. CASE ~seg.volume
    <2>1. Ended(seg, link) = Attempt(seg, "panic")
      BY <1>2 DEF Ended
    <2> QED
      BY <2>1 DEF DecodesTo, Attempt
  <1> QED
    BY <1>1, <1>2

LEMMA DecodesSame ==
    ASSUME NEW a, NEW seg, NEW new, NEW link, DecodesTo(a, new, link), new.file = seg.file
    PROVE  DecodesTo(a, seg, link)
  BY DEF DecodesTo

LEMMA DecodeEvf1OK ==
    ASSUME NEW seg0, SegmentOK(seg0), ~seg0.decoded, NEW link, LinkOK(link),
           faults \in 0..MaxFaults, NEW a \in DecodeEvf1(seg0, link)
    PROVE  DecodesTo(a, seg0, link)
  <1> DEFINE v == seg0.volume \/ (link # <<>> /\ link[1].volume)
             seg == [seg0 EXCEPT !.volume = @ \/ (link # <<>> /\ link[1].volume)]
             sections == SectionsOf[seg.file]
             from == seg.cursor.n
             until(k, cursor) == [AfterSections(seg, from, k) EXCEPT !.cursor = cursor]
             found(k) == seg.volume \/ \E i \in from..k : sections[i].at = "volume"
             stuck == {k \in from..Len(sections) : sections[k].at = "table" /\ ~found(k)}
             last == IF stuck = {} THEN Len(sections) ELSE Min(stuck)
             ks == {k \in from..last : CanFail("section")}
  <1>1. v \in BOOLEAN /\ seg0 \in Segment /\ seg0.cursor \in Cursors
        /\ (seg0.cursor.at = "section" => seg0.cursor.n # 0)
    BY SegmentFields DEF LinkOK, SegmentOK
  <1>2. seg = Changed(seg0, v, seg0.cursor)
    BY <1>1, Zenon DEF Changed, Segment
  <1>3. a \in IF seg.cursor.at # "section"
              THEN {Attempt(seg, "error"), Ended(seg, link)}
              ELSE {IF stuck = {} THEN Ended(until(last, Elsewhere), link)
                    ELSE Attempt(until(last - 1, Elsewhere), "panic")}
                   \cup {Attempt(until(k - 1, At("section", k)), "fault") : k \in ks}
                   \cup {Attempt(until(k - 1, Elsewhere), "fault") : k \in ks}
    BY Zenon DEF DecodeEvf1
  <1> HIDE DEF v, seg
  <1>4. SegmentOK(seg) /\ seg.file = seg0.file /\ ~seg.decoded /\ seg.cursor = seg0.cursor
    BY <1>1, <1>2, ChangeSegment
  <1>5. CASE seg.cursor.at # "section"
    <2>1. DecodesTo(Attempt(seg, "error"), seg, link)
      BY <1>4 DEF DecodesTo, Attempt
    <2>2. DecodesTo(Ended(seg, link), seg, link)
      BY <1>4, EndedOK
    <2> QED
      BY <1>3, <1>4, <1>5, <2>1, <2>2, DecodesSame
  <1>6. CASE seg.cursor.at = "section"
    <2>1. from \in Nat \ {0}
      BY <1>1, <1>4, <1>6 DEF Cursors
    <2>2. PICK m \in Nat : Len(sections) = m
      <3>1. seg.file \in DOMAIN Files
        BY <1>4, SegmentFields DEF SegmentOK
      <3> QED
        BY <3>1, SectionsOfType, LenProperties
    <2>3. last \in Nat /\ last <= m
      <3>1. CASE stuck = {}
        BY <2>2, <3>1
      <3>2. CASE stuck # {}
        <4>1. stuck \subseteq Nat
          BY <2>1, <2>2
        <4> HIDE DEF stuck
        <4>2. Min(stuck) \in stuck /\ last = Min(stuck)
          BY <3>2, <4>1, MinOfNats
        <4>3. Min(stuck) \in from..m
          BY <2>2, <4>2 DEF stuck
        <4> QED
          BY <2>1, <2>2, <4>2, <4>3
      <3> QED
        BY <3>1, <3>2
    <2>4. Elsewhere \in Cursors /\ Elsewhere.at # "section"
      BY DEF Elsewhere, At, Cursors
    <2>5. ASSUME NEW k \in Int, k <= m, NEW cursor \in Cursors,
                 cursor.at = "section" => cursor.n # 0
          PROVE  SegmentOK(until(k, cursor)) /\ until(k, cursor).file = seg.file
                 /\ ~until(k, cursor).decoded
      BY <1>4, <2>1, <2>2, <2>5, AfterSectionsOK
    <2> HIDE DEF until, last, sections, stuck
    <2>6. CASE a = Ended(until(last, Elsewhere), link)
      <3>1. /\ SegmentOK(until(last, Elsewhere)) /\ until(last, Elsewhere).file = seg.file
            /\ ~until(last, Elsewhere).decoded
        BY <2>3, <2>4, <2>5
      <3>2. DecodesTo(a, until(last, Elsewhere), link)
        BY <2>6, <3>1, EndedOK
      <3> QED
        BY <1>4, <3>1, <3>2, DecodesSame
    <2>7. CASE a = Attempt(until(last - 1, Elsewhere), "panic")
      <3>1. last - 1 \in Int /\ last - 1 <= m
        BY <2>3
      <3>2. /\ SegmentOK(until(last - 1, Elsewhere))
            /\ until(last - 1, Elsewhere).file = seg.file
            /\ ~until(last - 1, Elsewhere).decoded
        BY <2>4, <2>5, <3>1
      <3> QED
        BY <1>4, <2>7, <3>2 DEF DecodesTo, Attempt
    <2>8. CASE \E k \in ks : \/ a = Attempt(until(k - 1, At("section", k)), "fault")
                             \/ a = Attempt(until(k - 1, Elsewhere), "fault")
      <3>1. PICK k \in from..last :
              /\ CanFail("section")
              /\ \/ a = Attempt(until(k - 1, At("section", k)), "fault")
                 \/ a = Attempt(until(k - 1, Elsewhere), "fault")
        BY <2>8
      <3>2. PICK cursor \in Cursors : /\ a = Attempt(until(k - 1, cursor), "fault")
                                      /\ cursor.at = "section" => cursor.n # 0
        <4>1. k \in Nat /\ k # 0
          BY <2>1, <2>3
        <4>2. At("section", k) \in Cursors /\ At("section", k).n # 0
          BY <4>1 DEF At, Cursors
        <4> QED
          BY <2>4, <3>1, <4>2
      <3>3. k - 1 \in Int /\ k - 1 <= m
        BY <2>1, <2>3
      <3>4. SegmentOK(until(k - 1, cursor)) /\ until(k - 1, cursor).file = seg.file
            /\ ~until(k - 1, cursor).decoded
        BY <2>5, <3>2, <3>3
      <3>5. faults < MaxFaults
        BY <3>1 DEF CanFail
      <3> QED
        BY <1>4, <3>1, <3>2, <3>4, <3>5 DEF DecodesTo, Attempt
    <2> QED
      BY <1>3, <1>6, <2>6, <2>7, <2>8
  <1> QED
    BY <1>5, <1>6

\* EWFSegment.Decode of the segment a call is at.
LEMMA LinkOfOK ==
    ASSUME NEW counted, Inv(counted), NEW c \in Clients, frame[c].seg \in DOMAIN segs
    PROVE  SegmentOK(SegmentOf(c)) /\ LinkOK(LinkOf(c))
  <1> DEFINE i == frame[c].seg
  <1>1. i \in 1..Len(segs) /\ Len(segs) \in Nat /\ \A k \in 1..Len(segs) : SegmentOK(segs[k])
    BY OfCall
  <1>2. i # 1 => i - 1 \in 1..Len(segs)
    BY <1>1
  <1>3. LinkOf(c) = <<>> \/ (LinkOf(c) = <<segs[i - 1]>> /\ i # 1)
    BY DEF LinkOf
  <1> HIDE DEF i
  <1>4. LinkOK(LinkOf(c))
    BY <1>1, <1>2, <1>3 DEF LinkOK
  <1> QED
    BY <1>1, <1>4 DEF SegmentOf, i

LEMMA BytesType ==
    /\ \A n \in Nat : Garbage(n) \in Seq(Int)
    /\ \A off \in Int : \A n \in Nat : BytesFrom(off, n) \in Seq(Int)
  <1>1. \A n \in Nat : Garbage(n) \in [1..n -> Int]
    BY DEF Garbage
  <1>2. \A off \in Int : \A n \in Nat : BytesFrom(off, n) \in [1..n -> Int]
    BY DEF BytesFrom
  <1> QED
    BY <1>1, <1>2, SeqDef

LEMMA ChunksBeforeType ==
    ASSUME NEW f \in DOMAIN Files
    PROVE  ChunksIn[f] \in Nat /\ ChunksBefore[f] \in Nat
  <1>1. \A g \in DOMAIN Files : ChunksIn[g] \in Nat
    BY FilesType, TotalType DEF ChunksIn
  <1>2. PICK n \in Nat : Len(Files) = n /\ DOMAIN Files = 1..n
    BY FilesType, LenProperties
  <1>3. ChunksIn \in Seq(Nat) /\ Len(ChunksIn) = n
    <2>1. ChunksIn \in [1..n -> Nat]
      BY <1>1, <1>2 DEF ChunksIn
    <2> QED
      BY <2>1, SeqDef, LenProperties
  <1>4. f - 1 \in Nat /\ f - 1 <= n /\ f \in 1..(Len(Files) + 1)
    BY <1>2
  <1>5. SubSeq(ChunksIn, 1, f - 1) \in Seq(Nat)
    BY <1>3, <1>4, PrefixType
  <1>6. ChunksBefore[f] = Total(SubSeq(ChunksIn, 1, f - 1))
    BY <1>4 DEF ChunksBefore
  <1> QED
    BY <1>1, <1>5, <1>6, TotalType

LEMMA ChunkDataType ==
    ASSUME NEW f \in DOMAIN Files, NEW k \in Nat
    PROVE  ChunkData(f, k) \in Seq(Int)
  <1>1. ChunksBefore[f] + k \in Nat
    BY ChunksBeforeType
  <1>2. ChunkBytes \in Nat
    BY ReaderAssumption, ReadAtAssumption, Product DEF ChunkBytes
  <1>3. (ChunksBefore[f] + k) * ChunkBytes \in Nat
    BY <1>1, <1>2, Product
  <1>4. PICK off \in Nat, n \in Nat : ChunkData(f, k) = BytesFrom(off, n)
    BY <1>2, <1>3 DEF ChunkData
  <1> QED
    BY <1>4, BytesType

LEMMA GivesBytesIs ==
    /\ \A d \in Seq(Int) : GivesBytes(Attempt(d, "ok"))
    /\ GivesBytes(Attempt(<<>>, "error"))
    /\ faults < MaxFaults => GivesBytes(Attempt(<<>>, "fault"))
  BY EmptySeq DEF GivesBytes, Attempt

\* What a read of a chunk through wrong entries, or one that fails, may give.
LEMMA ReadsType ==
    ASSUME NEW a, a \in ChunkFaults \cup JunkReads
    PROVE  GivesBytes(a)
  <1>1. CASE a \in ChunkFaults
    <2>1. a = Attempt(<<>>, "fault") /\ CanFail("chunk")
      BY <1>1 DEF ChunkFaults
    <2> QED
      BY <2>1, GivesBytesIs DEF CanFail
  <1>2. CASE a \in JunkReads
    <2>1. \A n \in JunkLengths : Garbage(n) \in Seq(Int)
      BY BytesType, ReaderAssumption
    <2>2. \/ \E n \in JunkLengths : a = Attempt(Garbage(n), "ok")
          \/ a = Attempt(<<>>, "error")
      BY <1>2 DEF JunkReads
    <2> QED
      BY <2>1, <2>2, GivesBytesIs
  <1> QED
    BY <1>1, <1>2

\* The cursor of a segment in whose table a call is: at a chunk, of its file.
LEMMA ThereType ==
    ASSUME NEW counted, Inv(counted), NEW c \in Clients, pc[c] \in InTable
    PROVE  ChunkData(segs[frame[c].seg].file, segs[frame[c].seg].cursor.n) \in Seq(Int)
  <1> DEFINE seg == segs[frame[c].seg]
  <1>1. seg \in Segment
    BY OfTable DEF SegmentOK
  <1> HIDE DEF seg
  <1>2. seg.file \in DOMAIN Files /\ seg.cursor \in Cursors
    BY <1>1, SegmentFields
  <1>3. seg.cursor.n \in Nat
    BY <1>2 DEF Cursors
  <1> QED
    BY <1>2, <1>3, ChunkDataType DEF seg

LEMMA WholeChunks ==
    ASSUME NEW x \in Nat
    PROVE  x \div ChunkSectors \in Nat
  BY ReaderAssumption

LEMMA IndexEvf1Type ==
    ASSUME NEW t \in Tables, NEW at \in Nat, at >= t.sectorOffset
    PROVE  IndexEvf1(at, t) \in Nat
  <1>1. t.sectorOffset \in Nat
    BY DEF Tables
  <1>2. IndexEvf1(at, t) = (at - t.sectorOffset) \div ChunkSectors
    BY <1>1 DEF IndexEvf1
  <1>3. PICK x \in Nat : x = at - t.sectorOffset
    BY <1>1
  <1> QED
    BY <1>2, <1>3, WholeChunks

LEMMA SeekEvf1Type ==
    ASSUME Inv(TRUE), NEW c \in Clients, pc[c] = "seek", NEW a \in SeekEvf1(frame[c])
    PROVE  /\ a.cursor \in Cursors /\ a.cursor.at # "section"
           /\ a.out \in {"ok", "error", "panic"}
  <1> DEFINE f == frame[c]
             t == segs[f.seg].tables[f.tab]
             index == IndexEvf1(f.at, t)
             e == EntryOf(f)
  <1>1. pc[c] \in InTable /\ pc[c] \in AtEntry
    BY DEF InTable, AtEntry
  <1>2. t \in Tables /\ f \in Frames /\ f.at >= t.sectorOffset
    BY <1>1, OfTable, OfCall DEF Table, Fits
  <1>3. index \in Nat
    <2>1. f.at \in Nat
      BY <1>2, FrameFields
    <2> HIDE DEF f, t
    <2> QED
      BY <1>2, <2>1, IndexEvf1Type
  <1>4. e = [start |-> t.first, chunk |-> t.first + index, last |-> index + 1 = t.count]
    BY DEF EntryOf
  <1>5. e.start \in Nat /\ e.chunk \in Nat
    <2>1. t.first \in Nat
      BY <1>2 DEF Tables
    <2> HIDE DEF e, t, index
    <2> QED
      BY <1>3, <1>4, <2>1
  <1>6. /\ \A n \in Nat : At("chunk", n) \in Cursors /\ At("chunk", n).at # "section"
        /\ Elsewhere \in Cursors /\ Elsewhere.at # "section"
    BY DEF Elsewhere, At, Cursors
  <1>7. PICK cursor, out : /\ a = [cursor |-> cursor, out |-> out]
                           /\ cursor \in {At("chunk", e.chunk), At("chunk", e.start), Elsewhere}
                           /\ out \in {"ok", "error", "panic"}
    BY DEF SeekEvf1
  <1> HIDE DEF e
  <1> QED
    BY <1>5, <1>6, <1>7

LEMMA ReadEvf1Type ==
    ASSUME NEW counted, Inv(counted), NEW c \in Clients, pc[c] = "data",
           NEW a \in ReadEvf1(frame[c])
    PROVE  GivesBytes(a)
  <1> DEFINE there == ChunkData(segs[frame[c].seg].file, segs[frame[c].seg].cursor.n)
  <1>1. there \in Seq(Int)
    BY ThereType DEF InTable
  <1>2. a \in ChunkFaults \cup JunkReads \/ a = Attempt(there, "ok") \/ a = Attempt(<<>>, "error")
    BY DEF ReadEvf1
  <1> HIDE DEF there
  <1> QED
    BY <1>1, <1>2, GivesBytesIs, ReadsType

\* One step of the EVF1 reader.
LEMMA NextEvf1OK ==
    ASSUME Inv(TRUE), [Next]_vars
    PROVE  Inv(TRUE)'
  <1>1. CASE UNCHANGED vars
    BY <1>1 DEF vars, Inv
  <1>2. CASE OpenEWF([f \in DOMAIN Files |-> DecodeEvf1(NewSegment(f), <<>>)])
    <2> DEFINE decodes == [f \in DOMAIN Files |-> DecodeEvf1(NewSegment(f), <<>>)]
    <2>1. ASSUME NEW f \in DOMAIN Files, NEW a \in decodes[f]
          PROVE  DecodesTo(a, NewSegment(f), <<>>)
      <3>1. SegmentOK(NewSegment(f)) /\ ~NewSegment(f).decoded
        BY NewSegmentOK DEF NewSegment
      <3>2. LinkOK(<<>>) /\ faults \in 0..MaxFaults
        BY DEF LinkOK, Inv
      <3>3. a \in DecodeEvf1(NewSegment(f), <<>>)
        OBVIOUS
      <3> QED
        BY <3>1, <3>2, <3>3, DecodeEvf1OK
    <2>2. OpenEWF(decodes)
      BY <1>2
    <2> HIDE DEF decodes
    <2> QED
      BY <2>1, <2>2, OpenEWFOK
  <1>3. ASSUME NEW c \in Clients, Call(c) \/ Step(c)
        PROVE  Inv(TRUE)'
    <2>1. CASE Call(c)
      BY <2>1, CallOK
    <2>2. CASE DecodeSegment(c, DecodeEvf1(SegmentOf(c), LinkOf(c)))
      <3>1. frame[c].seg \in DOMAIN segs /\ ~segs[frame[c].seg].decoded
        BY <2>2 DEF DecodeSegment
      <3>2. SegmentOK(SegmentOf(c)) /\ LinkOK(LinkOf(c)) /\ ~SegmentOf(c).decoded
        BY <3>1, LinkOfOK DEF SegmentOf
      <3>3. faults \in 0..MaxFaults
        BY DEF Inv
      <3>4. \A a \in DecodeEvf1(SegmentOf(c), LinkOf(c)) : DecodesTo(a, SegmentOf(c), LinkOf(c))
        BY <3>2, <3>3, DecodeEvf1OK
      <3> QED
        BY <2>2, <3>4, DecodeSegmentOK
    <2>3. CASE SegmentAsked(c)
      BY <2>3, SegmentAskedOK
    <2>4. CASE Find(c)
      BY <2>4, FindOK
    <2>5. CASE NextSegment(c)
      BY <2>5, NextSegmentOK
    <2>6. CASE NextTable(c)
      BY <2>6, NextTableOK
    <2>7. CASE NextChunk(c, IndexEvf1(frame[c].at, Table(c)))
      <3>1. pc[c] \in InTable
        BY <2>7 DEF NextChunk, InTable
      <3>2. Table(c).sectorOffset \in Nat /\ frame[c].at \in Nat
        BY <3>1, OfTable, OfCall, FrameFields DEF Tables
      <3>3. IndexEvf1(frame[c].at, Table(c)) \in 0..(Table(c).count - 1) =>
              frame[c].at >= Table(c).sectorOffset
        BY <3>2 DEF IndexEvf1
      <3> QED
        BY <2>7, <3>3, NextChunkOK
    <2>8. CASE AllocEntries(c)
      BY <2>8, AllocEntriesOK
    <2>9. CASE FillEntries(c)
      BY <2>9, FillEntriesOK
    <2>10. CASE SeekChunk(c, SeekEvf1(frame[c]))
      <3>1. pc[c] = "seek"
        BY <2>10 DEF SeekChunk
      <3>2. \A a \in SeekEvf1(frame[c]) : /\ a.cursor \in Cursors /\ a.cursor.at # "section"
                                          /\ a.out \in {"ok", "error", "panic"}
        BY <3>1, SeekEvf1Type
      <3> QED
        BY <2>10, <3>2, SeekChunkOK
    <2>11. CASE ReadChunk(c, ReadEvf1(frame[c]), FALSE)
      <3>1. pc[c] = "data"
        BY <2>11 DEF ReadChunk
      <3>2. \A a \in ReadEvf1(frame[c]) : GivesBytes(a)
        BY <3>1, ReadEvf1Type
      <3> QED
        BY <2>11, <3>2, ReadChunkOK
    <2> QED
      BY <1>3, <2>1, <2>2, <2>3, <2>4, <2>5, <2>6, <2>7, <2>8, <2>9, <2>10, <2>11 DEF Step
  <1> QED
    BY <1>1, <1>2, <1>3 DEF Next

LEMMA InvTypeOK ==
    ASSUME NEW counted, Inv(counted)
    PROVE  TypeOK
  <1>1. ASSUME NEW c \in Clients
        PROVE  /\ frame[c].sector \in Nat /\ frame[c].count \in Nat /\ frame[c].at \in Nat
               /\ frame[c].left \in Nat /\ frame[c].rest \in Nat
               /\ result[c].err \in Errors
               /\ result[c].data \in Seq(Int) /\ Len(result[c].data) <= result[c].len
    <2>1. frame[c] \in Frames /\ result[c] \in Results /\ Len(result[c].data) <= result[c].len
      BY DEF Inv
    <2> QED
      BY <2>1, FrameFields DEF Results
  <1>2. ASSUME NEW c \in Clients, pc[c] \in {"table", "chunk", "alloc", "fill", "seek", "data"}
        PROVE  frame[c].tab \in DOMAIN segs[frame[c].seg].tables
    BY <1>2, OfTable DEF InTable
  <1>3. /\ opened \in {"no", "yes", "panic"} /\ segs \in Seq(Segment)
        /\ position \in Nat /\ faults \in 0..MaxFaults /\ pc \in [Clients -> Places]
    BY DEF Inv, SegsOK
  <1> QED
    BY <1>1, <1>2, <1>3 DEF TypeOK

\* The types of the EVF1 reader: no call is at a table that its segment does not
\* have, none counts below 0, and none returns more bytes than it was asked for,
\* whatever other calls do between its steps and whatever reads fail.
THEOREM Evf1ReaderTypeOK == Spec => []TypeOK
  <1>1. Init => Inv(TRUE)
    BY InitOK, Zenon
  <1>2. Inv(TRUE) /\ [Next]_vars => Inv(TRUE)'
    BY NextEvf1OK, Zenon
  <1>3. Inv(TRUE) => TypeOK
    BY InvTypeOK, Zenon
  <1> QED
    BY <1>1, <1>2, <1>3, PTL DEF Spec

(***************************************************************************)
(* The EVF2 reader.  Evf2 has a copy of each operator of EwfReader, which  *)
(* is the operator of this module.                                         *)
(***************************************************************************)
LEMMA Evf2At ==
    ASSUME NEW what, NEW n
    PROVE  Evf2!At(what, n) = At(what, n)
    BY DEF At, Evf2!At

LEMMA Evf2Elsewhere == Evf2!Elsewhere = Elsewhere
    BY Evf2At DEF Elsewhere, Evf2!Elsewhere

LEMMA Evf2Attempt ==
    ASSUME NEW gives, NEW out
    PROVE  Evf2!Attempt(gives, out) = Attempt(gives, out)
    BY DEF Attempt, Evf2!Attempt

LEMMA Evf2Garbage ==
    ASSUME NEW n
    PROVE  Evf2!Garbage(n) = Garbage(n)
    BY DEF Garbage, Evf2!Garbage

LEMMA Evf2Total ==
    ASSUME NEW ns
    PROVE  Evf2!Total(ns) = Total(ns)
    BY DEF Total, Evf2!Total

LEMMA Evf2TableStart == Evf2!TableStart = TableStart
    BY Evf2Total DEF TableStart, Evf2!TableStart

LEMMA Evf2ChunksIn == Evf2!ChunksIn = ChunksIn
    BY Evf2Total DEF ChunksIn, Evf2!ChunksIn

LEMMA Evf2ChunksBefore == Evf2!ChunksBefore = ChunksBefore
    BY Evf2Total, Evf2ChunksIn DEF ChunksBefore, Evf2!ChunksBefore

LEMMA Evf2ChunkData ==
    ASSUME NEW f, NEW k
    PROVE  Evf2!ChunkData(f, k) = ChunkData(f, k)
    BY Evf2ChunksBefore DEF ChunkData, ChunkBytes, BytesFrom, Evf2!ChunkData, Evf2!ChunkBytes,
      Evf2!BytesFrom

LEMMA Evf2ImageChunks == Evf2!ImageChunks = ImageChunks
    BY Evf2ChunksBefore DEF ImageChunks, Evf2!ImageChunks

LEMMA Evf2NewTable ==
    ASSUME NEW f, NEW t, NEW sectorOffset
    PROVE  Evf2!NewTable(f, t, sectorOffset) = NewTable(f, t, sectorOffset)
    BY Evf2TableStart DEF NewTable, Evf2!NewTable

LEMMA Evf2NewSegment ==
    ASSUME NEW f
    PROVE  Evf2!NewSegment(f) = NewSegment(f)
    BY Evf2At DEF NewSegment, Evf2!NewSegment

LEMMA Evf2Decoded ==
    ASSUME NEW seg, NEW link
    PROVE  Evf2!Decoded(seg, link) = Decoded(seg, link)
    BY Evf2Total, Zenon DEF Decoded, Evf2!Decoded

LEMMA Evf2AddTables ==
    ASSUME NEW seg, NEW ts
    PROVE  Evf2!AddTables(seg, ts) = AddTables(seg, ts)
    BY Evf2Total, Evf2NewTable, Zenon DEF AddTables, Evf2!AddTables

LEMMA Evf2TablesIn ==
    ASSUME NEW sections
    PROVE  Evf2!TablesIn(sections) = TablesIn(sections)
    BY DEF TablesIn, FlattenSeq, Evf2!TablesIn, Evf2!FlattenSeq

LEMMA Evf2NoCall == Evf2!NoCall = NoCall
    BY Evf2Elsewhere DEF NoCall, Evf2!NoCall

LEMMA Evf2Outcome ==
    ASSUME NEW off, NEW len, NEW data, NEW err
    PROVE  Evf2!Outcome(off, len, data, err) = Outcome(off, len, data, err)
    BY DEF Outcome, Evf2!Outcome

LEMMA Evf2NoOutcome == Evf2!NoOutcome = NoOutcome
    BY Evf2Outcome DEF NoOutcome, Evf2!NoOutcome

LEMMA Evf2CanFail ==
    ASSUME NEW kind
    PROVE  Evf2!CanFail(kind) <=> CanFail(kind)
    BY DEF CanFail, Evf2!CanFail

LEMMA Evf2Sorted ==
    ASSUME NEW fs
    PROVE  Evf2!Sorted(fs) = Sorted(fs)
    BY DEF Sorted, Bijection, Injection, Surjection, IsInjective, Evf2!Sorted, Evf2!Bijection,
      Evf2!Injection, Evf2!Surjection, Evf2!IsInjective

LEMMA Evf2Quiet == Evf2!Quiet <=> Quiet
    BY DEF Quiet, Evf2!Quiet

LEMMA Evf2Goto ==
    ASSUME NEW c, NEW place, NEW f
    PROVE  Evf2!Goto(c, place, f) <=> Goto(c, place, f)
    BY DEF Goto, Evf2!Goto

LEMMA Evf2End ==
    ASSUME NEW c, NEW data, NEW err, NEW hit
    PROVE  Evf2!End(c, data, err, hit) <=> End(c, data, err, hit)
    BY Evf2NoCall, Evf2Outcome DEF End, Evf2!End

LEMMA Evf2Return ==
    ASSUME NEW c, NEW data, NEW err
    PROVE  Evf2!Return(c, data, err) <=> Return(c, data, err)
    BY Evf2End, Zenon DEF Return, Evf2!Return

LEMMA Evf2Fault ==
    ASSUME NEW c
    PROVE  Evf2!Fault(c) <=> Fault(c)
    BY Evf2End DEF Fault, Evf2!Fault

LEMMA Evf2Finish ==
    ASSUME NEW c, NEW err
    PROVE  Evf2!Finish(c, err) <=> Finish(c, err)
    BY Evf2Return DEF Finish, CopyLength, Lesser, Evf2!Finish, Evf2!CopyLength, Evf2!Lesser

LEMMA Evf2SegmentOf ==
    ASSUME NEW c
    PROVE  Evf2!SegmentOf(c) = SegmentOf(c)
    BY DEF SegmentOf, Evf2!SegmentOf

LEMMA Evf2LinkOf ==
    ASSUME NEW c
    PROVE  Evf2!LinkOf(c) = LinkOf(c)
    BY DEF LinkOf, Evf2!LinkOf

LEMMA Evf2Begin ==
    ASSUME NEW c, NEW place, NEW call
    PROVE  Evf2!Begin(c, place, call) <=> Begin(c, place, call)
    BY Evf2NoOutcome DEF Begin, Others, Evf2!Begin, Evf2!Others

LEMMA Evf2BeginRead ==
    ASSUME NEW c, NEW call, NEW off, NEW len
    PROVE  Evf2!BeginRead(c, call, off, len) <=> BeginRead(c, call, off, len)
    BY Evf2Begin, Evf2NoCall DEF BeginRead, SectorsAsked, CeilDiv, Evf2!BeginRead,
      Evf2!SectorsAsked, Evf2!CeilDiv

LEMMA Evf2Call ==
    ASSUME NEW c
    PROVE  Evf2!Call(c) <=> Call(c)
    BY Evf2BeginRead, Evf2Begin, Evf2NoCall, Evf2ImageChunks, Zenon DEF Call, CallReadAt, CallRead,
      CallSegment, Seek, Idle, ChunkBytes, Evf2!Call, Evf2!CallReadAt, Evf2!CallRead,
      Evf2!CallSegment, Evf2!Seek, Evf2!Idle, Evf2!ChunkBytes

LEMMA Evf2OpenEWF ==
    ASSUME NEW decodes
    PROVE  Evf2!OpenEWF(decodes) <=> OpenEWF(decodes)
    BY Evf2Sorted, Evf2NewSegment DEF OpenEWF, Evf2!OpenEWF

LEMMA Evf2DecodeSegment ==
    ASSUME NEW c, NEW decodes
    PROVE  Evf2!DecodeSegment(c, decodes) <=> DecodeSegment(c, decodes)
    BY Evf2Fault, Evf2Return DEF DecodeSegment, Evf2!DecodeSegment

LEMMA Evf2SegmentAsked ==
    ASSUME NEW c
    PROVE  Evf2!SegmentAsked(c) <=> SegmentAsked(c)
    BY Evf2Return, Evf2Quiet DEF SegmentAsked, Evf2!SegmentAsked

LEMMA Evf2Find ==
    ASSUME NEW c
    PROVE  Evf2!Find(c) <=> Find(c)
    BY Evf2Return, Evf2Goto, Evf2Quiet DEF Find, Evf2!Find

LEMMA Evf2TableOf ==
    ASSUME NEW offsets, NEW sector
    PROVE  Evf2!TableOf(offsets, sector) = TableOf(offsets, sector)
    BY DEF TableOf, Halve, Evf2!TableOf, Evf2!Halve

LEMMA Evf2NextSegment ==
    ASSUME NEW c
    PROVE  Evf2!NextSegment(c) <=> NextSegment(c)
    BY Evf2Finish, Evf2Goto, Evf2Quiet, Evf2TableOf, Zenon DEF NextSegment, Lesser, Evf2!NextSegment,
      Evf2!Lesser

LEMMA Evf2AfterTable ==
    ASSUME NEW c, NEW f
    PROVE  Evf2!AfterTable(c, f) <=> AfterTable(c, f)
    BY Evf2Goto DEF AfterTable, Evf2!AfterTable

LEMMA Evf2NextTable ==
    ASSUME NEW c
    PROVE  Evf2!NextTable(c) <=> NextTable(c)
    BY Evf2Return, Evf2AfterTable, Evf2Goto, Evf2Quiet, Zenon DEF NextTable, Lesser, Evf2!NextTable,
      Evf2!Lesser

LEMMA Evf2Table ==
    ASSUME NEW c
    PROVE  Evf2!Table(c) = Table(c)
    BY DEF Table, Evf2!Table

LEMMA Evf2NextChunk ==
    ASSUME NEW c, NEW index
    PROVE  Evf2!NextChunk(c, index) <=> NextChunk(c, index)
    BY Evf2Table, Evf2AfterTable, Evf2Return, Evf2Goto, Evf2Quiet DEF NextChunk, Evf2!NextChunk

LEMMA Evf2SetCursor ==
    ASSUME NEW c, NEW cursor
    PROVE  Evf2!SetCursor(c, cursor) <=> SetCursor(c, cursor)
    BY DEF SetCursor, Evf2!SetCursor

LEMMA Evf2AllocEntries ==
    ASSUME NEW c
    PROVE  Evf2!AllocEntries(c) <=> AllocEntries(c)
    BY Evf2At, Evf2Table, Evf2Goto, Zenon DEF AllocEntries, Evf2!AllocEntries

LEMMA Evf2FillEntries ==
    ASSUME NEW c
    PROVE  Evf2!FillEntries(c) <=> FillEntries(c)
    BY Evf2At, Evf2Table, Evf2Goto, Evf2SetCursor, Evf2CanFail, Evf2Fault, Evf2Return,
      Evf2Elsewhere, Zenon DEF FillEntries, Evf2!FillEntries

LEMMA Evf2SeekChunk ==
    ASSUME NEW c, NEW seeks
    PROVE  Evf2!SeekChunk(c, seeks) <=> SeekChunk(c, seeks)
    BY Evf2SetCursor, Evf2Goto, Evf2Return DEF SeekChunk, Evf2!SeekChunk

LEMMA Evf2ChunkFaults == Evf2!ChunkFaults = ChunkFaults
    BY Evf2Attempt, Evf2CanFail DEF ChunkFaults, Evf2!ChunkFaults

LEMMA Evf2JunkReads == Evf2!JunkReads = JunkReads
    BY Evf2Attempt, Evf2Garbage DEF JunkReads, Evf2!JunkReads

LEMMA Evf2Slice ==
    ASSUME NEW buf, NEW i, NEW j, NEW cuts
    PROVE  Evf2!Slice(buf, i, j, cuts) = Slice(buf, i, j, cuts)
    BY Evf2Attempt, Zenon DEF Slice, Lesser, Evf2!Slice, Evf2!Lesser

LEMMA Evf2ReadChunk ==
    ASSUME NEW c, NEW reads, NEW cuts
    PROVE  Evf2!ReadChunk(c, reads, cuts) <=> ReadChunk(c, reads, cuts)
    BY Evf2SetCursor, Evf2Elsewhere, Evf2Attempt, Evf2Slice, Evf2Fault, Evf2Goto, Evf2Return, Zenon
      DEF ReadChunk, Lesser, Evf2!ReadChunk, Evf2!Lesser

LEMMA Evf2Init == Evf2!Init <=> Init
    BY Evf2NoCall, Evf2NoOutcome DEF Init, Evf2!Init

LEMMA Evf2TypeOK == Evf2!TypeOK <=> TypeOK
    BY DEF TypeOK, Places, Errors, EntryStates, Sections, Cursors, Segment, Evf2!TypeOK,
      Evf2!Places, Evf2!Errors, Evf2!EntryStates, Evf2!Sections, Evf2!Cursors, Evf2!Segment

LEMMA Evf2SectionsOfType ==
    ASSUME NEW f \in DOMAIN Files
    PROVE  Evf2!SectionsOf[f] \in Seq(FileSections(f))
  <1>1. Files[f] \in Seq(Nat) /\ DOMAIN Files[f] = 1..Len(Files[f]) /\ Len(Files[f]) \in Nat
    BY FilesType, LenProperties
  <1>2. \A w \in {"case", "hash"} : At(w, 0) \in FileSections(f)
    BY DEF At, Sections, FileSections
  <1>3. \A t \in DOMAIN Files[f] : At("table", t) \in FileSections(f)
    BY <1>1 DEF At, Sections, FileSections
  <1> DEFINE before == <<At("case", 0)>>
             tables == [t \in DOMAIN Files[f] |-> At("table", t)]
             after == <<At("hash", 0)>>
  <1>4. before \in Seq(FileSections(f))
    BY <1>2
  <1>5. tables \in Seq(FileSections(f))
    <2>1. tables \in [1..Len(Files[f]) -> FileSections(f)]
      BY <1>1, <1>3
    <2> HIDE DEF tables
    <2> QED
      BY <1>1, <2>1, SeqDef
  <1>6. after \in Seq(FileSections(f))
    BY <1>2
  <1>7. Evf2!SectionsOf[f] = (before \o tables) \o after
    BY Evf2At DEF Evf2!SectionsOf
  <1> HIDE DEF before, tables, after
  <1>8. before \o tables \in Seq(FileSections(f))
    BY <1>4, <1>5, ConcatProperties
  <1> QED
    BY <1>6, <1>7, <1>8, ConcatProperties

LEMMA SectionsAreOfFile ==
    ASSUME NEW seg, SegmentOK(seg)
    PROVE  seg.sections \in Seq(FileSections(seg.file))
  <1>1. seg.sections \in Seq(Sections)
    BY SegmentFields DEF SegmentOK
  <1>2. PICK n \in Nat : Len(seg.sections) = n /\ DOMAIN seg.sections = 1..n
                         /\ seg.sections \in [1..n -> Sections]
    BY <1>1, LenProperties
  <1>3. \A i \in 1..n : seg.sections[i] \in FileSections(seg.file)
    BY <1>2 DEF SegmentOK, FileSections
  <1>4. seg.sections \in [1..n -> FileSections(seg.file)]
    BY <1>2, <1>3
  <1> QED
    BY <1>4, SeqDef

\* More descriptors in front of those there are.
LEMMA PutSectionsOK ==
    ASSUME NEW seg, SegmentOK(seg), ~seg.decoded, NEW more \in Seq(FileSections(seg.file))
    PROVE  LET new == [seg EXCEPT !.sections = more \o @]
           IN  SegmentOK(new) /\ new.file = seg.file /\ ~new.decoded
  <1> DEFINE sections == more \o seg.sections
             new == [seg EXCEPT !.sections = more \o @]
  <1>1. sections \in Seq(FileSections(seg.file))
    BY SectionsAreOfFile, ConcatProperties
  <1>2. new = [seg EXCEPT !.sections = sections]
    OBVIOUS
  <1> HIDE DEF sections, new
  <1>3. PICK n \in Nat : Len(sections) = n /\ DOMAIN sections = 1..n
                         /\ sections \in [1..n -> FileSections(seg.file)]
    BY <1>1, LenProperties
  <1>4. sections \in Seq(Sections)
    <2>1. sections \in [1..n -> Sections]
      BY <1>3 DEF FileSections
    <2> QED
      BY <2>1, SeqDef
  <1>5. seg \in Segment
    BY DEF SegmentOK
  <1>6. /\ new \in Segment /\ new.cursor = seg.cursor /\ new.file = seg.file
        /\ new.decoded = seg.decoded /\ new.sections = sections
        /\ new.tables = seg.tables /\ new.tableOffsets = seg.tableOffsets
        /\ new.sectorCount = seg.sectorCount /\ new.sectorOffset = seg.sectorOffset
    BY <1>2, <1>4, <1>5 DEF Segment
  <1>7. \A i \in 1..n : sections[i].at = "table" => sections[i].n \in DOMAIN Files[seg.file]
    BY <1>3 DEF FileSections
  <1>8. SegmentOK(new)
    BY <1>3, <1>6, <1>7 DEF SegmentOK
  <1> QED
    BY <1>6, <1>8 DEF new

\* The segment when the first k descriptors are decoded.
LEMMA Evf2AfterSectionsOK ==
    ASSUME NEW seg, SegmentOK(seg), ~seg.decoded, NEW k \in Nat, k <= Len(seg.sections)
    PROVE  /\ SegmentOK(Evf2!AfterSections(seg, k)) /\ Evf2!AfterSections(seg, k).file = seg.file
           /\ ~Evf2!AfterSections(seg, k).decoded
  <1> DEFINE done == SubSeq(seg.sections, 1, k)
             added == AddTables(seg, TablesIn(done))
             v == added.volume \/ \E i \in DOMAIN done : done[i].at = "case"
             new == Evf2!AfterSections(seg, k)
  <1>1. done \in Seq(FileSections(seg.file))
    BY SectionsAreOfFile, PrefixType
  <1>2. TablesIn(done) \in Seq(DOMAIN Files[seg.file])
    <2>1. PICK m \in Nat : Len(done) = m /\ DOMAIN done = 1..m
                           /\ done \in [1..m -> FileSections(seg.file)]
      BY <1>1, LenProperties
    <2> HIDE DEF done
    <2>2. done \in Seq(Sections)
      <3>1. done \in [1..m -> Sections]
        BY <2>1 DEF FileSections
      <3> QED
        BY <3>1, SeqDef
    <2>3. \A i \in DOMAIN done : done[i].at = "table" => done[i].n \in DOMAIN Files[seg.file]
      BY <2>1 DEF FileSections
    <2> QED
      BY <2>2, <2>3, TablesInType
  <1>3. new = [added EXCEPT !.volume = @ \/ \E i \in DOMAIN done : done[i].at = "case"]
    BY Evf2AddTables, Evf2TablesIn DEF Evf2!AfterSections
  <1>4. new = [added EXCEPT !.volume = v]
    BY <1>3
  <1> HIDE DEF done, new
  <1>5. SegmentOK(added) /\ added.file = seg.file /\ ~added.decoded
    BY <1>2, AddTablesOK
  <1> HIDE DEF added
  <1>6. added \in Segment /\ v \in BOOLEAN /\ added.cursor \in Cursors
        /\ (added.cursor.at = "section" => added.cursor.n # 0)
    BY <1>5, SegmentFields DEF SegmentOK
  <1> HIDE DEF v
  <1>7. new = Changed(added, v, added.cursor)
    BY <1>4, <1>6 DEF Changed, Segment
  <1>8. SegmentOK(new) /\ new.file = added.file /\ new.decoded = added.decoded
    BY <1>5, <1>6, <1>7, ChangeSegment
  <1> QED
    BY <1>5, <1>8 DEF new

\* Descriptors k and after of the file in front of those there are.
PutSections(seg, k) ==
    [seg EXCEPT !.sections =
       SubSeq(Evf2!SectionsOf[seg.file], k, Len(Evf2!SectionsOf[seg.file])) \o @]

LEMMA PutFromOK ==
    ASSUME NEW seg, SegmentOK(seg), ~seg.decoded, NEW k \in Nat \ {0}
    PROVE  /\ SegmentOK(PutSections(seg, k)) /\ PutSections(seg, k).file = seg.file
           /\ ~PutSections(seg, k).decoded
  <1> DEFINE all == Evf2!SectionsOf[seg.file]
             more == SubSeq(all, k, Len(all))
             new == [seg EXCEPT !.sections = more \o @]
  <1>1. all \in Seq(FileSections(seg.file))
    BY SegmentFields, Evf2SectionsOfType DEF SegmentOK
  <1>2. PICK n \in Nat : Len(all) = n
    BY <1>1, LenProperties
  <1> HIDE DEF all
  <1>3. \A i \in k..n : all[i] \in FileSections(seg.file)
    <2> TAKE i \in k..n
    <2>1. i \in 1..n
      OBVIOUS
    <2> QED
      BY <1>1, <1>2, <2>1, ElementOfSeq
  <1>4. more \in Seq(FileSections(seg.file))
    BY <1>2, <1>3, SubSeqProperties
  <1>5. PutSections(seg, k) = new
    BY DEF PutSections, all
  <1>6. SegmentOK(new) /\ new.file = seg.file /\ ~new.decoded
    <2> HIDE DEF more
    <2> QED
      BY <1>4, PutSectionsOK
  <1> QED
    BY <1>5, <1>6

LEMMA DecodeEvf2OK ==
    ASSUME NEW seg, SegmentOK(seg), ~seg.decoded, NEW link, LinkOK(link),
           NEW a \in Evf2!DecodeEvf2(seg, link)
    PROVE  DecodesTo(a, seg, link)
  <1> DEFINE sections == Evf2!SectionsOf[seg.file]
             read(k) == PutSections(seg, k)
             all == read(1)
             after(k) == Evf2!AfterSections(all, k)
             ks == {k \in DOMAIN all.sections :
                      /\ all.sections[k].at = "case" => ~after(k - 1).volume
                      /\ CanFail("section")}
  <1>1. \/ a = Attempt(Decoded(after(Len(all.sections)), link), "ok")
        \/ \E k \in DOMAIN sections : CanFail("section") /\ a = Attempt(read(k + 1), "fault")
        \/ \E k \in ks : a = Attempt(after(k - 1), "fault")
    BY Evf2Attempt, Evf2Decoded, Evf2CanFail DEF Evf2!DecodeEvf2, PutSections
  <1>2. \A k \in Nat \ {0} : /\ SegmentOK(read(k)) /\ read(k).file = seg.file
                             /\ ~read(k).decoded
    BY PutFromOK
  <1>3. SegmentOK(all) /\ all.file = seg.file /\ ~all.decoded
    BY <1>2
  <1>4. PICK n \in Nat : Len(all.sections) = n /\ DOMAIN all.sections = 1..n
    BY <1>3, SectionsAreOfFile, LenProperties
  <1>5. DOMAIN sections \subseteq Nat
    <2>1. seg.file \in DOMAIN Files
      BY SegmentFields DEF SegmentOK
    <2> QED
      BY <2>1, Evf2SectionsOfType, LenProperties
  <1> HIDE DEF read, sections, all
  <1>6. ASSUME NEW k \in Nat, k <= n
        PROVE  SegmentOK(after(k)) /\ after(k).file = seg.file /\ ~after(k).decoded
    BY <1>3, <1>4, <1>6, Evf2AfterSectionsOK
  <1>7. CASE a = Attempt(Decoded(after(Len(all.sections)), link), "ok")
    <2>1. SegmentOK(after(n)) /\ after(n).file = seg.file
      BY <1>6
    <2> HIDE DEF after
    <2>2. IsDecoded(Decoded(after(n), link), after(n), link)
      BY <2>1, DecodedOK
    <2> QED
      BY <1>4, <1>7, <2>1, <2>2 DEF DecodesTo, IsDecoded, Attempt
  <1>8. CASE \E k \in DOMAIN sections : CanFail("section") /\ a = Attempt(read(k + 1), "fault")
    <2>1. PICK k \in Nat : CanFail("section") /\ a = Attempt(read(k + 1), "fault")
      BY <1>5, <1>8
    <2>2. k + 1 \in Nat \ {0}
      OBVIOUS
    <2>3. SegmentOK(read(k + 1)) /\ read(k + 1).file = seg.file /\ ~read(k + 1).decoded
      BY <1>2, <2>2
    <2> QED
      BY <2>1, <2>3 DEF DecodesTo, Attempt, CanFail
  <1>9. CASE \E k \in ks : a = Attempt(after(k - 1), "fault")
    <2>1. PICK k \in 1..n : CanFail("section") /\ a = Attempt(after(k - 1), "fault")
      BY <1>4, <1>9
    <2>2. k - 1 \in Nat /\ k - 1 <= n
      OBVIOUS
    <2>3. SegmentOK(after(k - 1)) /\ after(k - 1).file = seg.file /\ ~after(k - 1).decoded
      BY <1>6, <2>2
    <2> HIDE DEF after
    <2> QED
      BY <2>1, <2>3 DEF DecodesTo, Attempt, CanFail
  <1> QED
    BY <1>1, <1>7, <1>8, <1>9, Zenon

LEMMA SeekEvf2Type ==
    ASSUME NEW counted, Inv(counted), NEW c \in Clients, NEW a \in Evf2!SeekEvf2(frame[c])
    PROVE  /\ a.cursor \in Cursors /\ a.cursor.at # "section"
           /\ a.out \in {"ok", "error", "panic"}
  <1> DEFINE chunk == frame[c].at \div ChunkSectors
  <1>1. chunk \in Nat
    <2>1. PICK sector \in Nat : sector = frame[c].at
      BY OfCall, FrameFields
    <2> QED
      BY <2>1, WholeChunks
  <1>2. /\ \A n \in Nat : At("chunk", n) \in Cursors /\ At("chunk", n).at # "section"
        /\ Elsewhere \in Cursors /\ Elsewhere.at # "section"
    BY DEF Elsewhere, At, Cursors
  <1>3. PICK cursor, out : /\ a = [cursor |-> cursor, out |-> out]
                           /\ cursor \in {At("chunk", chunk), Elsewhere}
                           /\ out \in {"ok", "error", "panic"}
    BY Evf2At, Evf2Elsewhere DEF Evf2!SeekEvf2
  <1> HIDE DEF chunk
  <1> QED
    BY <1>1, <1>2, <1>3

LEMMA ReadEvf2Type ==
    ASSUME NEW counted, Inv(counted), NEW c \in Clients, pc[c] = "data",
           NEW a \in Evf2!ReadEvf2(frame[c])
    PROVE  GivesBytes(a)
  <1> DEFINE there == ChunkData(segs[frame[c].seg].file, segs[frame[c].seg].cursor.n)
  <1>1. there \in Seq(Int) /\ <<>> \in Seq(Int)
    BY ThereType, EmptySeq DEF InTable
  <1>2. \/ a \in ChunkFaults \cup JunkReads \/ a = Attempt(there, "ok")
        \/ a = Attempt(<<>>, "error") \/ a = Attempt(<<>>, "ok")
    BY Evf2Attempt, Evf2ChunkData, Evf2ChunkFaults, Evf2JunkReads DEF Evf2!ReadEvf2
  <1> HIDE DEF there
  <1> QED
    BY <1>1, <1>2, GivesBytesIs, ReadsType

\* One step of the EVF2 reader.
LEMMA NextEvf2OK ==
    ASSUME Inv(FALSE), [Evf2!Next]_vars
    PROVE  Inv(FALSE)'
  <1>1. CASE UNCHANGED vars
    BY <1>1 DEF vars, Inv
  <1> DEFINE decodes == [f \in DOMAIN Files |-> Evf2!DecodeEvf2(NewSegment(f), <<>>)]
  <1>2. CASE OpenEWF(decodes)
    <2>1. ASSUME NEW f \in DOMAIN Files, NEW a \in decodes[f]
          PROVE  DecodesTo(a, NewSegment(f), <<>>)
      <3>1. SegmentOK(NewSegment(f)) /\ ~NewSegment(f).decoded
        BY NewSegmentOK DEF NewSegment
      <3>2. LinkOK(<<>>)
        BY DEF LinkOK
      <3>3. a \in Evf2!DecodeEvf2(NewSegment(f), <<>>)
        OBVIOUS
      <3> QED
        BY <3>1, <3>2, <3>3, DecodeEvf2OK
    <2> HIDE DEF decodes
    <2> QED
      BY <1>2, <2>1, OpenEWFOK
  <1>3. ASSUME NEW c \in Clients, Evf2!Call(c) \/ Evf2!Step(c)
        PROVE  Inv(FALSE)'
    <2>1. CASE Call(c)
      BY <2>1, CallOK
    <2>2. CASE DecodeSegment(c, Evf2!DecodeEvf2(SegmentOf(c), LinkOf(c)))
      <3>1. frame[c].seg \in DOMAIN segs /\ ~segs[frame[c].seg].decoded
        BY <2>2 DEF DecodeSegment
      <3>2. SegmentOK(SegmentOf(c)) /\ LinkOK(LinkOf(c)) /\ ~SegmentOf(c).decoded
        BY <3>1, LinkOfOK DEF SegmentOf
      <3>3. \A a \in Evf2!DecodeEvf2(SegmentOf(c), LinkOf(c)) : DecodesTo(a, SegmentOf(c), LinkOf(c))
        BY <3>2, DecodeEvf2OK
      <3> QED
        BY <2>2, <3>3, DecodeSegmentOK
    <2>3. CASE SegmentAsked(c)
      BY <2>3, SegmentAskedOK
    <2>4. CASE Find(c)
      BY <2>4, FindOK
    <2>5. CASE NextSegment(c)
      BY <2>5, NextSegmentOK
    <2>6. CASE NextTable(c)
      BY <2>6, NextTableOK
    <2>7. CASE NextChunk(c, Evf2!IndexEvf2(frame[c].at, Table(c)))
      BY <2>7, NextChunkOK
    <2>8. CASE AllocEntries(c)
      BY <2>8, AllocEntriesOK
    <2>9. CASE FillEntries(c)
      BY <2>9, FillEntriesOK
    <2>10. CASE SeekChunk(c, Evf2!SeekEvf2(frame[c]))
      <3>1. \A a \in Evf2!SeekEvf2(frame[c]) : /\ a.cursor \in Cursors /\ a.cursor.at # "section"
                                               /\ a.out \in {"ok", "error", "panic"}
        BY SeekEvf2Type
      <3> QED
        BY <2>10, <3>1, SeekChunkOK
    <2>11. CASE ReadChunk(c, Evf2!ReadEvf2(frame[c]), TRUE)
      <3>1. pc[c] = "data"
        BY <2>11 DEF ReadChunk
      <3>2. \A a \in Evf2!ReadEvf2(frame[c]) : GivesBytes(a)
        BY <3>1, ReadEvf2Type
      <3> QED
        BY <2>11, <3>2, ReadChunkOK
    <2>12. \/ Call(c) \/ DecodeSegment(c, Evf2!DecodeEvf2(SegmentOf(c), LinkOf(c)))
           \/ SegmentAsked(c) \/ Find(c) \/ NextSegment(c) \/ NextTable(c)
           \/ NextChunk(c, Evf2!IndexEvf2(frame[c].at, Table(c)))
           \/ AllocEntries(c) \/ FillEntries(c)
           \/ SeekChunk(c, Evf2!SeekEvf2(frame[c]))
           \/ ReadChunk(c, Evf2!ReadEvf2(frame[c]), TRUE)
      BY <1>3, Evf2Call, Evf2DecodeSegment, Evf2SegmentOf, Evf2LinkOf, Evf2SegmentAsked,
         Evf2Find, Evf2NextSegment, Evf2NextTable, Evf2NextChunk, Evf2Table, Evf2AllocEntries,
         Evf2FillEntries, Evf2SeekChunk, Evf2ReadChunk
         DEF Evf2!Step
    <2> QED
      BY <2>1, <2>2, <2>3, <2>4, <2>5, <2>6, <2>7, <2>8, <2>9, <2>10, <2>11, <2>12
  <1>4. \/ UNCHANGED vars \/ OpenEWF(decodes)
        \/ \E c \in Clients : Evf2!Call(c) \/ Evf2!Step(c)
    <2>1. decodes = [f \in DOMAIN Files |-> Evf2!DecodeEvf2(Evf2!NewSegment(f), <<>>)]
      BY Evf2NewSegment
    <2> HIDE DEF decodes
    <2> QED
      BY <2>1, Evf2OpenEWF DEF Evf2!Next
  <1> QED
    BY <1>1, <1>2, <1>3, <1>4

\* The same of the EVF2 reader, whose TypeOK is the one of EwfReader (Evf2TypeOK):
\* also when Segment decodes out of order, and again what is half decoded.
THEOREM Evf2ReaderTypeOK == Evf2!Spec => []TypeOK
  <1>1. Evf2!Init => Inv(FALSE)
    BY InitOK, Evf2Init, Zenon
  <1>2. Inv(FALSE) /\ [Evf2!Next]_Evf2!vars => Inv(FALSE)'
    <2> SUFFICES ASSUME Inv(FALSE), [Evf2!Next]_Evf2!vars
                 PROVE  Inv(FALSE)'
      BY Zenon
    <2>1. [Evf2!Next]_vars
      BY DEF vars, Evf2!vars
    <2> QED
      BY <2>1, NextEvf2OK, Zenon
  <1>3. Inv(FALSE) => TypeOK
    BY InvTypeOK, Zenon
  <1> QED
    BY <1>1, <1>2, <1>3, PTL DEF Evf2!Spec

(***************************************************************************)
(* Sums of a part of a sequence.                                           *)
(***************************************************************************)
\* Sums of the same numbers are the same.
SameUpTo(s, t, k) == \A i \in 1..k : s[i] = t[i]

LEMMA SumsAgree ==
    ASSUME NEW ns, NEW ms, NEW k \in Nat, NEW n \in Nat, k <= n, NEW g, NEW h,
           Sums(g, ns, k), Sums(h, ms, n), SameUpTo(ns, ms, k)
    PROVE  \A i \in 0..k : g[i] = h[i]
  <1> DEFINE S == {i \in Nat : i <= k => g[i] = h[i]}
  <1>1. g[0] = 0 /\ \A i \in Nat : i + 1 <= k => g[i + 1] = g[i] + ns[i + 1]
    BY SumsStep
  <1>2. h[0] = 0 /\ \A i \in Nat : i + 1 <= n => h[i + 1] = h[i] + ms[i + 1]
    BY SumsStep
  <1>3. 0 \in S
    BY <1>1, <1>2
  <1>4. ASSUME NEW i \in Nat, i \in S
        PROVE  i + 1 \in S
    <2> SUFFICES ASSUME i + 1 <= k PROVE g[i + 1] = h[i + 1]
      OBVIOUS
    <2>1. g[i] = h[i] /\ ns[i + 1] = ms[i + 1]
      BY <1>4 DEF SameUpTo
    <2> QED
      BY <1>1, <1>2, <2>1
  <1>5. Nat \subseteq S
    <2> HIDE DEF S
    <2> QED
      BY <1>3, <1>4, SetInduction
  <1> QED
    BY <1>5

\* The sums of natural numbers grow.
LEMMA SumsGrow ==
    ASSUME NEW ns \in Seq(Nat), NEW n \in Nat, Len(ns) = n, NEW g, Sums(g, ns, n),
           NEW i \in 0..n
    PROVE  \A j \in i..n : g[i] <= g[j]
  <1> DEFINE S == {j \in Nat : i + j <= n => g[i] <= g[i + j]}
  <1>1. \A k \in 0..n : g[k] \in Nat
    BY SumsType
  <1>2. 0 \in S
    BY <1>1
  <1>3. ASSUME NEW j \in Nat, j \in S
        PROVE  j + 1 \in S
    <2> SUFFICES ASSUME i + (j + 1) <= n PROVE g[i] <= g[i + (j + 1)]
      OBVIOUS
    <2>1. PICK k \in Nat : k = i + j
      OBVIOUS
    <2>2. g[i] <= g[k] /\ g[i] \in Nat /\ g[k] \in Nat
      BY <1>1, <1>3, <2>1
    <2>3. g[k + 1] = g[k] + ns[k + 1] /\ ns[k + 1] \in Nat
      <3>1. k + 1 \in 1..n
        BY <2>1
      <3>2. k \in Nat /\ k + 1 <= n
        BY <2>1
      <3>3. g[k + 1] = g[k] + ns[k + 1]
        BY <3>2, SumsStep
      <3> QED
        BY <3>1, <3>3, ElementOfSeq
    <2> QED
      BY <2>1, <2>2, <2>3
  <1>4. Nat \subseteq S
    <2> HIDE DEF S
    <2> QED
      BY <1>2, <1>3, SetInduction
  <1>5. ASSUME NEW j \in i..n
        PROVE  g[i] <= g[j]
    <2>1. j - i \in Nat /\ i + (j - i) = j
      OBVIOUS
    <2>2. j - i \in S
      BY <1>4, <2>1
    <2> QED
      BY <2>1, <2>2
  <1> QED
    BY <1>5

\* The sums of the first numbers of a sequence.
IsPrefixSums(g, s, n) ==
    /\ g[0] = 0 /\ \A i \in 0..n : g[i] \in Nat /\ Total(SubSeq(s, 1, i)) = g[i]
    /\ \A i \in 1..n : g[i] = g[i - 1] + s[i]
    /\ \A i \in 0..n : \A j \in i..n : g[i] <= g[j]
    /\ Total(s) = g[n]

LEMMA PrefixSums ==
    ASSUME NEW s \in Seq(Nat), NEW n \in Nat, Len(s) = n
    PROVE  \E g : IsPrefixSums(g, s, n)
  <1>1. PICK g : Sums(g, s, n) /\ Total(s) = g[n]
    BY TotalIs
  <1>2. \A i \in 0..n : g[i] \in Nat
    BY <1>1, SumsType
  <1>3. ASSUME NEW i \in 0..n
        PROVE  Total(SubSeq(s, 1, i)) = g[i]
    <2>1. /\ i \in Nat /\ i <= n
          /\ Len(SubSeq(s, 1, i)) = i /\ SameUpTo(SubSeq(s, 1, i), s, i)
      BY PrefixType DEF SameUpTo
    <2>2. PICK h : Sums(h, SubSeq(s, 1, i), i) /\ Total(SubSeq(s, 1, i)) = h[i]
      BY <2>1, TotalIs
    <2>3. \A j \in 0..i : h[j] = g[j]
      BY <1>1, <2>1, <2>2, SumsAgree
    <2> QED
      BY <2>2, <2>3
  <1>4. g[0] = 0 /\ \A i \in 1..n : g[i] = g[i - 1] + s[i]
    <2>1. g[0] = 0 /\ \A i \in Nat : i + 1 <= n => g[i + 1] = g[i] + s[i + 1]
      BY <1>1, SumsStep
    <2>2. ASSUME NEW i \in 1..n
          PROVE  g[i] = g[i - 1] + s[i]
      <3>1. i - 1 \in Nat /\ (i - 1) + 1 = i
        OBVIOUS
      <3> QED
        BY <2>1, <3>1
    <2> QED
      BY <2>1, <2>2
  <1>5. \A i \in 0..n : \A j \in i..n : g[i] <= g[j]
    BY <1>1, SumsGrow
  <1> QED
    BY <1>1, <1>2, <1>3, <1>4, <1>5 DEF IsPrefixSums

(***************************************************************************)
(* Where the files of the image and their tables begin, in sectors.        *)
(***************************************************************************)
SectorsIn(i) == ChunksIn[i] * ChunkSectors
Begins(i) == ChunksBefore[i] * ChunkSectors
Start(f, t) == TableStart[f][t] * ChunkSectors
SectorsOfTable(f, t) == Files[f][t] * ChunkSectors
Ends(f, t) == Start(f, t) + SectorsOfTable(f, t)

LEMMA ProductOfSum == \A a, b, k \in Nat : (a + b) * k = a * k + b * k
  OBVIOUS

LEMMA ProductZero == \A a \in Nat : a * ChunkSectors = 0 => a = 0
  BY ReaderAssumption

LEMMA ChunkSectorsType == ChunkSectors \in Nat /\ ChunkSectors > 0
  BY ReaderAssumption

\* A file's first sector is the one behind the file before.
IsLaidOut(n) ==
    /\ Begins(1) = 0 /\ ImageSectors = Begins(n + 1)
    /\ \A i \in 1..n : SectorsIn(i) \in Nat /\ Begins(i + 1) = Begins(i) + SectorsIn(i)
    /\ \A i \in 1..(n + 1) : Begins(i) \in Nat
    /\ \A i \in 1..(n + 1) : \A j \in i..(n + 1) : Begins(i) <= Begins(j)

LEMMA LaidOut ==
    ASSUME NEW n \in Nat, Len(Files) = n
    PROVE  IsLaidOut(n)
  <1>1. DOMAIN Files = 1..n
    BY FilesType, LenProperties
  <1>2. ChunksIn \in Seq(Nat) /\ Len(ChunksIn) = n
    <2>1. ChunksIn \in [1..n -> Nat]
      BY <1>1, ChunksBeforeType DEF ChunksIn
    <2> QED
      BY <2>1, SeqDef, LenProperties
  <1>3. PICK g : IsPrefixSums(g, ChunksIn, n)
    BY <1>2, PrefixSums
  <1>4. \A i \in 1..(n + 1) : ChunksBefore[i] = g[i - 1] /\ g[i - 1] \in Nat
    <2> TAKE i \in 1..(n + 1)
    <2>1. i - 1 \in 0..n
      OBVIOUS
    <2>2. ChunksBefore[i] = Total(SubSeq(ChunksIn, 1, i - 1))
      BY DEF ChunksBefore
    <2> QED
      BY <1>3, <2>1, <2>2 DEF IsPrefixSums
  <1>5. \A i \in 1..(n + 1) : Begins(i) \in Nat
    BY <1>4, ChunkSectorsType, Product DEF Begins
  <1>6. Begins(1) = 0
    <2>1. ChunksBefore[1] = g[0] /\ g[0] = 0
      BY <1>3, <1>4 DEF IsPrefixSums
    <2> QED
      BY <2>1, ChunkSectorsType DEF Begins
  <1>7. ASSUME NEW i \in 1..n
        PROVE  SectorsIn(i) \in Nat /\ Begins(i + 1) = Begins(i) + SectorsIn(i)
    <2>1. i \in 1..(n + 1) /\ i + 1 \in 1..(n + 1) /\ (i + 1) - 1 = i
      OBVIOUS
    <2>2. g[i] = g[i - 1] + ChunksIn[i]
      BY <1>3 DEF IsPrefixSums
    <2>3. ChunksIn[i] \in Nat /\ ChunksBefore[i] \in Nat
      BY <1>1, ChunksBeforeType
    <2>4. ChunksBefore[i + 1] = ChunksBefore[i] + ChunksIn[i]
      BY <1>4, <2>1, <2>2
    <2> QED
      BY <2>3, <2>4, ChunkSectorsType, ProductOfSum, Product DEF Begins, SectorsIn
  <1>8. ASSUME NEW i \in 1..(n + 1), NEW j \in i..(n + 1)
        PROVE  Begins(i) <= Begins(j)
    <2>1. i - 1 \in 0..n /\ j - 1 \in (i - 1)..n /\ j \in 1..(n + 1)
      OBVIOUS
    <2>2. g[i - 1] <= g[j - 1]
      BY <1>3, <2>1 DEF IsPrefixSums
    <2>3. ChunksBefore[i] <= ChunksBefore[j] /\ ChunksBefore[i] \in Nat /\ ChunksBefore[j] \in Nat
      BY <1>4, <2>1, <2>2
    <2> QED
      BY <2>3, ChunkSectorsType, ProductGrows DEF Begins
  <1>9. ImageSectors = Begins(n + 1)
    BY DEF ImageSectors, ImageChunks, Begins
  <1> QED
    BY <1>5, <1>6, <1>7, <1>8, <1>9 DEF IsLaidOut

\* A table's first sector is the one behind the table before.
HasTables(f, m) ==
    /\ \A t \in 1..m : /\ Start(f, t) \in Nat /\ SectorsOfTable(f, t) \in Nat
                       /\ Ends(f, t) = Start(f, t) + SectorsOfTable(f, t)
                       /\ t = 1 => Start(f, t) = 0
                       /\ t < m => Start(f, t + 1) = Ends(f, t)
                       /\ t = m => Ends(f, t) = SectorsIn(f)
                       /\ m > 1 => SectorsOfTable(f, t) > 0
                       /\ m > 1 /\ t > 1 => Start(f, t) > 0
    /\ \A t \in 1..m : \A u \in t..m : Start(f, t) <= Start(f, u)
    /\ SectorsIn(f) = 0 => f = Len(Files)
    /\ m = 0 => SectorsIn(f) = 0

LEMMA TablesLaidOut ==
    ASSUME NEW f \in DOMAIN Files, NEW m \in Nat, Len(Files[f]) = m
    PROVE  HasTables(f, m)
  <1>1. Files[f] \in Seq(Nat) /\ DOMAIN Files[f] = 1..m
    BY FilesType, LenProperties
  <1>2. PICK g : IsPrefixSums(g, Files[f], m)
    BY <1>1, PrefixSums
  <1>3. \A t \in 1..m : TableStart[f][t] = g[t - 1] /\ g[t - 1] \in Nat /\ Files[f][t] \in Nat
    <2> TAKE t \in 1..m
    <2>1. t - 1 \in 0..m
      OBVIOUS
    <2>2. TableStart[f][t] = Total(SubSeq(Files[f], 1, t - 1))
      BY <1>1 DEF TableStart
    <2>3. Files[f][t] \in Nat
      BY <1>1, ElementOfSeq
    <2> QED
      BY <1>2, <2>1, <2>2, <2>3 DEF IsPrefixSums
  <1>4. ChunksIn[f] = g[m] /\ g[m] \in Nat
    BY <1>2 DEF IsPrefixSums, ChunksIn
  <1>5. \A t \in 1..m : g[t] = g[t - 1] + Files[f][t]
    BY <1>2 DEF IsPrefixSums
  <1>6. \A t \in 1..m : Files[f][t] = 0 => f = Len(Files) /\ m = 1
    BY <1>1, ReaderAssumption
  <1>7. ASSUME NEW t \in 1..m
        PROVE  /\ Start(f, t) \in Nat /\ SectorsOfTable(f, t) \in Nat
               /\ t = 1 => Start(f, t) = 0
               /\ t < m => Start(f, t + 1) = Ends(f, t)
               /\ t = m => Ends(f, t) = SectorsIn(f)
               /\ m > 1 => SectorsOfTable(f, t) > 0
    <2>1. Start(f, t) = g[t - 1] * ChunkSectors /\ Start(f, t) \in Nat
      BY <1>3, ChunkSectorsType, Product DEF Start
    <2>2. SectorsOfTable(f, t) = Files[f][t] * ChunkSectors /\ SectorsOfTable(f, t) \in Nat
      BY <1>3, ChunkSectorsType, Product DEF SectorsOfTable
    <2>3. t = 1 => Start(f, t) = 0
      <3>1. t = 1 => g[t - 1] = 0
        BY <1>2 DEF IsPrefixSums
      <3> QED
        BY <2>1, <3>1, ChunkSectorsType
    <2>4. g[t] * ChunkSectors = Ends(f, t)
      <3>1. g[t - 1] \in Nat /\ Files[f][t] \in Nat /\ g[t] = g[t - 1] + Files[f][t]
        BY <1>3, <1>5
      <3> QED
        BY <2>1, <2>2, <3>1, ChunkSectorsType, ProductOfSum DEF Ends
    <2>5. ASSUME t < m
          PROVE  Start(f, t + 1) = Ends(f, t)
      <3>1. t + 1 \in 1..m /\ (t + 1) - 1 = t
        BY <2>5
      <3>2. TableStart[f][t + 1] = g[t]
        BY <1>3, <3>1
      <3> QED
        BY <2>4, <3>2 DEF Start
    <2>6. t = m => Ends(f, t) = SectorsIn(f)
      BY <1>4, <2>4 DEF SectorsIn
    <2>7. m > 1 => SectorsOfTable(f, t) > 0
      <3>1. m > 1 => Files[f][t] # 0
        BY <1>6
      <3>2. Files[f][t] \in Nat
        BY <1>3
      <3>3. SectorsOfTable(f, t) = 0 => Files[f][t] = 0
        BY <2>2, <3>2, ProductZero
      <3> QED
        BY <2>2, <3>1, <3>3
    <2> QED
      BY <2>1, <2>2, <2>3, <2>5, <2>6, <2>7
  <1>8. ASSUME NEW t \in 1..m, NEW u \in t..m
        PROVE  Start(f, t) <= Start(f, u)
    <2>1. t - 1 \in 0..m /\ u - 1 \in (t - 1)..m /\ u \in 1..m
      OBVIOUS
    <2>2. g[t - 1] <= g[u - 1]
      BY <1>2, <2>1 DEF IsPrefixSums
    <2>3. g[t - 1] \in Nat /\ g[u - 1] \in Nat
      BY <1>3, <2>1
    <2>4. g[t - 1] * ChunkSectors <= g[u - 1] * ChunkSectors
      BY <2>2, <2>3, ChunkSectorsType, ProductGrows
    <2>5. TableStart[f][t] = g[t - 1] /\ TableStart[f][u] = g[u - 1]
      BY <1>3, <2>1
    <2> QED
      BY <2>4, <2>5 DEF Start
  <1>9. ASSUME NEW t \in 1..m, m > 1, t > 1
        PROVE  Start(f, t) > 0
    <2>1. t - 1 \in 1..m /\ t - 1 < m /\ (t - 1) + 1 = t
      BY <1>9
    <2>2. Start(f, t) = Ends(f, t - 1) /\ SectorsOfTable(f, t - 1) > 0
      BY <1>7, <1>9, <2>1
    <2>3. Start(f, t - 1) \in Nat /\ SectorsOfTable(f, t - 1) \in Nat
      BY <1>7, <2>1
    <2> QED
      BY <2>2, <2>3 DEF Ends
  <1>10. m = 0 => SectorsIn(f) = 0
    <2>1. m = 0 => g[m] = 0
      BY <1>2 DEF IsPrefixSums
    <2> QED
      BY <1>4, <2>1, ChunkSectorsType DEF SectorsIn
  <1>11. SectorsIn(f) = 0 => f = Len(Files)
    <2> HAVE SectorsIn(f) = 0
    <2>1. g[m] = 0
      BY <1>4, ProductZero DEF SectorsIn
    <2>2. CASE m = 0
      <3>1. Files[f] = <<>>
        BY <1>1, <2>2, EmptySeq
      <3> QED
        BY <3>1, ReaderAssumption
    <2>3. CASE m # 0
      <3>1. m \in 1..m
        BY <2>3
      <3>2. g[m - 1] \in Nat /\ Files[f][m] \in Nat /\ g[m] = g[m - 1] + Files[f][m]
        BY <1>3, <1>5, <3>1
      <3>3. Files[f][m] = 0
        BY <2>1, <3>2
      <3> QED
        BY <1>6, <3>1, <3>3
    <2> QED
      BY <2>2, <2>3
  <1> QED
    BY <1>7, <1>8, <1>9, <1>10, <1>11 DEF HasTables, Ends

(***************************************************************************)
(* sort.Search over offsets that do not decrease.                          *)
(***************************************************************************)
\* The offsets do not decrease: the search finds the first one behind x.
Increasing(os, n) == \A p \in 1..n : os[p] \in Nat /\ \A q \in p..n : os[p] <= os[q]

\* What is before the range searched is not behind x, what is after it is.
Around(r, os, x, n) ==
    /\ \A p \in 1..n : p <= r.i => os[p] <= x
    /\ \A p \in 1..n : p > r.j => os[p] > x

LEMMA HalveAround ==
    ASSUME NEW os, NEW x \in Nat, NEW n \in Nat, Increasing(os, n),
           NEW i \in Nat, NEW j \in Nat, i <= j, j <= n,
           Around([i |-> i, j |-> j], os, x, n)
    PROVE  Around(Halve([i |-> i, j |-> j], os, x), os, x, n)
  <1>1. CASE i >= j
    BY <1>1 DEF Halve
  <1>2. CASE i < j
    <2> DEFINE h == (i + j) \div 2
    <2>1. h \in Nat /\ i <= h /\ h < j
      BY <1>2, HalfWay
    <2>2. Halve([i |-> i, j |-> j], os, x) =
            IF os[h + 1] > x THEN [i |-> i, j |-> h] ELSE [i |-> h + 1, j |-> j]
      BY <1>2 DEF Halve
    <2> HIDE DEF h
    <2>3. h + 1 \in 1..n /\ os[h + 1] \in Nat
      BY <2>1 DEF Increasing
    <2>4. CASE os[h + 1] > x
      <3>1. ASSUME NEW p \in 1..n, p > h
            PROVE  os[p] > x
        <4>1. p \in (h + 1)..n
          BY <2>1, <3>1
        <4>2. os[h + 1] <= os[p] /\ os[p] \in Nat
          BY <2>3, <4>1 DEF Increasing
        <4> QED
          BY <2>3, <2>4, <4>2
      <3> QED
        BY <2>2, <2>4, <3>1 DEF Around
    <2>5. CASE os[h + 1] <= x
      <3>1. ASSUME NEW p \in 1..n, p <= h + 1
            PROVE  os[p] <= x
        <4>1. h + 1 \in p..n
          BY <2>1, <3>1
        <4>2. os[p] <= os[h + 1] /\ os[p] \in Nat
          BY <4>1 DEF Increasing
        <4> QED
          BY <2>3, <2>5, <4>2
      <3>2. ~(os[h + 1] > x)
        BY <2>3, <2>5
      <3> QED
        BY <2>2, <3>1, <3>2 DEF Around
    <2> QED
      BY <2>3, <2>4, <2>5
  <1> QED
    BY <1>1, <1>2

LEMMA TurnsAround ==
    ASSUME NEW os, NEW x \in Nat, NEW n \in Nat, Increasing(os, n), NEW g, Turns(g, os, x, n)
    PROVE  \A k \in 0..n : Around(g[k], os, x, n)
  <1> DEFINE S == {k \in Nat : k <= n => Around(g[k], os, x, n)}
  <1>1. 0 \in S
    <2>1. g[0] = [i |-> 0, j |-> n]
      BY DEF Turns
    <2> QED
      BY <2>1 DEF Around
  <1>2. ASSUME NEW k \in Nat, k \in S
        PROVE  k + 1 \in S
    <2> SUFFICES ASSUME k + 1 <= n PROVE Around(g[k + 1], os, x, n)
      OBVIOUS
    <2>1. Around(g[k], os, x, n) /\ k \in 0..n
      BY <1>2
    <2>2. g[k + 1] = Halve(g[k], os, x)
      <3>1. k + 1 \in 0..n /\ k + 1 # 0 /\ (k + 1) - 1 = k
        OBVIOUS
      <3> QED
        BY <3>1 DEF Turns
    <2>3. g[k] \in [i : Nat, j : Nat] /\ g[k].i <= g[k].j /\ g[k].j <= n
      BY <2>1, TurnsNarrow, Zenon
    <2>4. PICK i \in Nat, j \in Nat : g[k] = [i |-> i, j |-> j]
      BY <2>3
    <2>5. i <= j /\ j <= n /\ Around([i |-> i, j |-> j], os, x, n)
      BY <2>1, <2>3, <2>4
    <2> QED
      BY <2>2, <2>4, <2>5, HalveAround
  <1>3. Nat \subseteq S
    <2> HIDE DEF S
    <2> QED
      BY <1>1, <1>2, SetInduction
  <1> QED
    BY <1>3

LEMMA TableOfFinds ==
    ASSUME NEW os \in Seq(Nat), NEW x \in Nat, NEW n \in Nat, Len(os) = n, Increasing(os, n)
    PROVE  /\ TableOf(os, x) \in 1..(n + 1)
           /\ TableOf(os, x) > 1 => os[TableOf(os, x) - 1] <= x
           /\ TableOf(os, x) <= n => os[TableOf(os, x)] > x
  <1>1. PICK g : Turns(g, os, x, n) /\ TableOf(os, x) = g[n].i + 1
    BY TableOfIs
  <1>2. n \in 0..n
    OBVIOUS
  <1>3. /\ g[n] \in [i : Nat, j : Nat] /\ g[n].i <= g[n].j /\ g[n].j <= n
        /\ g[n].i < g[n].j => g[n].j - g[n].i <= n - n
    BY <1>1, <1>2, TurnsNarrow, Zenon
  <1>4. Around(g[n], os, x, n)
    BY <1>1, <1>2, TurnsAround
  <1>5. PICK i \in Nat : g[n].i = i /\ g[n].j = i /\ i <= n
    BY <1>3
  <1>6. i >= 1 => i \in 1..n /\ (i + 1) - 1 = i
    BY <1>5
  <1>7. i + 1 <= n => i + 1 \in 1..n /\ i + 1 > i
    BY <1>5
  <1> QED
    BY <1>1, <1>4, <1>5, <1>6, <1>7 DEF Around

(***************************************************************************)
(* What the segments hold of the image.                                    *)
(***************************************************************************)
\* The segment has the first k tables of its file.
TablesUpTo(seg, k) ==
    /\ Len(seg.tables) = k
    /\ \A j \in 1..k : SameTable(NewTable(seg.file, j, Start(seg.file, j)), seg.tables[j])
    /\ k = 0 => seg.tableOffsets = <<>>
    /\ k # 0 => Len(seg.tableOffsets) + 1 = k
    /\ \A j \in 1..Len(seg.tableOffsets) : seg.tableOffsets[j] = Start(seg.file, j + 1)

\* The segment is what decoding it once, after the one before it, gives.
GoodSegment(seg) ==
    /\ seg.sectorOffset = Begins(seg.file)
    /\ seg.sectorCount = SectorsIn(seg.file)
    /\ TablesUpTo(seg, Len(Files[seg.file]))

\* A table of a good segment.
IsGoodTable(u, f, t) ==
    /\ u.t = t /\ u.sectorOffset = Start(f, t) /\ u.sectorCount = SectorsOfTable(f, t)
    /\ u.count = Files[f][t] /\ u.first = TableStart[f][t]

LEMMA GoodTable ==
    ASSUME NEW seg, NEW k, TablesUpTo(seg, k), NEW t \in 1..k
    PROVE  IsGoodTable(seg.tables[t], seg.file, t)
  BY DEF TablesUpTo, SameTable, NewTable, IsGoodTable, SectorsOfTable

\* Sectors x of file f is in table t.
IsIn(x, f, t) == Start(f, t) <= x /\ x < Ends(f, t)

\* The search finds the table a sector of the segment is in.
LEMMA TableOfGood ==
    ASSUME NEW seg, SegmentOK(seg), NEW m \in Nat, Len(Files[seg.file]) = m,
           TablesUpTo(seg, m), NEW x \in Nat, x < SectorsIn(seg.file)
    PROVE  /\ TableOf(seg.tableOffsets, x) \in 1..m
           /\ IsIn(x, seg.file, TableOf(seg.tableOffsets, x))
  <1> DEFINE f == seg.file
             os == seg.tableOffsets
             tab == TableOf(seg.tableOffsets, x)
  <1>1. f \in DOMAIN Files /\ os \in Seq(Nat)
    BY SegmentFields DEF SegmentOK
  <1>2. HasTables(f, m)
    BY <1>1, TablesLaidOut
  <1>3. m # 0
    BY <1>2 DEF HasTables
  <1>4. PICK n \in Nat : Len(os) = n /\ n + 1 = m
    BY <1>1, <1>3, LenProperties DEF TablesUpTo
  <1>5. \A j \in 1..n : os[j] = Start(f, j + 1)
    BY <1>4 DEF TablesUpTo
  <1>6. Increasing(os, n)
    <2>1. ASSUME NEW p \in 1..n
          PROVE  os[p] \in Nat
      BY <1>1, <1>4, ElementOfSeq
    <2>2. ASSUME NEW p \in 1..n, NEW q \in p..n
          PROVE  os[p] <= os[q]
      <3>1. p + 1 \in 1..m /\ q + 1 \in (p + 1)..m /\ q \in 1..n
        BY <1>4
      <3>2. Start(f, p + 1) <= Start(f, q + 1)
        BY <1>2, <3>1 DEF HasTables
      <3> QED
        BY <1>5, <3>1, <3>2
    <2> QED
      BY <2>1, <2>2 DEF Increasing
  <1>7. /\ tab \in 1..(n + 1)
        /\ tab > 1 => os[tab - 1] <= x
        /\ tab <= n => os[tab] > x
    BY <1>1, <1>4, <1>6, TableOfFinds
  <1> HIDE DEF tab, f, os
  <1>8. Start(f, tab) <= x
    <2>1. CASE tab = 1
      BY <1>2, <1>4, <2>1 DEF HasTables
    <2>2. CASE tab # 1
      <3>1. tab - 1 \in 1..n /\ (tab - 1) + 1 = tab
        BY <1>7, <2>2
      <3>2. os[tab - 1] = Start(f, (tab - 1) + 1)
        BY <1>5, <3>1
      <3> QED
        BY <1>7, <3>1, <3>2
    <2> QED
      BY <2>1, <2>2
  <1>9. x < Ends(f, tab)
    <2>1. CASE tab <= n
      <3>1. tab \in 1..n
        BY <1>7, <2>1
      <3>2. os[tab] = Start(f, tab + 1) /\ os[tab] > x
        BY <1>5, <1>7, <3>1
      <3>3. tab \in 1..m /\ tab < m
        BY <1>4, <3>1
      <3>4. Start(f, tab + 1) = Ends(f, tab) /\ Start(f, tab) \in Nat /\ SectorsOfTable(f, tab) \in Nat
        BY <1>2, <3>3 DEF HasTables
      <3> QED
        BY <3>2, <3>4 DEF Ends
    <2>2. CASE tab = n + 1
      <3>1. tab = m /\ tab \in 1..m
        BY <1>4, <2>2
      <3>2. Ends(f, tab) = SectorsIn(f)
        BY <1>2, <3>1 DEF HasTables
      <3> QED
        BY <3>2 DEF f
    <2> QED
      BY <1>7, <2>1, <2>2
  <1> QED
    BY <1>4, <1>7, <1>8, <1>9 DEF IsIn, f, os, tab

(***************************************************************************)
(* Reads that run alone on an intact reader.                               *)
(***************************************************************************)
\* The segment was not decoded once, from its first table to its last.
Damaged(seg) ==
    \/ Len(seg.tables) > Len(Files[seg.file])
    \/ \E j \in 1..Len(seg.tables) : seg.tables[j].sectorOffset # Start(seg.file, j)

\* The tables of file f among its first n - 1 sections (evf1).
TablesDone(f, n) == IF f # 1 THEN n - 1 ELSE IF n = 1 THEN 0 ELSE n - 2

\* What Decode has made of a segment: it has the first tables of its file, in
\* evf1 those before the cursor, or can be seen not to be intact.
Kept(seg, counted) ==
    seg.decoded \/ counted =>
      \/ Damaged(seg)
      \/ \E k \in 0..Len(Files[seg.file]) :
           /\ TablesUpTo(seg, k)
           /\ counted /\ ~seg.decoded /\ seg.cursor.at = "section" =>
                k = TablesDone(seg.file, seg.cursor.n)

\* The entries of a table are read, or not yet, or being read.
Filled(i, t) ==
    \/ segs[i].tables[t].entries \in {"none", "full"}
    \/ \E d \in Clients : pc[d] \in {"alloc", "fill"} /\ frame[d].seg = i /\ frame[d].tab = t

\* A read on these segments finds what it looks for; Decode may still fail.
Sane ==
    /\ opened = "yes" /\ Len(segs) = Len(Files)
    /\ \A i \in 1..Len(segs) : segs[i].file = i
    /\ \A i \in 1..Len(segs) :
         segs[i].decoded => /\ GoodSegment(segs[i])
                            /\ \A t \in 1..Len(segs[i].tables) : Filled(i, t)

\* No call of Decode has failed for good.
Pristine == Sane /\ \A i \in 1..Len(segs) : segs[i].decoded \/ segs[i].cursor.at = "section"

First(f) == f.off \div SectorSize

\* The call has the bytes of the sectors up to n.
HasBytes(f, n) == f.buf = BytesFrom(First(f) * SectorSize, (n - First(f)) * SectorSize)

Going(f) == /\ First(f) < ImageSectors
            /\ f.count = SectorsAsked(f.off, f.len) - (f.sector - First(f))

\* How far a read has come that has run alone so far.
AtFind(f) ==
    /\ f.sector = First(f) /\ f.count = SectorsAsked(f.off, f.len) /\ f.buf = <<>>
    /\ f.rest = 0 /\ f.seg \in 1..(Len(Files) + 1) /\ f.sector >= Begins(f.seg)

AtSegment(f) ==
    /\ Going(f) /\ First(f) <= f.sector /\ f.sector <= ImageSectors /\ HasBytes(f, f.sector)
    /\ f.rest = 0 /\ f.seg \in 1..(Len(Files) + 1)
    /\ f.count > 0 => /\ f.sector >= Begins(f.seg)
                      /\ \/ f.sector = ImageSectors
                         \/ f.seg <= Len(Files) /\ f.sector < Begins(f.seg + 1)

InSegment(f) ==
    /\ Going(f) /\ First(f) <= Begins(f.seg) + f.at /\ HasBytes(f, Begins(f.seg) + f.at)
    /\ f.sector = Begins(f.seg) + f.at + f.rest + f.left
    /\ f.at + f.rest + f.left <= SectorsIn(f.seg)
    /\ f.count > 0 => f.sector = Begins(f.seg + 1)
    /\ Start(f.seg, f.tab) <= f.at

AtTable(f) == f.rest = 0 /\ f.left > 0 /\ f.at < Ends(f.seg, f.tab)

AtChunk(f) == /\ f.at + f.rest <= Ends(f.seg, f.tab)
              /\ f.left > 0 => f.at + f.rest = Ends(f.seg, f.tab)

Progress(p, f, ss) ==
    /\ p = "find" => AtFind(f)
    /\ p = "segment" => AtSegment(f)
    /\ p \in InTable => InSegment(f)
    /\ p = "table" => AtTable(f)
    /\ p \in InTable \ {"table"} => AtChunk(f)
    /\ p \in AtEntry => f.rest > 0
    /\ p = "alloc" => ss[f.seg].tables[f.tab].entries = "none"
    /\ p = "fill" => ss[f.seg].cursor = At("entries", f.tab)
    /\ p \in {"seek", "data"} => f.entry = "full"
    /\ p = "data" => ss[f.seg].cursor = At("chunk", f.at \div ChunkSectors)

\* What holds of a call while it runs.
Calling(c) ==
    pc[c] # "idle" =>
      /\ result[c] = NoOutcome
      /\ pc[c] = "asked" => frame[c].call = "Segment"
      /\ pc[c] # "asked" => frame[c].call \in {"ReadAt", "Read"}
      /\ frame[c].alone => \A d \in Clients : d # c => pc[d] = "idle"

Opened ==
    /\ opened = "yes" => /\ Len(segs) > 0 /\ segs[1].decoded
                         /\ \A c, d \in Clients : c # d => Len(segs) = 1
    /\ opened # "yes" => \A c \in Clients : result[c] = NoOutcome

Goes(c) == pc[c] # "idle" /\ frame[c].alone => Progress(pc[c], frame[c], segs)

WentRight(c) == pc[c] = "idle" /\ frame[c].alone => IsRight(c)

More(counted) ==
    /\ Opened
    /\ \A c \in Clients : Calling(c)
    /\ \A i \in 1..Len(segs) : Kept(segs[i], counted)
    /\ Sane => \A c \in Clients : Goes(c)
    /\ Pristine => \A c \in Clients : WentRight(c)

(***************************************************************************)
(* What a step of c does to the segments.                                  *)
(***************************************************************************)
\* Only a call that is about to read entries changes the state of some.
EntriesKept(c) ==
    \A i \in 1..Len(segs) : \A t \in 1..Len(segs[i].tables) :
      \/ segs'[i].tables[t].entries = segs[i].tables[t].entries
      \/ ~segs[i].decoded
      \/ pc[c] \in {"alloc", "fill"} /\ frame[c].seg = i /\ frame[c].tab = t

\* A call that comes to entries it has to read finds them not read.
Comes(c) ==
    pc'[c] \in {"alloc", "fill"} =>
      \/ pc[c] \in {"alloc", "fill"} /\ frame'[c].seg = frame[c].seg /\ frame'[c].tab = frame[c].tab
      \/ segs[frame'[c].seg].tables[frame'[c].tab].entries = "none"

SegsKept(c, counted) ==
    /\ SegsStep /\ EntriesKept(c) /\ opened' = opened
    /\ \A i \in 1..Len(segs') : Kept(segs'[i], counted)

\* The other calls are where they were.
OthersStay(c) == \A d \in Clients : d # c => pc'[d] = pc[d] /\ frame'[d] = frame[d]

LEMMA SegsSame ==
    ASSUME NEW counted, Inv(counted), More(counted), NEW c, segs' = segs, opened' = opened
    PROVE  SegsKept(c, counted)
  BY Unchanged DEF SegsKept, More, EntriesKept

\* A segment that is good was good before, if it was decoded.
LEMMA GoodBefore ==
    ASSUME NEW s, NEW t, SegmentOK(s), SegmentOK(t), Later(s, t), s.decoded, GoodSegment(t)
    PROVE  GoodSegment(s)
  <1>1. /\ t.file = s.file /\ t.sectorOffset = s.sectorOffset /\ t.sectorCount = s.sectorCount
        /\ t.tableOffsets = s.tableOffsets /\ Len(t.tables) = Len(s.tables)
        /\ \A j \in DOMAIN s.tables : SameTable(s.tables[j], t.tables[j])
    BY DEF Later
  <1>2. DOMAIN s.tables = 1..Len(s.tables)
    BY SegmentFields, LenProperties DEF SegmentOK
  <1>3. TablesUpTo(t, Len(Files[s.file]))
    BY <1>1 DEF GoodSegment
  <1>4. TablesUpTo(s, Len(Files[s.file]))
    <2> DEFINE k == Len(Files[s.file])
    <2> HIDE DEF k
    <2>1. Len(s.tables) = k
      BY <1>1, <1>3 DEF TablesUpTo, k
    <2>2. ASSUME NEW j \in 1..k
          PROVE  SameTable(NewTable(s.file, j, Start(s.file, j)), s.tables[j])
      <3>1. SameTable(NewTable(s.file, j, Start(s.file, j)), t.tables[j])
        BY <1>1, <1>3 DEF TablesUpTo, k
      <3>2. SameTable(s.tables[j], t.tables[j])
        BY <1>1, <1>2, <2>1
      <3> QED
        BY <3>1, <3>2 DEF SameTable
    <2> QED
      BY <1>1, <1>3, <2>1, <2>2 DEF TablesUpTo, k
  <1> QED
    BY <1>1, <1>4 DEF GoodSegment

LEMMA SaneBefore ==
    ASSUME NEW counted, Inv(counted), NEW c \in Clients,
           SegsKept(c, counted), Comes(c), OthersStay(c), Sane'
    PROVE  Sane
  <1>1. /\ Len(segs') = Len(segs) /\ \A i \in 1..Len(segs) : Later(segs[i], segs'[i])
        /\ \A i \in 1..Len(segs) : SegmentOK(segs[i]) /\ SegmentOK(segs'[i])
    BY DEF SegsKept, SegsStep, Stays, Inv, SegsOK
  <1>2. ASSUME NEW i \in 1..Len(segs)
        PROVE  segs[i].file = i
    BY <1>1 DEF Sane, Later
  <1>3. ASSUME NEW i \in 1..Len(segs), segs[i].decoded
        PROVE  GoodSegment(segs[i])
    <2>1. segs'[i].decoded /\ Later(segs[i], segs'[i])
      BY <1>1, <1>3 DEF Later
    <2>2. GoodSegment(segs'[i])
      BY <1>1, <2>1 DEF Sane, GoodSegment
    <2> QED
      BY <1>1, <1>3, <2>1, <2>2, GoodBefore
  <1>4. ASSUME NEW i \in 1..Len(segs), segs[i].decoded, NEW t \in 1..Len(segs[i].tables)
        PROVE  Filled(i, t)
    <2>1. segs'[i].decoded /\ Len(segs'[i].tables) = Len(segs[i].tables)
      BY <1>1, <1>4 DEF Later
    <2>2. Filled(i, t)'
      BY <1>1, <2>1 DEF Sane
    <2>3. CASE pc[c] \in {"alloc", "fill"} /\ frame[c].seg = i /\ frame[c].tab = t
      BY <2>3 DEF Filled
    <2>4. CASE /\ segs'[i].tables[t].entries = segs[i].tables[t].entries
               /\ ~(pc[c] \in {"alloc", "fill"} /\ frame[c].seg = i /\ frame[c].tab = t)
      <3>1. CASE segs'[i].tables[t].entries \in {"none", "full"}
        BY <2>4, <3>1 DEF Filled
      <3>2. ASSUME NEW d \in Clients, pc'[d] \in {"alloc", "fill"}, frame'[d].seg = i,
                   frame'[d].tab = t
            PROVE  Filled(i, t)
        <4>1. CASE d # c
          BY <3>2, <4>1 DEF OthersStay, Filled
        <4>2. CASE d = c
          BY <2>4, <3>2, <4>2 DEF Comes, Filled
        <4> QED
          BY <4>1, <4>2
      <3> QED
        BY <2>2, <3>1, <3>2 DEF Filled
    <2> QED
      BY <1>4, <2>3, <2>4 DEF SegsKept, EntriesKept
  <1> QED
    BY <1>1, <1>2, <1>3, <1>4 DEF Sane, SegsKept

(***************************************************************************)
(* The end and the steps of a call: what it has to show is about itself.   *)
(***************************************************************************)
ResultsStay(c) == \A d \in Clients : d # c => result'[d] = result[d]

\* What a step of a call has to show: nothing of the other calls.
LEMMA StepMore ==
    ASSUME NEW counted, Inv(counted), More(counted), NEW c \in Clients, pc[c] # "idle",
           SegsKept(c, counted), Comes(c), OthersStay(c), ResultsStay(c),
           Calling(c)', Sane' => Goes(c)', Pristine' => WentRight(c)'
    PROVE  More(counted)'
  <1>1. opened = "yes" /\ opened' = "yes"
    BY DEF Inv, SegsKept
  <1>2. Len(segs) > 0 /\ segs[1].decoded /\ \A d, e \in Clients : d # e => Len(segs) = 1
    BY <1>1 DEF More, Opened
  <1>3. Len(segs') = Len(segs) /\ segs'[1].decoded
    <2>1. Len(segs) \in Nat /\ 1 \in 1..Len(segs)
      BY <1>2, LenProperties DEF Inv, SegsOK
    <2> QED
      BY <1>2, <2>1 DEF SegsKept, SegsStep, Stays, Later
  <1>4. Opened'
    BY <1>1, <1>2, <1>3 DEF Opened
  <1>5. ASSUME NEW d \in Clients, d # c
        PROVE  ~(pc[d] # "idle" /\ frame[d].alone)
    BY <1>5 DEF More, Calling
  <1>6. \A d \in Clients : Calling(d)'
    <2> TAKE d \in Clients
    <2>1. CASE d # c
      BY <1>5, <2>1 DEF More, Calling, OthersStay, ResultsStay
    <2> QED
      BY <2>1
  <1>7. ASSUME Sane', NEW d \in Clients
        PROVE  Goes(d)'
    BY <1>5, <1>7 DEF Goes, OthersStay
  <1>8. ASSUME Pristine', NEW d \in Clients
        PROVE  WentRight(d)'
    <2>1. CASE d = c
      BY <1>8, <2>1
    <2>2. CASE d # c
      <3>1. Sane
        BY <1>8, SaneBefore DEF Pristine
      <3>2. \A i \in 1..Len(segs) : segs[i].decoded
        BY <1>2, <2>2
      <3>3. WentRight(d)
        BY <3>1, <3>2 DEF Pristine, More
      <3> QED
        BY <2>2, <3>3 DEF WentRight, IsRight, OthersStay, ResultsStay
    <2> QED
      BY <2>1, <2>2
  <1>9. \A i \in 1..Len(segs') : Kept(segs'[i], counted)
    BY DEF SegsKept
  <1> QED
    BY <1>4, <1>6, <1>7, <1>8, <1>9 DEF More

\* A step that stays in the call.
LEMMA GotoMore ==
    ASSUME NEW counted, Inv(counted), More(counted), NEW c \in Clients, pc[c] # "idle",
           SegsKept(c, counted), NEW place, NEW f, Goto(c, place, f),
           place \notin {"idle", "asked"}, frame[c].call \in {"ReadAt", "Read"},
           f.alone = frame[c].alone, f.call = frame[c].call,
           place \in {"alloc", "fill"} =>
             \/ pc[c] \in {"alloc", "fill"} /\ f.seg = frame[c].seg /\ f.tab = frame[c].tab
             \/ segs[f.seg].tables[f.tab].entries = "none",
           Sane /\ Sane' /\ frame[c].alone /\ Progress(pc[c], frame[c], segs) =>
             Progress(place, f, segs')
    PROVE  More(counted)'
  <1>1. /\ pc' = [pc EXCEPT ![c] = place] /\ frame' = [frame EXCEPT ![c] = f]
        /\ result' = result
    BY DEF Goto
  <1>2. pc \in [Clients -> Places] /\ frame \in [Clients -> Frames]
    BY DEF Inv
  <1>3. pc'[c] = place /\ frame'[c] = f /\ result'[c] = result[c]
    BY <1>1, <1>2
  <1>4. OthersStay(c) /\ ResultsStay(c)
    BY <1>1, <1>2 DEF OthersStay, ResultsStay
  <1>5. Comes(c)
    BY <1>3 DEF Comes
  <1>6. Calling(c)'
    BY <1>3, <1>4 DEF Calling, More, OthersStay
  <1>7. ASSUME Sane'
        PROVE  Goes(c)'
    <2>1. Sane
      BY <1>4, <1>5, <1>7, SaneBefore
    <2>2. frame[c].alone => Progress(pc[c], frame[c], segs)
      BY <2>1 DEF More, Goes
    <2> QED
      BY <1>3, <1>7, <2>1, <2>2 DEF Goes
  <1>8. WentRight(c)'
    BY <1>3 DEF WentRight
  <1> QED
    BY <1>4, <1>5, <1>6, <1>7, <1>8, StepMore

\* What a call that ends may return.
EndsRight(f, data, err, hit) ==
    \/ Outcome(f.off, f.len, data, err) = ReadAt(ImageSectors, f.off, f.len)
    \/ hit /\ data = <<>> /\ err \in FaultErrors

LEMMA EndMore ==
    ASSUME NEW counted, Inv(counted), More(counted), NEW c \in Clients, pc[c] # "idle",
           SegsKept(c, counted), NEW data, NEW err, NEW hit, End(c, data, err, hit),
           Sane /\ Pristine' /\ frame[c].alone /\ Progress(pc[c], frame[c], segs)
             /\ frame[c].call # "Segment" =>
             EndsRight(frame[c], data, err, hit)
    PROVE  More(counted)'
  <1>1. /\ pc' = [pc EXCEPT ![c] = "idle"]
        /\ frame' = [frame EXCEPT ![c] = [NoCall EXCEPT !.alone = frame[c].alone, !.hit = hit]]
        /\ result' = IF frame[c].call = "Segment" THEN result
                     ELSE [result EXCEPT ![c] = Outcome(frame[c].off, frame[c].len, data, err)]
    BY DEF End
  <1>2. /\ pc \in [Clients -> Places] /\ frame \in [Clients -> Frames]
        /\ result \in [Clients -> Results]
    BY DEF Inv
  <1>3. /\ pc'[c] = "idle" /\ frame'[c].alone = frame[c].alone /\ frame'[c].hit = hit
        /\ frame[c].call = "Segment" => result'[c] = result[c]
        /\ frame[c].call # "Segment" => result'[c] = Outcome(frame[c].off, frame[c].len, data, err)
    BY <1>1, <1>2 DEF NoCall
  <1>4. OthersStay(c) /\ ResultsStay(c)
    BY <1>1, <1>2 DEF OthersStay, ResultsStay
  <1>5. Comes(c) /\ Calling(c)' /\ Goes(c)'
    BY <1>3 DEF Comes, Calling, Goes
  <1>6. ASSUME Pristine'
        PROVE  WentRight(c)'
    <2>1. Sane
      BY <1>4, <1>5, <1>6, SaneBefore DEF Pristine
    <2>2. frame[c].alone => Progress(pc[c], frame[c], segs)
      BY <2>1 DEF More, Goes
    <2>3. CASE frame[c].call = "Segment"
      <3>1. result'[c] = NoOutcome
        BY <1>3, <2>3 DEF More, Calling
      <3> QED
        BY <3>1 DEF WentRight, IsRight
    <2>4. CASE frame[c].call # "Segment" /\ frame[c].alone
      <3>1. EndsRight(frame[c], data, err, hit)
        BY <1>6, <2>1, <2>2, <2>4
      <3> DEFINE r == Outcome(frame[c].off, frame[c].len, data, err)
      <3>2. r.off = frame[c].off /\ r.len = frame[c].len /\ r.data = data /\ r.err = err
        BY DEF Outcome
      <3>3. result'[c] = r
        BY <1>3, <2>4
      <3> HIDE DEF r
      <3>4. \/ r = ReadAt(ImageSectors, frame[c].off, frame[c].len)
            \/ hit /\ data = <<>> /\ err \in FaultErrors
        BY <3>1 DEF EndsRight, r
      <3> QED
        BY <1>3, <3>2, <3>3, <3>4 DEF WentRight, IsRight
    <2> QED
      BY <1>3, <2>3, <2>4 DEF WentRight
  <1> QED
    BY <1>4, <1>5, <1>6, StepMore

(***************************************************************************)
(* The bytes of the image, and what ReadAt makes of them.                  *)
(***************************************************************************)
LEMMA BytesFromIs ==
    ASSUME NEW off \in Nat, NEW n \in Nat
    PROVE  /\ BytesFrom(off, n) \in Seq(Nat) /\ Len(BytesFrom(off, n)) = n
           /\ \A i \in 1..n : BytesFrom(off, n)[i] = off + i - 1
           /\ BytesFrom(off, n) = <<>> <=> n = 0
  BY NumbersAre DEF BytesFrom, Numbers

LEMMA BytesFromConcat ==
    ASSUME NEW off \in Nat, NEW a \in Nat, NEW b \in Nat
    PROVE  BytesFrom(off, a) \o BytesFrom(off + a, b) = BytesFrom(off, a + b)
  BY NumbersConcat DEF BytesFrom, Numbers

LEMMA BytesFromPart ==
    ASSUME NEW off \in Nat, NEW n \in Nat, NEW i \in Nat, NEW k \in Nat, k # 0 => i + k <= n
    PROVE  SubSeq(BytesFrom(off, n), i + 1, i + k) = BytesFrom(off + i, k)
  <1> DEFINE s == BytesFrom(off, n)
             t == BytesFrom(off + i, k)
             u == SubSeq(BytesFrom(off, n), i + 1, i + k)
  <1>1. s \in Seq(Nat) /\ Len(s) = n /\ \A j \in 1..n : s[j] = off + j - 1
    BY BytesFromIs
  <1>2. t \in Seq(Nat) /\ Len(t) = k /\ \A j \in 1..k : t[j] = off + i + j - 1
    <2>1. off + i \in Nat
      OBVIOUS
    <2> QED
      BY <2>1, BytesFromIs
  <1>3. u \in Seq(Nat) /\ Len(u) = k /\ \A j \in 1..k : u[j] = s[i + j]
    <2> HIDE DEF s
    <2> QED
      BY <1>1, PartOfSeq DEF s
  <1> HIDE DEF s, t, u
  <1>4. ASSUME NEW j \in 1..k
        PROVE  u[j] = t[j]
    <2>1. i + j \in 1..n
      OBVIOUS
    <2>2. s[i + j] = off + (i + j) - 1
      BY <1>1, <2>1
    <2> QED
      BY <1>2, <1>3, <2>2
  <1>5. u = t
    BY <1>2, <1>3, <1>4, SeqEqual
  <1> QED
    BY <1>5 DEF u, t

LEMMA OffsetIs ==
    ASSUME NEW f \in Frames
    PROVE  /\ First(f) \in Nat /\ (f.off % SectorSize) \in Nat
           /\ First(f) * SectorSize \in Nat
           /\ f.off = (First(f) * SectorSize) + (f.off % SectorSize)
  <1>1. SectorSize \in Nat \ {0} /\ f.off \in Nat
    BY ReadAtAssumption, FrameFields
  <1>2. PICK q \in Nat : q = First(f)
    BY <1>1, Quotient DEF First
  <1>3. f.off = (SectorSize * q) + (f.off % SectorSize) /\ (f.off % SectorSize) \in Nat
    BY <1>1, <1>2, Quotient DEF First
  <1>4. SectorSize * q = q * SectorSize /\ q * SectorSize \in Nat
    BY <1>1
  <1> QED
    BY <1>2, <1>3, <1>4

LEMMA CopyLengthIs ==
    ASSUME NEW n \in Nat, NEW len \in Nat
    PROVE  CopyLength(n, len) \in Nat /\ CopyLength(n, len) <= n
  <1>1. Width \in Nat \ {0}
    BY ReadAtAssumption
  <1>2. PICK x \in Nat : x = (n % Width) /\ x <= n
    BY <1>1, Remainder
  <1>3. PICK y \in Nat : y = (len % Width)
    BY <1>1, Remainder
  <1>4. CopyLength(n, len) = IF x < y THEN x ELSE y
    BY <1>2, <1>3 DEF CopyLength, Lesser
  <1> QED
    BY <1>2, <1>4

LEMMA SectorsAskedType ==
    ASSUME NEW off \in Nat, NEW len \in Nat
    PROVE  SectorsAsked(off, len) \in Int
  <1>1. CeilDiv(len, SectorSize) \in Int
    BY ReadAtAssumption DEF CeilDiv
  <1>2. CeilDiv((off % SectorSize) + len, SectorSize) \in Int
    BY ReadAtAssumption DEF CeilDiv
  <1>3. CeilDiv(0 + len, SectorSize) = CeilDiv(len, SectorSize)
    <2>1. 0 + len = len
      OBVIOUS
    <2> QED
      BY <2>1
  <1> QED
    BY <1>1, <1>2, <1>3 DEF SectorsAsked

\* The end of ReadAt, with the bytes of all sectors of the image it asked for.
LEMMA FinishMore ==
    ASSUME NEW counted, Inv(counted), More(counted), NEW c \in Clients, pc[c] = "segment",
           SegsKept(c, counted), NEW err, Finish(c, err),
           frame[c].count = 0 => err = "nil",
           frame[c].count # 0 => err = "EOF",
           Sane /\ frame[c].count # 0 /\ frame[c].alone /\ AtSegment(frame[c])
             => frame[c].sector = ImageSectors
    PROVE  More(counted)'
  <1> DEFINE f == frame[c]
             inside == f.off % SectorSize
             n == IF inside >= Len(f.buf) THEN 0 ELSE CopyLength(Len(f.buf) - inside, f.len)
             data == SubSeq(f.buf, inside + 1, inside + n)
             why == IF n = 0 THEN err ELSE "nil"
  <1>1. End(c, data, why, FALSE)
    BY DEF Finish, Return
  <1>2. ASSUME Sane, f.alone, Progress(pc[c], f, segs)
        PROVE  EndsRight(f, data, why, FALSE)
    <2>1. f \in Frames
      BY DEF Inv
    <2>2. AtSegment(f)
      BY <1>2 DEF Progress
    <2>3. PICK o \in Nat : o = First(f)
      BY <2>1, OffsetIs
    <2>4. PICK i \in Nat : i = inside /\ f.off = (o * SectorSize) + i
      BY <2>1, <2>3, OffsetIs
    <2>5. PICK x \in Nat : x = f.sector /\ o <= x
      BY <2>1, <2>2, <2>3, FrameFields DEF AtSegment
    <2>6. PICK k \in Nat : k = f.count
      BY <2>1, FrameFields
    <2>7. PICK A : A = SectorsAsked(f.off, f.len)
      OBVIOUS
    <2>8. ImageSectors \in Nat
      <3>1. PICK m \in Nat : Len(Files) = m
        BY FilesType, LenProperties
      <3> QED
        BY <3>1, LaidOut DEF IsLaidOut
    <2>9. PICK S \in Nat : S = ImageSectors
      BY <2>8
    <2>10. o < S /\ k = A - (x - o) /\ x <= S
      BY <2>2, <2>3, <2>5, <2>6, <2>7, <2>9 DEF AtSegment, Going
    <2>11. k # 0 => x = S
      BY <1>2, <2>2, <2>5, <2>6, <2>9
    <2>12. A \in Int
      BY <2>1, <2>7, FrameFields, SectorsAskedType
    <2>13. Lesser(A, S - o) = x - o
      BY <2>5, <2>10, <2>11, <2>12 DEF Lesser
    <2>14. PICK b \in Nat : b = (x - o) * SectorSize
      <3>1. x - o \in Nat
        BY <2>5
      <3> QED
        BY <3>1, Product, ReadAtAssumption
    <2>15. f.buf = BytesFrom(o * SectorSize, b) /\ o * SectorSize \in Nat
      BY <2>1, <2>2, <2>3, <2>5, <2>14, OffsetIs DEF AtSegment, HasBytes
    <2>16. Len(f.buf) = b
      BY <2>15, BytesFromIs
    <2>17. PICK l \in Nat : l = f.len
      BY <2>1, FrameFields
    <2>18. PICK m : m = IF i >= b THEN 0 ELSE CopyLength(b - i, l)
      OBVIOUS
    <2>19. n = m
      BY <2>4, <2>16, <2>17, <2>18
    <2>20. m \in Nat /\ (m # 0 => i + m <= b)
      <3>1. CASE i >= b
        BY <2>18, <3>1
      <3>2. CASE i < b
        <4>1. b - i \in Nat
          BY <3>2
        <4>2. CopyLength(b - i, l) \in Nat /\ CopyLength(b - i, l) <= b - i
          BY <4>1, CopyLengthIs, Zenon
        <4> QED
          BY <2>18, <3>2, <4>2
      <3> QED
        BY <3>1, <3>2
    <2>21. data = BytesFrom(f.off, m)
      <3>1. data = SubSeq(BytesFrom(o * SectorSize, b), i + 1, i + m)
        BY <2>4, <2>15, <2>19
      <3>2. SubSeq(BytesFrom(o * SectorSize, b), i + 1, i + m) = BytesFrom((o * SectorSize) + i, m)
        BY <2>15, <2>20, BytesFromPart
      <3> QED
        BY <2>4, <3>1, <3>2, Zenon
    <2>22. why = IF m = 0 /\ A > S - o THEN "EOF" ELSE "nil"
      <3>1. k = 0 <=> ~(A > S - o)
        BY <2>5, <2>10, <2>11, <2>12
      <3>2. err = IF k = 0 THEN "nil" ELSE "EOF"
        BY <2>6
      <3> QED
        BY <2>19, <3>1, <3>2
    <2>23. ReadAt(S, f.off, f.len) = Outcome(f.off, f.len, BytesFrom(f.off, m),
                                             IF m = 0 /\ A > S - o THEN "EOF" ELSE "nil")
      <3>1. ~(o >= S)
        BY <2>10
      <3> HIDE DEF f
      <3> QED
        BY <2>3, <2>4, <2>7, <2>13, <2>14, <2>17, <2>18, <3>1 DEF ReadAt, First, inside
    <2> HIDE DEF f, data, why
    <2> QED
      BY <2>9, <2>21, <2>22, <2>23 DEF EndsRight
  <1> HIDE DEF data, why
  <1> QED
    BY <1>1, <1>2, EndMore

(***************************************************************************)
(* The image, its files and its tables, as a sane reader has them.         *)
(***************************************************************************)
\* A decoded segment of sane segments.
LEMMA OfGood ==
    ASSUME NEW counted, Inv(counted), Sane, NEW i \in 1..Len(segs), segs[i].decoded
    PROVE  /\ segs[i].sectorOffset = Begins(i) /\ segs[i].sectorCount = SectorsIn(i)
           /\ segs[i].file = i /\ i \in DOMAIN Files /\ SegmentOK(segs[i])
           /\ Len(segs[i].tables) = Len(Files[i]) /\ TablesUpTo(segs[i], Len(Files[i]))
           /\ \A t \in 1..Len(segs[i].tables) : IsGoodTable(segs[i].tables[t], i, t)
  <1>1. segs[i].file = i /\ GoodSegment(segs[i])
    BY DEF Sane
  <1>2. SegmentOK(segs[i]) /\ i \in DOMAIN Files
    BY <1>1, SegmentFields DEF Inv, SegsOK, SegmentOK
  <1>3. Len(segs[i].tables) = Len(Files[i]) /\ TablesUpTo(segs[i], Len(Files[i]))
    BY <1>1 DEF GoodSegment, TablesUpTo
  <1>4. \A t \in 1..Len(segs[i].tables) : IsGoodTable(segs[i].tables[t], i, t)
    BY <1>1, <1>3, GoodTable
  <1> QED
    BY <1>1, <1>2, <1>3, <1>4 DEF GoodSegment

LEMMA ImageType ==
    \E n \in Nat : Len(Files) = n /\ DOMAIN Files = 1..n /\ IsLaidOut(n) /\ ImageSectors \in Nat
  <1>1. PICK n \in Nat : Len(Files) = n /\ DOMAIN Files = 1..n
    BY FilesType, LenProperties
  <1>2. IsLaidOut(n)
    BY <1>1, LaidOut
  <1> QED
    BY <1>1, <1>2 DEF IsLaidOut

LEMMA SegmentAskedMore ==
    ASSUME NEW counted, Inv(counted), More(counted), NEW c \in Clients, SegmentAsked(c)
    PROVE  More(counted)'
  <1>1. pc[c] = "asked" /\ End(c, <<>>, "nil", FALSE) /\ segs' = segs /\ opened' = opened
    BY DEF SegmentAsked, Return, Quiet
  <1>2. frame[c].call = "Segment"
    BY <1>1 DEF More, Calling
  <1>3. SegsKept(c, counted)
    BY <1>1, SegsSame
  <1> QED
    BY <1>1, <1>2, <1>3, EndMore

LEMMA FindMore ==
    ASSUME NEW counted, Inv(counted), More(counted), NEW c \in Clients, Find(c)
    PROVE  More(counted)'
  <1> DEFINE f == frame[c]
  <1>1. pc[c] = "find" /\ segs' = segs /\ opened' = opened
    BY DEF Find, Quiet
  <1>2. SegsKept(c, counted) /\ f.call \in {"ReadAt", "Read"} /\ f \in Frames
    BY <1>1, SegsSame DEF More, Calling, Inv
  <1>3. PICK n \in Nat : Len(Files) = n /\ IsLaidOut(n) /\ ImageSectors \in Nat
    BY ImageType
  <1>4. PICK i \in Nat, x \in Nat : f.seg = i /\ f.sector = x
    BY <1>2, FrameFields
  <1>5. First(f) \in Nat
    BY <1>2, OffsetIs
  <1>6. ASSUME Sane, f.alone, Progress(pc[c], f, segs)
        PROVE  AtFind(f) /\ Len(segs) = n /\ i \in 1..(n + 1) /\ x = First(f) /\ x >= Begins(i)
    BY <1>1, <1>3, <1>4, <1>6 DEF Progress, AtFind, Sane
  <1>7. CASE i > Len(segs) /\ Return(c, <<>>, "range")
    <2>1. ASSUME Sane, f.alone, Progress(pc[c], f, segs)
          PROVE  EndsRight(f, <<>>, "range", FALSE)
      <3>1. i = n + 1 /\ x >= Begins(n + 1)
        BY <1>6, <1>7, <2>1
      <3>2. First(f) >= ImageSectors
        BY <1>3, <1>6, <2>1, <3>1 DEF IsLaidOut
      <3>3. ReadAt(ImageSectors, f.off, f.len) = Outcome(f.off, f.len, <<>>, "range")
        BY <3>2 DEF ReadAt, First
      <3> HIDE DEF f
      <3> QED
        BY <3>3 DEF EndsRight
    <2>2. End(c, <<>>, "range", FALSE)
      BY <1>7 DEF Return
    <2> QED
      BY <1>1, <1>2, <2>1, <2>2, EndMore
  <1>8. CASE /\ i <= Len(segs) /\ segs[i].decoded
             /\ x >= segs[i].sectorOffset + segs[i].sectorCount
             /\ Goto(c, "find", [f EXCEPT !.seg = @ + 1])
    <2> DEFINE g == [f EXCEPT !.seg = @ + 1]
    <2>1. /\ g.seg = i + 1 /\ g.sector = f.sector /\ g.count = f.count /\ g.buf = f.buf
          /\ g.rest = f.rest /\ g.off = f.off /\ g.len = f.len
          /\ g.alone = f.alone /\ g.call = f.call
      BY <1>2, <1>4 DEF Frames
    <2>2. Goto(c, "find", g)
      BY <1>8
    <2> HIDE DEF g
    <2>3. ASSUME Sane, f.alone, Progress(pc[c], f, segs)
          PROVE  Progress("find", g, segs')
      <3>1. i \in 1..n /\ i \in 1..Len(segs)
        BY <1>6, <1>8, <2>3
      <3>2. segs[i].sectorOffset = Begins(i) /\ segs[i].sectorCount = SectorsIn(i)
        BY <1>8, <2>3, <3>1, OfGood
      <3>3. Begins(i + 1) = Begins(i) + SectorsIn(i)
        BY <1>3, <3>1 DEF IsLaidOut
      <3>4. First(g) = First(f)
        BY <2>1 DEF First
      <3>5. AtFind(g)
        BY <1>3, <1>4, <1>6, <1>8, <2>1, <2>3, <3>1, <3>2, <3>3, <3>4 DEF AtFind
      <3> QED
        BY <3>5 DEF Progress, InTable, AtEntry
    <2> HIDE DEF f
    <2> QED
      BY <1>1, <1>2, <2>1, <2>2, <2>3, GotoMore DEF f
  <1>9. CASE /\ i <= Len(segs) /\ segs[i].decoded
             /\ ~(x >= segs[i].sectorOffset + segs[i].sectorCount)
             /\ Goto(c, "segment", f)
    <2>1. ASSUME Sane, f.alone, Progress(pc[c], f, segs)
          PROVE  Progress("segment", f, segs')
      <3>1. i \in 1..n /\ i \in 1..Len(segs)
        BY <1>6, <1>9, <2>1
      <3>2. segs[i].sectorOffset = Begins(i) /\ segs[i].sectorCount = SectorsIn(i)
        BY <1>9, <2>1, <3>1, OfGood
      <3>3. /\ Begins(i + 1) = Begins(i) + SectorsIn(i) /\ Begins(i + 1) <= Begins(n + 1)
            /\ Begins(i) \in Nat /\ SectorsIn(i) \in Nat /\ ImageSectors = Begins(n + 1)
        <4>1. i \in 1..(n + 1) /\ i + 1 \in 1..(n + 1) /\ n + 1 \in (i + 1)..(n + 1)
          BY <3>1
        <4> QED
          BY <1>3, <3>1, <4>1 DEF IsLaidOut
      <3>4. x < Begins(i + 1) /\ x < ImageSectors
        BY <1>3, <1>9, <3>2, <3>3
      <3>5. HasBytes(f, x)
        <4>1. (x - First(f)) * SectorSize = 0
          BY <1>5, <1>6, <2>1, ReadAtAssumption
        <4>2. BytesFrom(First(f) * SectorSize, 0) = <<>>
          BY <1>2, OffsetIs, BytesFromIs
        <4> QED
          BY <1>6, <2>1, <4>1, <4>2 DEF HasBytes, AtFind
      <3>6. SectorsAsked(f.off, f.len) = SectorsAsked(f.off, f.len) - (x - First(f))
        <4>1. f.count \in Nat /\ f.count = SectorsAsked(f.off, f.len)
          BY <1>2, <1>6, <2>1, FrameFields DEF AtFind
        <4> QED
          BY <1>5, <1>6, <2>1, <4>1
      <3>7. Going(f)
        BY <1>4, <1>6, <2>1, <3>4, <3>6 DEF Going, AtFind
      <3>8. AtSegment(f)
        BY <1>3, <1>4, <1>5, <1>6, <2>1, <3>1, <3>4, <3>5, <3>7 DEF AtSegment, AtFind
      <3> QED
        BY <3>8 DEF Progress, InTable, AtEntry
    <2> QED
      BY <1>1, <1>2, <1>9, <2>1, GotoMore
  <1> QED
    BY <1>4, <1>7, <1>8, <1>9 DEF Find

\* Where file i lies in the image.
LiesAt(i, n) ==
    /\ Begins(i) \in Nat /\ SectorsIn(i) \in Nat /\ Begins(i + 1) \in Nat /\ ImageSectors \in Nat
    /\ Begins(i + 1) = Begins(i) + SectorsIn(i) /\ Begins(i + 1) <= ImageSectors
    /\ i = n => Begins(i + 1) = ImageSectors
    /\ SectorsIn(i) = 0 => i = n

LEMMA FileAt ==
    ASSUME NEW i \in DOMAIN Files
    PROVE  \E n \in Nat : Len(Files) = n /\ i \in 1..n /\ LiesAt(i, n)
  <1>1. PICK n \in Nat : Len(Files) = n /\ DOMAIN Files = 1..n /\ IsLaidOut(n) /\ ImageSectors \in Nat
    BY ImageType
  <1>2. PICK m \in Nat : Len(Files[i]) = m
    BY FilesType, LenProperties
  <1>3. SectorsIn(i) = 0 => i = n
    BY <1>1, <1>2, TablesLaidOut DEF HasTables
  <1>4. i \in 1..n /\ i \in 1..(n + 1) /\ i + 1 \in 1..(n + 1) /\ n + 1 \in (i + 1)..(n + 1)
    BY <1>1
  <1> QED
    BY <1>1, <1>3, <1>4 DEF IsLaidOut, LiesAt

\* A read enters a segment at a sector of it.
LEMMA EntersSegment ==
    ASSUME NEW f \in Frames, NEW n \in Nat, NEW k \in Nat, NEW tab \in Nat,
           NEW g \in Frames, f.seg \in 1..n, LiesAt(f.seg, n), n = Len(Files),
           AtSegment(f), f.count > 0, f.sector >= Begins(f.seg),
           k > 0, k <= f.count, k <= SectorsIn(f.seg) - (f.sector - Begins(f.seg)),
           k = f.count \/ k = SectorsIn(f.seg) - (f.sector - Begins(f.seg)),
           g.off = f.off, g.len = f.len, g.buf = f.buf, g.seg = f.seg, g.rest = f.rest,
           g.at = f.sector - Begins(f.seg), g.left = k, g.tab = tab,
           g.sector = f.sector + k, g.count = f.count - k,
           IsIn(g.at, f.seg, tab)
    PROVE  InSegment(g) /\ AtTable(g)
  <1>1. PICK i, x \in Nat, o \in Nat, cnt \in Nat, at \in Nat :
          i = f.seg /\ x = f.sector /\ o = First(f) /\ cnt = f.count /\ at = g.at
    BY OffsetIs, FrameFields
  <1>2. First(g) = First(f)
    BY DEF First
  <1>3. PICK b \in Nat, w \in Nat, A \in Int :
          b = Begins(i) /\ w = SectorsIn(i) /\ A = SectorsAsked(f.off, f.len)
    <2>1. SectorsAsked(f.off, f.len) \in Int
      BY FrameFields, SectorsAskedType
    <2> QED
      BY <1>1, <2>1 DEF LiesAt
  <1>4. at = x - b /\ x = b + at
    <2>1. g.at = x - b
      BY <1>1, <1>3
    <2> QED
      BY <1>1, <2>1
  <1>5. cnt = A - (x - o) /\ o < ImageSectors /\ o <= x /\ f.rest = 0
    BY <1>1, <1>3 DEF AtSegment, Going
  <1>6. cnt - k = A - ((x + k) - o)
    BY <1>1, <1>5
  <1>7. Going(g)
    BY <1>1, <1>2, <1>3, <1>5, <1>6 DEF Going
  <1>8. HasBytes(g, b + at)
    BY <1>1, <1>2, <1>4 DEF HasBytes, AtSegment
  <1>9. g.count > 0 => g.sector = Begins(i + 1)
    <2>1. Begins(i + 1) = b + w
      BY <1>1, <1>3 DEF LiesAt
    <2>2. g.count = cnt - k /\ g.sector = x + k
      BY <1>1
    <2>3. k = cnt \/ k = w - at
      BY <1>1, <1>3, <1>4
    <2> QED
      BY <1>4, <2>1, <2>2, <2>3
  <1>10. InSegment(g)
    <2>1. g.seg = i /\ g.at = at /\ g.rest = 0 /\ g.left = k /\ g.tab = tab /\ g.sector = x + k
      BY <1>1, <1>5
    <2>2. o <= b + at /\ x + k = b + at + 0 + k
      BY <1>4, <1>5
    <2>3. at + 0 + k <= w
      <3>1. k <= w - (x - b)
        BY <1>1, <1>3
      <3> QED
        BY <1>4, <3>1
    <2>4. Start(i, tab) <= at
      BY <1>1 DEF IsIn
    <2> QED
      BY <1>1, <1>2, <1>3, <1>7, <1>8, <1>9, <2>1, <2>2, <2>3, <2>4 DEF InSegment
  <1> QED
    BY <1>1, <1>5, <1>10 DEF AtTable, IsIn

(***************************************************************************)
(* The loops of a read.                                                    *)
(***************************************************************************)
LEMMA NextSegmentMore ==
    ASSUME NEW counted, Inv(counted), More(counted), NEW c \in Clients, NextSegment(c)
    PROVE  More(counted)'
  <1> DEFINE f == frame[c]
             s == segs[f.seg]
             n == Lesser(s.sectorCount - (f.sector - s.sectorOffset), f.count)
             at == f.sector - s.sectorOffset
             tab == TableOf(s.tableOffsets, at)
             g == [f EXCEPT !.at = at, !.left = n, !.tab = tab,
                            !.sector = @ + n, !.count = @ - n]
  <1>1. pc[c] = "segment" /\ segs' = segs /\ opened' = opened
    BY DEF NextSegment, Quiet
  <1>2. SegsKept(c, counted) /\ f.call \in {"ReadAt", "Read"} /\ f \in Frames
    BY <1>1, SegsSame DEF More, Calling, Inv
  <1>3. f.seg \in 1..(Len(segs) + 1) /\ Len(segs) \in Nat
    BY <1>1, OfCall DEF Fits
  <1>4. PICK x \in Nat, cnt \in Nat : f.sector = x /\ f.count = cnt
    BY <1>2, FrameFields
  <1>5. ASSUME Sane, AtSegment(f), cnt > 0, f.seg <= Len(segs), s.decoded
        PROVE  /\ f.seg \in 1..Len(Files) /\ f.seg \in DOMAIN Files /\ LiesAt(f.seg, Len(Files))
               /\ s.sectorOffset = Begins(f.seg) /\ s.sectorCount = SectorsIn(f.seg)
               /\ x >= Begins(f.seg)
               /\ x = ImageSectors \/ x < Begins(f.seg + 1)
    <2>1. f.seg \in 1..Len(segs) /\ Len(segs) = Len(Files)
      BY <1>3, <1>5 DEF Sane
    <2>2. s.sectorOffset = Begins(f.seg) /\ s.sectorCount = SectorsIn(f.seg) /\ f.seg \in DOMAIN Files
      BY <1>5, <2>1, OfGood
    <2>3. LiesAt(f.seg, Len(Files))
      BY <2>2, FileAt
    <2> QED
      BY <1>4, <1>5, <2>1, <2>2, <2>3 DEF AtSegment
  <1>6. \/ cnt = 0 /\ Finish(c, "nil")
        \/ cnt > 0 /\ f.seg > Len(segs) /\ Finish(c, "EOF")
        \/ cnt > 0 /\ f.seg <= Len(segs) /\ s.decoded /\ n <= 0 /\ Finish(c, "EOF")
        \/ cnt > 0 /\ f.seg <= Len(segs) /\ s.decoded /\ ~(n <= 0) /\ Goto(c, "table", g)
    BY <1>4 DEF NextSegment
  <1>7. CASE cnt = 0 /\ Finish(c, "nil")
    BY <1>1, <1>2, <1>4, <1>7, FinishMore
  <1>8. CASE cnt > 0 /\ f.seg > Len(segs) /\ Finish(c, "EOF")
    <2>1. ASSUME Sane, AtSegment(f)
          PROVE  x = ImageSectors
      <3>1. ~(f.seg <= Len(Files))
        BY <1>3, <1>8, <2>1 DEF Sane
      <3> QED
        BY <1>4, <1>8, <2>1, <3>1 DEF AtSegment
    <2> QED
      BY <1>1, <1>2, <1>4, <1>8, <2>1, FinishMore
  <1>9. CASE cnt > 0 /\ f.seg <= Len(segs) /\ s.decoded /\ n <= 0 /\ Finish(c, "EOF")
    <2>1. ASSUME Sane, AtSegment(f)
          PROVE  x = ImageSectors
      <3>1. PICK b \in Nat, w \in Nat : /\ b = Begins(f.seg) /\ w = SectorsIn(f.seg)
                                        /\ Begins(f.seg + 1) = b + w
        BY <1>5, <1>9, <2>1 DEF LiesAt
      <3>2. n = Lesser(w - (x - b), cnt)
        BY <1>4, <1>5, <1>9, <2>1, <3>1
      <3>3. n = w - (x - b) \/ n = cnt
        BY <3>2 DEF Lesser
      <3> HIDE DEF n
      <3>4. ~(x < b + w)
        BY <1>9, <3>3
      <3> QED
        BY <1>5, <1>9, <2>1, <3>1, <3>4
    <2> HIDE DEF n
    <2> QED
      BY <1>1, <1>2, <1>4, <1>9, <2>1, FinishMore
  <1>10. CASE cnt > 0 /\ f.seg <= Len(segs) /\ s.decoded /\ ~(n <= 0) /\ Goto(c, "table", g)
    <2>1. g.seg = f.seg /\ g.alone = f.alone /\ g.call = f.call
      BY <1>2 DEF Frames
    <2>2. ASSUME Sane, f.alone, Progress(pc[c], f, segs)
          PROVE  Progress("table", g, segs')
      <3>1. AtSegment(f)
        BY <1>1, <2>2 DEF Progress
      <3>2. PICK b \in Nat, w \in Nat : /\ b = Begins(f.seg) /\ w = SectorsIn(f.seg)
                                        /\ Begins(f.seg + 1) = b + w
        BY <1>5, <1>10, <2>2, <3>1 DEF LiesAt
      <3>3. s.sectorOffset = b /\ s.sectorCount = w /\ x >= b
        BY <1>5, <1>10, <2>2, <3>1, <3>2
      <3>4. PICK a \in Nat : a = x - b /\ a = at
        BY <1>4, <3>3
      <3>5. n = Lesser(w - a, cnt)
        BY <1>4, <3>3, <3>4
      <3>6. PICK k \in Nat : k = n /\ k > 0 /\ k <= cnt /\ k <= w - a /\ (k = cnt \/ k = w - a)
        <4>1. n \in Int /\ n <= cnt /\ n <= w - a /\ (n = cnt \/ n = w - a)
          BY <3>5 DEF Lesser
        <4> HIDE DEF n
        <4>2. n > 0
          BY <1>10, <4>1
        <4> QED
          BY <4>1, <4>2
      <3>7. /\ SegmentOK(s) /\ s.file = f.seg /\ TablesUpTo(s, Len(Files[f.seg]))
        <4>1. f.seg \in 1..Len(segs)
          BY <1>3, <1>10
        <4> QED
          BY <1>10, <2>2, <4>1, OfGood
      <3>8. PICK m \in Nat : Len(Files[f.seg]) = m
        <4>1. f.seg \in DOMAIN Files
          BY <1>5, <1>10, <2>2, <3>1
        <4> QED
          BY <4>1, FilesType, LenProperties
      <3>9. a < SectorsIn(f.seg)
        BY <3>2, <3>6
      <3> DEFINE tb == TableOf(s.tableOffsets, a)
      <3>10. tb \in 1..m /\ IsIn(a, f.seg, tb)
        <4> HIDE DEF s, f
        <4> QED
          BY <3>7, <3>8, <3>9, TableOfGood
      <3>11. PICK y \in Nat, d \in Nat : y = x + k /\ d = cnt - k
        BY <3>6
      <3>12. g = [f EXCEPT !.at = a, !.left = k, !.tab = tb, !.sector = y, !.count = d]
        BY <1>4, <3>4, <3>6, <3>11
      <3>13. tb \in Nat
        BY <3>10
      <3> HIDE DEF g, f, s, n, at, tab, tb
      <3>14. /\ g \in Frames /\ g.off = f.off /\ g.len = f.len /\ g.buf = f.buf /\ g.seg = f.seg
             /\ g.rest = f.rest /\ g.at = a /\ g.left = k /\ g.tab = tb /\ g.sector = y
             /\ g.count = d
        BY <1>2, <3>11, <3>12, <3>13 DEF Frames
      <3>15. f.seg \in 1..Len(Files) /\ LiesAt(f.seg, Len(Files)) /\ Len(Files) \in Nat
        BY <1>5, <1>10, <2>2, <3>1, FilesType, LenProperties
      <3>16. PICK N \in Nat : N = Len(Files)
        BY <3>15
      <3>17. /\ f.count > 0 /\ f.sector >= Begins(f.seg) /\ k <= f.count
             /\ k <= SectorsIn(f.seg) - (f.sector - Begins(f.seg))
             /\ k = f.count \/ k = SectorsIn(f.seg) - (f.sector - Begins(f.seg))
             /\ g.at = f.sector - Begins(f.seg) /\ g.sector = f.sector + k
             /\ g.count = f.count - k
        BY <1>4, <1>10, <3>2, <3>3, <3>4, <3>6, <3>11, <3>14
      <3>18. InSegment(g) /\ AtTable(g)
        BY <1>2, <3>1, <3>6, <3>10, <3>13, <3>14, <3>15, <3>16, <3>17, EntersSegment
      <3> QED
        BY <3>18 DEF Progress, InTable, AtEntry
    <2> HIDE DEF g, f
    <2> QED
      BY <1>1, <1>2, <1>10, <2>1, <2>2, GotoMore DEF f
  <1> QED
    BY <1>6, <1>7, <1>8, <1>9, <1>10

\* A read that has all it wants of a segment goes on to the next.
LEMMA LeavesSegment ==
    ASSUME NEW f \in Frames, NEW g \in Frames, NEW n \in Nat, Len(Files) = n,
           f.seg \in 1..n, InSegment(f), f.rest = 0, f.left = 0,
           g.off = f.off, g.len = f.len, g.buf = f.buf, g.seg = f.seg + 1, g.rest = f.rest,
           g.sector = f.sector, g.count = f.count
    PROVE  AtSegment(g)
  <1>1. PICK i \in Nat, x \in Nat, o \in Nat, at \in Nat :
          i = f.seg /\ x = f.sector /\ o = First(f) /\ at = f.at
    BY OffsetIs, FrameFields
  <1>2. i \in 1..n /\ LiesAt(i, n)
    <2>1. i \in DOMAIN Files
      BY <1>1, FilesType, LenProperties
    <2> QED
      BY <2>1, FileAt
  <1>3. PICK b \in Nat, w \in Nat, S \in Nat : b = Begins(i) /\ w = SectorsIn(i) /\ S = ImageSectors
    BY <1>2 DEF LiesAt
  <1>4. First(g) = First(f) /\ Going(g)
    BY DEF First, Going, InSegment
  <1>5. x = b + at /\ o <= x /\ at <= w
    BY <1>1, <1>3 DEF InSegment
  <1>6. x <= S /\ Begins(i + 1) = b + w
    BY <1>2, <1>3, <1>5 DEF LiesAt
  <1>7. HasBytes(g, x)
    BY <1>1, <1>3, <1>4, <1>5 DEF InSegment, HasBytes
  <1>8. ASSUME f.count > 0
        PROVE  /\ x >= Begins(i + 1)
               /\ x = S \/ (i + 1 <= n /\ x < Begins((i + 1) + 1))
    <2>1. x = Begins(i + 1)
      BY <1>1, <1>8 DEF InSegment
    <2>2. CASE i = n
      BY <1>2, <1>3, <1>6, <2>1, <2>2 DEF LiesAt
    <2>3. CASE i # n
      <3>1. i + 1 \in DOMAIN Files /\ i + 1 <= n
        BY <1>2, <2>3, FilesType, LenProperties
      <3>2. LiesAt(i + 1, n)
        BY <3>1, FileAt
      <3>3. PICK v \in Nat : v = SectorsIn(i + 1) /\ Begins((i + 1) + 1) = Begins(i + 1) + v
        BY <3>2 DEF LiesAt
      <3>4. CASE v = 0
        BY <1>3, <1>6, <2>1, <3>2, <3>3, <3>4 DEF LiesAt
      <3>5. CASE v # 0
        BY <1>6, <2>1, <3>1, <3>3, <3>5
      <3> QED
        BY <3>4, <3>5
    <2> QED
      BY <2>2, <2>3
  <1>9. g.seg = i + 1 /\ g.seg \in 1..(n + 1) /\ g.sector = x /\ g.count = f.count
    BY <1>1, <1>2
  <1> QED
    BY <1>1, <1>3, <1>4, <1>5, <1>6, <1>7, <1>8, <1>9 DEF AtSegment

LEMMA AfterTableMore ==
    ASSUME NEW counted, Inv(counted), More(counted), NEW c \in Clients, pc[c] \in InTable,
           AfterTable(c, frame[c]), segs' = segs, opened' = opened,
           Sane /\ frame[c].alone /\ Progress(pc[c], frame[c], segs)
             => pc[c] # "table" /\ frame[c].rest = 0
    PROVE  More(counted)'
  <1> DEFINE f == frame[c]
             n == Len(segs[f.seg].tables)
  <1>1. SegsKept(c, counted) /\ pc[c] # "idle" /\ f.call \in {"ReadAt", "Read"} /\ f \in Frames
    BY SegsSame DEF More, Calling, Inv, InTable
  <1>2. f.seg \in 1..Len(segs) /\ segs[f.seg].decoded /\ f.tab \in 1..n
    BY OfTable
  <1>3. PICK i \in Nat, t \in Nat, l \in Nat, at \in Nat : i = f.seg /\ t = f.tab /\ l = f.left /\ at = f.at
    BY <1>1, FrameFields
  <1>4. n \in Nat
    BY OfTable, SegmentFields, LenProperties DEF SegmentOK
  <1>5. ASSUME Sane, f.alone, Progress(pc[c], f, segs)
        PROVE  /\ InSegment(f) /\ AtChunk(f) /\ f.rest = 0
               /\ HasTables(i, n) /\ i \in 1..Len(Files) /\ Len(Files) \in Nat
    <2>1. InSegment(f) /\ AtChunk(f)
      BY <1>5 DEF Progress, InTable
    <2>2. i \in DOMAIN Files /\ Len(Files[i]) = n
      BY <1>2, <1>3, <1>5, OfGood
    <2>3. HasTables(i, n)
      BY <1>4, <2>2, TablesLaidOut
    <2> QED
      BY <1>5, <2>1, <2>2, <2>3, FilesType, LenProperties
  <1>6. CASE l = 0 \/ t >= n
    <2> DEFINE g == [f EXCEPT !.seg = @ + 1]
    <2>1. Goto(c, "segment", g)
      BY <1>3, <1>6 DEF AfterTable
    <2>2. PICK j \in Nat : j = i + 1
      OBVIOUS
    <2>3. g = [f EXCEPT !.seg = j]
      BY <1>3, <2>2
    <2> HIDE DEF g
    <2>4. /\ g \in Frames /\ g.off = f.off /\ g.len = f.len /\ g.buf = f.buf /\ g.seg = f.seg + 1
          /\ g.rest = f.rest /\ g.sector = f.sector /\ g.count = f.count
          /\ g.alone = f.alone /\ g.call = f.call
      BY <1>1, <1>3, <2>2, <2>3 DEF Frames
    <2>5. ASSUME Sane, f.alone, Progress(pc[c], f, segs)
          PROVE  Progress("segment", g, segs')
      <3>1. l = 0
        <4>1. CASE t >= n
          <5>1. t = n /\ t \in 1..n
            BY <1>2, <1>3, <1>4, <4>1
          <5>2. PICK e \in Nat : e = Ends(i, t) /\ e = SectorsIn(i)
            BY <1>5, <2>5, <5>1 DEF HasTables, Ends
          <5>3. l > 0 => at + 0 = e
            BY <1>3, <1>5, <2>5, <5>2 DEF AtChunk
          <5>4. at + 0 + l <= e
            BY <1>3, <1>5, <2>5, <5>2 DEF InSegment
          <5> QED
            BY <5>3, <5>4
        <4> QED
          BY <1>6, <4>1
      <3>2. PICK N \in Nat : N = Len(Files)
        BY <1>5, <2>5
      <3>3. f.seg \in 1..N
        BY <1>3, <1>5, <2>5, <3>2
      <3>4. AtSegment(g)
        <4> HIDE DEF f
        <4> QED
          BY <1>1, <1>3, <1>5, <2>4, <2>5, <3>1, <3>2, <3>3, LeavesSegment
      <3> QED
        BY <3>4 DEF Progress, InTable, AtEntry
    <2> HIDE DEF f
    <2> QED
      BY <1>1, <2>1, <2>4, <2>5, GotoMore DEF f
  <1>7. CASE ~(l = 0 \/ t >= n)
    <2> DEFINE g == [f EXCEPT !.tab = @ + 1]
    <2>1. Goto(c, "table", g)
      BY <1>3, <1>7 DEF AfterTable
    <2>2. PICK k \in Nat : k = t + 1
      OBVIOUS
    <2>3. g = [f EXCEPT !.tab = k]
      BY <1>3, <2>2
    <2> HIDE DEF g
    <2>4. /\ g \in Frames /\ g.off = f.off /\ g.len = f.len /\ g.buf = f.buf /\ g.seg = f.seg
          /\ g.rest = f.rest /\ g.sector = f.sector /\ g.count = f.count
          /\ g.at = f.at /\ g.left = f.left /\ g.tab = k
          /\ g.alone = f.alone /\ g.call = f.call
      BY <1>1, <1>3, <2>2, <2>3 DEF Frames
    <2>5. ASSUME Sane, f.alone, Progress(pc[c], f, segs)
          PROVE  Progress("table", g, segs')
      <3>1. t \in 1..n /\ k \in 1..n /\ t < n /\ k > 1 /\ l > 0
        BY <1>2, <1>3, <1>4, <1>7, <2>2, SMTT(20)
      <3>2. Start(i, k) = Ends(i, t)
        BY <1>5, <2>2, <2>5, <3>1 DEF HasTables
      <3>3. Start(i, k) \in Nat /\ SectorsOfTable(i, k) \in Nat /\ SectorsOfTable(i, k) > 0
        BY <1>5, <2>5, <3>1 DEF HasTables
      <3>4. at + 0 = Ends(i, t)
        BY <1>3, <1>5, <2>5, <3>1 DEF AtChunk
      <3>5. at = Start(i, k)
        BY <3>2, <3>4
      <3>6. at < Ends(i, k)
        BY <3>3, <3>5 DEF Ends
      <3>7. InSegment(g)
        <4>1. First(g) = First(f)
          BY <2>4 DEF First
        <4>2. Going(g) /\ HasBytes(g, Begins(g.seg) + g.at)
          BY <1>5, <2>4, <2>5, <4>1 DEF InSegment, Going, HasBytes
        <4>3. Start(g.seg, g.tab) <= g.at
          BY <1>3, <2>4, <3>3, <3>5
        <4> QED
          BY <1>5, <2>4, <2>5, <4>1, <4>2, <4>3 DEF InSegment
      <3>8. AtTable(g)
        BY <1>3, <1>5, <2>4, <2>5, <3>1, <3>6 DEF AtTable
      <3> QED
        BY <3>7, <3>8 DEF Progress, InTable, AtEntry
    <2> HIDE DEF f
    <2> QED
      BY <1>1, <2>1, <2>4, <2>5, GotoMore DEF f
  <1> QED
    BY <1>6, <1>7

\* The table a call is at, of sane segments.
LEMMA TableAt ==
    ASSUME NEW counted, Inv(counted), Sane, NEW c \in Clients, pc[c] \in InTable
    PROVE  /\ IsGoodTable(Table(c), frame[c].seg, frame[c].tab)
           /\ frame[c].seg \in DOMAIN Files
           /\ segs[frame[c].seg].file = frame[c].seg
           /\ \E m \in Nat : /\ Len(Files[frame[c].seg]) = m /\ HasTables(frame[c].seg, m)
                             /\ frame[c].tab \in 1..m
  <1> DEFINE f == frame[c]
  <1>1. /\ f.seg \in 1..Len(segs) /\ segs[f.seg].decoded /\ f.tab \in 1..Len(segs[f.seg].tables)
    BY OfTable
  <1> HIDE DEF f
  <1>2. /\ segs[f.seg].file = f.seg /\ f.seg \in DOMAIN Files
        /\ Len(segs[f.seg].tables) = Len(Files[f.seg])
        /\ \A t \in 1..Len(segs[f.seg].tables) : IsGoodTable(segs[f.seg].tables[t], f.seg, t)
    BY <1>1, OfGood
  <1>3. PICK m \in Nat : Len(Files[f.seg]) = m
    BY <1>2, FilesType, LenProperties
  <1>4. HasTables(f.seg, m)
    BY <1>2, <1>3, TablesLaidOut
  <1> QED
    BY <1>1, <1>2, <1>3, <1>4 DEF Table, f

\* The sectors a read takes from a table: up to its end, or all it wants.
LEMMA EntersTable ==
    ASSUME NEW f \in Frames, NEW g \in Frames, NEW k \in Nat, NEW e \in Nat,
           InSegment(f), f.rest = 0, Ends(f.seg, f.tab) = e, Begins(f.seg) \in Nat,
           SectorsIn(f.seg) \in Nat,
           k <= f.left, k <= e - f.at, k = f.left \/ k = e - f.at,
           g.off = f.off, g.len = f.len, g.buf = f.buf, g.seg = f.seg, g.tab = f.tab,
           g.sector = f.sector, g.count = f.count, g.at = f.at,
           g.rest = k, g.left = f.left - k
    PROVE  InSegment(g) /\ AtChunk(g)
  <1>1. PICK at \in Nat, l \in Nat, b \in Nat, w \in Nat, x \in Nat :
          at = f.at /\ l = f.left /\ b = Begins(f.seg) /\ w = SectorsIn(f.seg) /\ x = f.sector
    BY FrameFields
  <1>2. x = b + at + 0 + l /\ at + 0 + l <= w
    BY <1>1 DEF InSegment
  <1>3. x = b + at + k + (l - k) /\ at + k + (l - k) <= w
    BY <1>2
  <1>4. First(g) = First(f) /\ Going(g) /\ HasBytes(g, b + at)
    BY <1>1 DEF First, Going, HasBytes, InSegment
  <1>5. InSegment(g)
    BY <1>1, <1>3, <1>4 DEF InSegment
  <1>6. at + k <= e /\ (l - k > 0 => at + k = e)
    <2>1. k <= l /\ k <= e - at /\ (k = l \/ k = e - at)
      BY <1>1
    <2> QED
      BY <2>1
  <1> QED
    BY <1>1, <1>5, <1>6 DEF AtChunk

LEMMA NextTableMore ==
    ASSUME NEW counted, Inv(counted), More(counted), NEW c \in Clients, NextTable(c)
    PROVE  More(counted)'
  <1> DEFINE f == frame[c]
             t == Table(c)
             n == Lesser(t.sectorCount - (f.at - t.sectorOffset), f.left)
             g == [f EXCEPT !.rest = n, !.left = @ - n]
  <1>1. pc[c] = "table" /\ segs' = segs /\ opened' = opened
    BY DEF NextTable, Quiet
  <1>2. SegsKept(c, counted) /\ f.call \in {"ReadAt", "Read"} /\ f \in Frames /\ pc[c] \in InTable
    BY <1>1, SegsSame DEF More, Calling, Inv, InTable
  <1>3. PICK at \in Nat, l \in Nat : at = f.at /\ l = f.left
    BY <1>2, FrameFields, Zenon
  <1>4. \/ n < 0 /\ End(c, <<>>, "panic", FALSE)
        \/ n = 0 /\ AfterTable(c, f)
        \/ ~(n < 0) /\ ~(n = 0) /\ Goto(c, "chunk", g)
    BY DEF NextTable, Return, Table
  <1>5. ASSUME Sane, f.alone, Progress(pc[c], f, segs)
        PROVE  /\ InSegment(f) /\ f.rest = 0 /\ Begins(f.seg) \in Nat /\ SectorsIn(f.seg) \in Nat
               /\ \E e \in Nat, k \in Nat : /\ Ends(f.seg, f.tab) = e /\ n = k /\ k > 0
                                            /\ k <= l /\ k <= e - at /\ (k = l \/ k = e - at)
    <2>1. InSegment(f) /\ AtTable(f)
      BY <1>1, <1>2, <1>5 DEF Progress
    <2>2. IsGoodTable(t, f.seg, f.tab) /\ f.seg \in DOMAIN Files
      BY <1>2, <1>5, TableAt
    <2>3. PICK m \in Nat : HasTables(f.seg, m) /\ f.tab \in 1..m
      BY <1>2, <1>5, TableAt
    <2>4. PICK s \in Nat, q \in Nat : s = Start(f.seg, f.tab) /\ q = SectorsOfTable(f.seg, f.tab)
      BY <2>3 DEF HasTables
    <2>5. s <= at /\ at < s + q /\ l > 0
      BY <1>3, <2>1, <2>4 DEF InSegment, AtTable, Ends
    <2>6. n = Lesser(q - (at - s), l)
      BY <1>3, <2>2, <2>4 DEF IsGoodTable
    <2>7. n \in Int /\ n <= l /\ n <= (s + q) - at /\ (n = l \/ n = (s + q) - at)
      BY <2>6 DEF Lesser
    <2> HIDE DEF n
    <2>8. PICK k \in Nat : n = k /\ k > 0
      BY <2>5, <2>7
    <2>9. PICK e \in Nat : e = s + q /\ Ends(f.seg, f.tab) = e
      BY <2>4 DEF Ends
    <2>10. Begins(f.seg) \in Nat /\ SectorsIn(f.seg) \in Nat
      BY <2>2, FileAt DEF LiesAt
    <2> QED
      BY <2>1, <2>7, <2>8, <2>9, <2>10 DEF AtTable
  <1>6. CASE n < 0 /\ End(c, <<>>, "panic", FALSE)
    <2>1. ~(Sane /\ f.alone /\ Progress(pc[c], f, segs))
      BY <1>5, <1>6
    <2> HIDE DEF n
    <2> QED
      BY <1>1, <1>2, <1>6, <2>1, EndMore
  <1>7. CASE n = 0 /\ AfterTable(c, f)
    <2>1. ~(Sane /\ f.alone /\ Progress(pc[c], f, segs))
      BY <1>5, <1>7
    <2> HIDE DEF n
    <2> QED
      BY <1>1, <1>2, <1>7, <2>1, AfterTableMore
  <1>8. CASE ~(n < 0) /\ ~(n = 0) /\ Goto(c, "chunk", g)
    <2>1. g.alone = f.alone /\ g.call = f.call
      BY <1>2 DEF Frames
    <2>2. ASSUME Sane, f.alone, Progress(pc[c], f, segs)
          PROVE  Progress("chunk", g, segs')
      <3>1. PICK e \in Nat, k \in Nat : /\ Ends(f.seg, f.tab) = e /\ n = k /\ k > 0
                                        /\ k <= l /\ k <= e - at /\ (k = l \/ k = e - at)
        BY <1>5, <2>2
      <3>2. PICK r \in Nat : r = l - k
        BY <3>1
      <3>3. g = [f EXCEPT !.rest = k, !.left = r]
        BY <1>3, <3>1, <3>2
      <3> HIDE DEF n, g
      <3>4. /\ g \in Frames /\ g.off = f.off /\ g.len = f.len /\ g.buf = f.buf /\ g.seg = f.seg
            /\ g.tab = f.tab /\ g.sector = f.sector /\ g.count = f.count /\ g.at = f.at
            /\ g.rest = k /\ g.left = r
        BY <1>2, <3>3 DEF Frames
      <3>5. /\ InSegment(f) /\ f.rest = 0 /\ Begins(f.seg) \in Nat /\ SectorsIn(f.seg) \in Nat
        BY <1>5, <2>2
      <3>6. /\ k <= f.left /\ k <= e - f.at /\ (k = f.left \/ k = e - f.at)
            /\ g.left = f.left - k
        BY <1>3, <3>1, <3>2, <3>4
      <3>7. InSegment(g) /\ AtChunk(g)
        <4> HIDE DEF f
        <4> QED
          BY <1>2, <3>1, <3>4, <3>5, <3>6, EntersTable
      <3> QED
        BY <3>7 DEF Progress, InTable, AtEntry
    <2> HIDE DEF g, f, n
    <2> QED
      BY <1>1, <1>2, <1>8, <2>1, <2>2, GotoMore DEF f
  <1> QED
    BY <1>4, <1>6, <1>7, <1>8

\* The variables of a read that say how far it has come.
SameRead(f, g) ==
    /\ g.off = f.off /\ g.len = f.len /\ g.buf = f.buf /\ g.seg = f.seg /\ g.tab = f.tab
    /\ g.sector = f.sector /\ g.count = f.count /\ g.at = f.at
    /\ g.rest = f.rest /\ g.left = f.left

LEMMA SameReadIn ==
    ASSUME NEW f, NEW g, SameRead(f, g), InSegment(f), AtChunk(f)
    PROVE  InSegment(g) /\ AtChunk(g)
  BY DEF SameRead, InSegment, AtChunk, Going, HasBytes, First

\* A read that runs alone in a table: the sectors it still wants are in the table.
LEMMA InTheTable ==
    ASSUME NEW counted, Inv(counted), Sane, NEW c \in Clients, pc[c] \in InTable \ {"table"},
           Progress(pc[c], frame[c], segs)
    PROVE  /\ InSegment(frame[c]) /\ AtChunk(frame[c])
           /\ frame[c].rest > 0 => IsIn(frame[c].at, frame[c].seg, frame[c].tab)
  <1> DEFINE f == frame[c]
  <1>1. InSegment(f) /\ AtChunk(f)
    BY DEF Progress
  <1>2. PICK m \in Nat : HasTables(f.seg, m) /\ f.tab \in 1..m
    BY TableAt DEF InTable
  <1>3. PICK s \in Nat, q \in Nat : s = Start(f.seg, f.tab) /\ q = SectorsOfTable(f.seg, f.tab)
    BY <1>2 DEF HasTables
  <1>4. f \in Frames
    BY DEF Inv
  <1>5. PICK at \in Nat, r \in Nat : at = f.at /\ r = f.rest
    BY <1>4, FrameFields
  <1>6. s <= at /\ at + r <= s + q
    BY <1>1, <1>3, <1>5 DEF InSegment, AtChunk, Ends
  <1>7. r > 0 => s <= at /\ at < s + q
    BY <1>6
  <1> QED
    BY <1>1, <1>3, <1>5, <1>7 DEF IsIn, Ends

LEMMA NextChunkMore ==
    ASSUME NEW counted, Inv(counted), More(counted), NEW c \in Clients, NEW index,
           NextChunk(c, index), pc[c] = "chunk",
           Sane /\ IsIn(frame[c].at, frame[c].seg, frame[c].tab) =>
             index \in 0..(Table(c).count - 1)
    PROVE  More(counted)'
  <1> DEFINE f == frame[c]
             t == Table(c)
             g == [f EXCEPT !.entry = t.entries]
  <1>1. segs' = segs /\ opened' = opened
    BY DEF NextChunk, Quiet
  <1>2. /\ SegsKept(c, counted) /\ f.call \in {"ReadAt", "Read"} /\ f \in Frames
        /\ pc[c] \in InTable \ {"table"} /\ pc[c] \in InTable
    BY <1>1, SegsSame DEF More, Calling, Inv, InTable
  <1>3. f.rest \in Nat
    BY <1>2, FrameFields
  <1>4. \/ f.rest = 0 /\ AfterTable(c, f)
        \/ f.rest > 0 /\ index \notin 0..(t.count - 1) /\ End(c, <<>>, "error", FALSE)
        \/ f.rest > 0 /\ t.entries = "none" /\ Goto(c, "alloc", f)
        \/ f.rest > 0 /\ t.entries # "none" /\ Goto(c, "seek", g)
    <2>1. CASE f.rest = 0
      BY <2>1 DEF NextChunk
    <2>2. CASE f.rest > 0 /\ index \notin 0..(t.count - 1)
      <3>1. ~(f.rest = 0)
        BY <1>3, <2>2
      <3> HIDE DEF f, t
      <3> QED
        BY <2>2, <3>1 DEF NextChunk, Return, f, t
    <2>3. CASE f.rest > 0 /\ ~(index \notin 0..(t.count - 1))
      <3>1. ~(f.rest = 0)
        BY <1>3, <2>3
      <3>2. IF t.entries = "none" THEN Goto(c, "alloc", f) ELSE Goto(c, "seek", g)
        <4> HIDE DEF f, t
        <4> QED
          BY <2>3, <3>1 DEF NextChunk, f, t, g
      <3> QED
        BY <2>3, <3>2
    <2>4. f.rest = 0 \/ f.rest > 0
      BY <1>3
    <2> HIDE DEF f, t, g
    <2> QED
      BY <2>1, <2>2, <2>3, <2>4, Zenon
  <1>5. CASE f.rest = 0 /\ AfterTable(c, f)
    BY <1>1, <1>2, <1>5, AfterTableMore
  <1>6. CASE f.rest > 0 /\ index \notin 0..(t.count - 1) /\ End(c, <<>>, "error", FALSE)
    <2>1. ~(Sane /\ f.alone /\ Progress(pc[c], f, segs))
      BY <1>2, <1>6, InTheTable
    <2> QED
      BY <1>2, <1>6, <2>1, EndMore
  <1>7. CASE f.rest > 0 /\ t.entries = "none" /\ Goto(c, "alloc", f)
    <2>1. ASSUME Sane, f.alone, Progress(pc[c], f, segs)
          PROVE  Progress("alloc", f, segs')
      BY <1>1, <1>2, <1>7, <2>1, InTheTable DEF Progress, InTable, AtEntry, Table
    <2>2. segs[f.seg].tables[f.tab].entries = "none"
      BY <1>7 DEF Table
    <2> HIDE DEF f
    <2> QED
      BY <1>1, <1>2, <1>7, <2>1, <2>2, GotoMore DEF f
  <1>8. CASE f.rest > 0 /\ t.entries # "none" /\ Goto(c, "seek", g)
    <2>1. SameRead(f, g) /\ g.alone = f.alone /\ g.call = f.call /\ g.entry = t.entries
      BY <1>2 DEF Frames, SameRead
    <2>2. ASSUME Sane, f.alone, Progress(pc[c], f, segs)
          PROVE  Progress("seek", g, segs')
      <3>1. t.entries = "full"
        <4>1. Filled(f.seg, f.tab)
          BY <1>2, <2>2, OfTable DEF Sane
        <4>2. \A d \in Clients : pc[d] \notin {"alloc", "fill"}
          BY <2>2 DEF More, Calling
        <4> QED
          BY <1>8, <4>1, <4>2 DEF Filled, Table
      <3>2. InSegment(g) /\ AtChunk(g) /\ g.rest > 0
        <4>1. InSegment(f) /\ AtChunk(f)
          BY <1>2, <2>2, InTheTable
        <4> HIDE DEF f, g
        <4>2. InSegment(g) /\ AtChunk(g)
          BY <2>1, <4>1, SameReadIn
        <4> QED
          BY <1>8, <2>1, <4>2 DEF SameRead
      <3> HIDE DEF g
      <3> QED
        BY <2>1, <3>1, <3>2 DEF Progress, InTable, AtEntry
    <2> HIDE DEF f, g
    <2> QED
      BY <1>1, <1>2, <1>8, <2>1, <2>2, GotoMore DEF f
  <1> QED
    BY <1>4, <1>5, <1>6, <1>7, <1>8

(***************************************************************************)
(* Entries, chunks and cursors.                                            *)
(***************************************************************************)
\* What Decode made of a segment stays when the cursor or the entries change.
LEMMA KeptLater ==
    ASSUME NEW s, NEW t, SegmentOK(s), SegmentOK(t), Later(s, t), s.decoded,
           NEW counted, Kept(s, counted)
    PROVE  Kept(t, counted)
  <1>1. /\ t.file = s.file /\ t.tableOffsets = s.tableOffsets /\ Len(t.tables) = Len(s.tables)
        /\ \A j \in DOMAIN s.tables : SameTable(s.tables[j], t.tables[j])
        /\ t.decoded
    BY DEF Later
  <1>2. DOMAIN s.tables = 1..Len(s.tables)
    BY SegmentFields, LenProperties DEF SegmentOK
  <1>3. CASE Damaged(s)
    <2>1. Damaged(t)
      <3>1. CASE Len(s.tables) > Len(Files[s.file])
        BY <1>1, <3>1 DEF Damaged
      <3>2. CASE \E j \in 1..Len(s.tables) : s.tables[j].sectorOffset # Start(s.file, j)
        <4>1. PICK j \in 1..Len(s.tables) : s.tables[j].sectorOffset # Start(s.file, j)
          BY <3>2
        <4>2. t.tables[j].sectorOffset = s.tables[j].sectorOffset
          BY <1>1, <1>2, <4>1 DEF SameTable
        <4> QED
          BY <1>1, <4>1, <4>2 DEF Damaged
      <3> QED
        BY <1>3, <3>1, <3>2 DEF Damaged
    <2> QED
      BY <2>1 DEF Kept
  <1>4. ASSUME NEW k \in 0..Len(Files[s.file]), TablesUpTo(s, k)
        PROVE  TablesUpTo(t, k)
    <2>1. Len(s.tables) = k
      BY <1>4 DEF TablesUpTo
    <2>2. ASSUME NEW j \in 1..k
          PROVE  SameTable(NewTable(s.file, j, Start(s.file, j)), t.tables[j])
      <3>1. SameTable(NewTable(s.file, j, Start(s.file, j)), s.tables[j])
        BY <1>4 DEF TablesUpTo
      <3>2. SameTable(s.tables[j], t.tables[j])
        BY <1>1, <1>2, <2>1
      <3> QED
        BY <3>1, <3>2 DEF SameTable
    <2> QED
      BY <1>1, <1>4, <2>1, <2>2 DEF TablesUpTo
  <1> QED
    BY <1>1, <1>3, <1>4 DEF Kept

LEMMA InTableKept ==
    ASSUME NEW counted, Inv(counted), More(counted), NEW c \in Clients, pc[c] \in InTable,
           SegsStep, EntriesKept(c), opened' = opened, NEW new,
           segs' = [segs EXCEPT ![frame[c].seg] = new]
    PROVE  SegsKept(c, counted)
  <1> DEFINE i == frame[c].seg
  <1>1. i \in 1..Len(segs) /\ segs[i].decoded
    BY OfTable
  <1>2. Len(segs') = Len(segs) /\ segs \in Seq(Segment)
    BY DEF SegsStep, Stays, Inv, SegsOK
  <1>3. ASSUME NEW j \in 1..Len(segs')
        PROVE  Kept(segs'[j], counted)
    <2>1. Kept(segs[j], counted) /\ j \in 1..Len(segs)
      BY <1>2, <1>3 DEF More
    <2>2. CASE j = i
      <3>1. SegmentOK(segs[i]) /\ SegmentOK(segs'[i]) /\ Later(segs[i], segs'[i])
        BY <1>1, <1>2 DEF SegsStep, Stays, SegsOK, Inv
      <3> QED
        BY <1>1, <2>1, <2>2, <3>1, KeptLater
    <2>3. CASE j # i
      <3>1. segs'[j] = segs[j]
        BY <1>2, <2>1, <2>3, LenProperties
      <3> QED
        BY <2>1, <3>1
    <2> QED
      BY <2>2, <2>3
  <1> QED
    BY <1>3 DEF SegsKept

LEMMA CursorKept ==
    ASSUME NEW counted, Inv(counted), More(counted), NEW c \in Clients, pc[c] \in InTable,
           NEW cursor \in Cursors, cursor.at = "section" => cursor.n # 0,
           SetCursor(c, cursor), opened' = opened
    PROVE  SegsKept(c, counted) /\ segs'[frame[c].seg].cursor = cursor
  <1> DEFINE i == frame[c].seg
             new == [segs[i] EXCEPT !.cursor = cursor]
  <1>1. i \in 1..Len(segs) /\ segs \in Seq(Segment) /\ segs[i] \in Segment
    BY OfTable DEF Inv, SegsOK, SegmentOK
  <1>2. SegsStep
    BY SetCursorOK
  <1>3. segs' = [segs EXCEPT ![i].cursor = cursor]
    BY DEF SetCursor
  <1> HIDE DEF i
  <1>4. segs' = [segs EXCEPT ![i] = new]
    BY <1>1, <1>3, ChangedCursor
  <1>5. segs'[i] = new /\ \A j \in 1..Len(segs) : j # i => segs'[j] = segs[j]
    BY <1>1, <1>4, LenProperties
  <1>6. new.cursor = cursor /\ new.tables = segs[i].tables
    BY <1>1 DEF Segment
  <1> HIDE DEF new
  <1>7. EntriesKept(c)
    BY <1>5, <1>6, Zenon DEF EntriesKept
  <1> QED
    BY <1>2, <1>4, <1>5, <1>6, <1>7, InTableKept DEF i

LEMMA EntriesChange ==
    ASSUME NEW counted, Inv(counted), More(counted), NEW c \in Clients,
           pc[c] \in {"alloc", "fill"},
           NEW cursor \in Cursors, cursor.at = "section" => cursor.n # 0,
           NEW e \in EntryStates, opened' = opened,
           segs' = [segs EXCEPT ![frame[c].seg].cursor = cursor,
                                ![frame[c].seg].tables[frame[c].tab].entries = e]
    PROVE  SegsKept(c, counted) /\ segs'[frame[c].seg].cursor = cursor
  <1> DEFINE i == frame[c].seg
             tab == frame[c].tab
             new == WithEntries(segs[i], cursor, tab, e)
  <1>0. pc[c] \in InTable
    BY DEF InTable
  <1>1. /\ i \in 1..Len(segs) /\ segs \in Seq(Segment) /\ segs[i] \in Segment
        /\ tab \in DOMAIN segs[i].tables /\ SegmentOK(segs[i])
    BY <1>0, OfTable, Zenon DEF Inv, SegsOK, SegmentOK
  <1>2. SegsStep
    BY <1>0, SetEntriesOK, Zenon
  <1>3. segs' = [segs EXCEPT ![i].cursor = cursor, ![i].tables[tab].entries = e]
    BY Zenon
  <1> HIDE DEF i, tab
  <1>4. segs' = [segs EXCEPT ![i] = new]
    BY <1>1, <1>3, LenProperties, Zenon DEF WithEntries
  <1>5. segs'[i] = new /\ \A j \in 1..Len(segs) : j # i => segs'[j] = segs[j]
    BY <1>1, <1>4, LenProperties
  <1>6. new.cursor = cursor
    BY <1>1 DEF Segment, WithEntries
  <1>7. \A j \in DOMAIN segs[i].tables :
          new.tables[j].entries = IF j = tab THEN e ELSE segs[i].tables[j].entries
    BY <1>1, ChangeEntries
  <1>8. DOMAIN segs[i].tables = 1..Len(segs[i].tables)
    BY <1>1, SegmentFields, LenProperties, Zenon
  <1> HIDE DEF new
  <1>9. EntriesKept(c)
    <2> SUFFICES ASSUME NEW j \in 1..Len(segs), NEW t \in 1..Len(segs[j].tables)
                 PROVE  \/ segs'[j].tables[t].entries = segs[j].tables[t].entries
                        \/ frame[c].seg = j /\ frame[c].tab = t
      BY Zenon DEF EntriesKept
    <2>1. CASE j # i
      BY <1>5, <2>1, Zenon
    <2>2. CASE j = i /\ t # tab
      BY <1>5, <1>7, <1>8, <2>2, Zenon
    <2>3. CASE j = i /\ t = tab
      BY <2>3 DEF i, tab
    <2> QED
      BY <2>1, <2>2, <2>3, Zenon
  <1> QED
    BY <1>0, <1>2, <1>4, <1>5, <1>6, <1>9, InTableKept, Zenon DEF i

LEMMA AllocEntriesMore ==
    ASSUME NEW counted, Inv(counted), More(counted), NEW c \in Clients, AllocEntries(c)
    PROVE  More(counted)'
  <1> DEFINE f == frame[c]
             g == [f EXCEPT !.cpos = segs[f.seg].cursor]
             cursor == At("entries", Table(c).t)
  <1>1. pc[c] = "alloc" /\ opened' = opened /\ Goto(c, "fill", g)
    BY DEF AllocEntries
  <1>2. segs' = [segs EXCEPT ![f.seg].cursor = cursor, ![f.seg].tables[f.tab].entries = "zero"]
    BY DEF AllocEntries
  <1>3. /\ pc[c] \in InTable /\ pc[c] \in InTable \ {"table"} /\ pc[c] # "idle"
        /\ f.call \in {"ReadAt", "Read"} /\ f \in Frames
    BY <1>1 DEF InTable, More, Calling, Inv
  <1>4. cursor \in Cursors /\ cursor.at # "section" /\ "zero" \in EntryStates
    <2>1. Table(c).t \in Nat
      BY <1>3, OfTable, Zenon DEF Tables
    <2> QED
      BY <2>1 DEF At, Cursors, EntryStates
  <1>5. SegsKept(c, counted) /\ segs'[f.seg].cursor = cursor
    <2> HIDE DEF cursor
    <2> QED
      BY <1>1, <1>2, <1>4, EntriesChange, Zenon
  <1>6. SameRead(f, g) /\ g.alone = f.alone /\ g.call = f.call
    BY <1>3 DEF Frames, SameRead
  <1>7. ASSUME Sane, f.alone, Progress(pc[c], f, segs)
        PROVE  Progress("fill", g, segs')
    <2>1. Table(c).t = f.tab
      BY <1>3, <1>7, TableAt DEF IsGoodTable
    <2>2. InSegment(f) /\ AtChunk(f) /\ f.rest > 0
      BY <1>1, <1>3, <1>7, InTheTable DEF Progress, AtEntry
    <2> HIDE DEF f, g
    <2>3. InSegment(g) /\ AtChunk(g) /\ g.rest > 0 /\ g.seg = f.seg /\ g.tab = f.tab
      BY <1>6, <2>2, SameReadIn DEF SameRead
    <2> QED
      BY <1>5, <2>1, <2>3 DEF Progress, InTable, AtEntry
  <1>8. g.seg = f.seg /\ g.tab = f.tab
    BY <1>6, Zenon DEF SameRead
  <1> HIDE DEF f, g, cursor
  <1> QED
    BY <1>1, <1>3, <1>5, <1>6, <1>7, <1>8, GotoMore DEF f

LEMMA FillEntriesMore ==
    ASSUME NEW counted, Inv(counted), More(counted), NEW c \in Clients, FillEntries(c)
    PROVE  More(counted)'
  <1> DEFINE f == frame[c]
             right == segs[f.seg].cursor = At("entries", Table(c).t)
             filled == IF right THEN "full" ELSE "junk"
             g == [f EXCEPT !.entry = filled, !.cpos = Elsewhere]
  <1>1. pc[c] = "fill" /\ opened' = opened
    BY DEF FillEntries
  <1>2. /\ pc[c] \in InTable /\ pc[c] \in InTable \ {"table"} /\ pc[c] # "idle"
        /\ f.call \in {"ReadAt", "Read"} /\ f \in Frames
    BY <1>1 DEF InTable, More, Calling, Inv
  <1>3. f.cpos \in Cursors /\ (f.cpos.at = "section" => f.cpos.n # 0)
    BY OfCall, FrameFields
  <1>4. filled \in EntryStates
    BY Zenon DEF EntryStates
  <1>5. \/ /\ segs' = [segs EXCEPT ![f.seg].cursor = f.cpos, ![f.seg].tables[f.tab].entries = filled]
           /\ Goto(c, "seek", g)
        \/ SetCursor(c, f.cpos) /\ Fault(c)
        \/ SetCursor(c, f.cpos) /\ ~right /\ End(c, <<>>, "error", FALSE)
    BY DEF FillEntries, Return
  <1>6. Sane /\ Progress(pc[c], f, segs) => right
    <2>1. Sane => Table(c).t = f.tab
      BY <1>2, TableAt DEF IsGoodTable
    <2>2. Progress(pc[c], f, segs) => segs[f.seg].cursor = At("entries", f.tab)
      BY <1>1, Zenon DEF Progress
    <2> QED
      BY <2>1, <2>2
  <1>7. CASE /\ segs' = [segs EXCEPT ![f.seg].cursor = f.cpos, ![f.seg].tables[f.tab].entries = filled]
             /\ Goto(c, "seek", g)
    <2>1. SegsKept(c, counted)
      <3> HIDE DEF filled
      <3> QED
        BY <1>1, <1>3, <1>4, <1>7, EntriesChange, Zenon
    <2>2. SameRead(f, g) /\ g.alone = f.alone /\ g.call = f.call /\ g.entry = filled
      <3> HIDE DEF filled
      <3> QED
        BY <1>2 DEF Frames, SameRead
    <2>3. ASSUME Sane, f.alone, Progress(pc[c], f, segs)
          PROVE  Progress("seek", g, segs')
      <3>1. g.entry = "full"
        BY <1>6, <2>2, <2>3
      <3>2. InSegment(f) /\ AtChunk(f) /\ f.rest > 0
        BY <1>1, <1>2, <2>3, InTheTable DEF Progress, AtEntry
      <3> HIDE DEF f, g
      <3>3. InSegment(g) /\ AtChunk(g) /\ g.rest > 0
        BY <2>2, <3>2, SameReadIn DEF SameRead
      <3> QED
        BY <3>1, <3>3 DEF Progress, InTable, AtEntry
    <2> HIDE DEF f, g
    <2> QED
      BY <1>1, <1>2, <1>7, <2>1, <2>2, <2>3, GotoMore, Zenon DEF f
  <1>8. CASE SetCursor(c, f.cpos) /\ Fault(c)
    <2>1. SegsKept(c, counted)
      BY <1>1, <1>2, <1>3, <1>8, CursorKept
    <2>2. PICK err \in FaultErrors : End(c, <<>>, err, TRUE)
      BY <1>8 DEF Fault
    <2>3. EndsRight(f, <<>>, err, TRUE)
      BY <2>2 DEF EndsRight
    <2> QED
      BY <1>2, <2>1, <2>2, <2>3, EndMore
  <1>9. CASE SetCursor(c, f.cpos) /\ ~right /\ End(c, <<>>, "error", FALSE)
    <2>1. SegsKept(c, counted)
      BY <1>1, <1>2, <1>3, <1>9, CursorKept
    <2> QED
      BY <1>2, <1>6, <1>9, <2>1, EndMore
  <1> QED
    BY <1>5, <1>7, <1>8, <1>9

LEMMA SeekChunkMore ==
    ASSUME NEW counted, Inv(counted), More(counted), NEW c \in Clients, NEW seeks,
           SeekChunk(c, seeks),
           \A a \in seeks : /\ a.cursor \in Cursors /\ a.cursor.at # "section"
                            /\ a.out \in {"ok", "error", "panic"},
           Sane /\ IsIn(frame[c].at, frame[c].seg, frame[c].tab) /\ frame[c].entry = "full" =>
             \A a \in seeks : /\ a.cursor = At("chunk", frame[c].at \div ChunkSectors)
                              /\ a.out = "ok"
    PROVE  More(counted)'
  <1> DEFINE f == frame[c]
  <1>1. pc[c] = "seek" /\ opened' = opened
    BY DEF SeekChunk
  <1>2. /\ pc[c] \in InTable /\ pc[c] \in InTable \ {"table"} /\ pc[c] # "idle"
        /\ f.call \in {"ReadAt", "Read"} /\ f \in Frames
    BY <1>1 DEF InTable, More, Calling, Inv
  <1>3. PICK a \in seeks :
          /\ SetCursor(c, a.cursor)
          /\ IF a.out = "ok" THEN Goto(c, "data", f) ELSE Return(c, <<>>, a.out)
    BY DEF SeekChunk
  <1>4. SegsKept(c, counted) /\ segs'[f.seg].cursor = a.cursor
    BY <1>1, <1>2, <1>3, CursorKept
  <1>5. ASSUME Sane, f.alone, Progress(pc[c], f, segs)
        PROVE  /\ InSegment(f) /\ AtChunk(f) /\ f.rest > 0 /\ f.entry = "full"
               /\ a.cursor = At("chunk", f.at \div ChunkSectors) /\ a.out = "ok"
    <2>1. f.rest > 0 /\ f.entry = "full"
      BY <1>1, <1>5 DEF Progress, AtEntry
    <2>2. InSegment(f) /\ AtChunk(f) /\ IsIn(f.at, f.seg, f.tab)
      BY <1>2, <1>5, <2>1, InTheTable
    <2> QED
      BY <1>5, <2>1, <2>2
  <1>6. CASE a.out = "ok"
    <2>1. Goto(c, "data", f)
      BY <1>3, <1>6
    <2>2. ASSUME Sane, f.alone, Progress(pc[c], f, segs)
          PROVE  Progress("data", f, segs')
      BY <1>4, <1>5, <2>2 DEF Progress, InTable, AtEntry
    <2> QED
      BY <1>2, <1>4, <2>1, <2>2, GotoMore
  <1>7. CASE a.out # "ok"
    <2>1. End(c, <<>>, a.out, FALSE)
      BY <1>3, <1>7 DEF Return
    <2>2. ~(Sane /\ f.alone /\ Progress(pc[c], f, segs))
      BY <1>5, <1>7
    <2> QED
      BY <1>2, <1>4, <2>1, <2>2, EndMore
  <1> QED
    BY <1>6, <1>7

IsPart(off, n, i, k) == SubSeq(BytesFrom(off, n), i + 1, i + k) = BytesFrom(off + i, k)

LEMMA BytesPart ==
    ASSUME NEW off \in Nat, NEW n \in Nat, NEW i \in Nat, NEW k \in Nat, k # 0 => i + k <= n
    PROVE  IsPart(off, n, i, k)
  BY BytesFromPart, Zenon DEF IsPart

LEMMA ProductOfProduct == \A a, b, k \in Nat : a * (b * k) = (a * b) * k
  OBVIOUS

LEMMA ProductEither == \A a, b \in Nat : a * b = b * a
  OBVIOUS

\* The bytes of some sectors of a chunk.
LEMMA PieceOfChunk ==
    ASSUME NEW i \in DOMAIN Files, NEW at \in Nat, NEW n \in Nat,
           (at % ChunkSectors) + n <= ChunkSectors
    PROVE  LET d == ChunkData(i, at \div ChunkSectors)
               first == at % ChunkSectors
               part == SubSeq(d, (first * SectorSize) + 1, (first + n) * SectorSize)
           IN  /\ d \in Seq(Int) /\ (first + n) * SectorSize <= Len(d)
               /\ first * SectorSize <= (first + n) * SectorSize
               /\ part = BytesFrom((Begins(i) + at) * SectorSize, n * SectorSize)
               /\ n = ChunkSectors => d = BytesFrom((Begins(i) + at) * SectorSize, n * SectorSize)
  <1>1. PICK s \in Nat, cs \in Nat : s = SectorSize /\ cs = ChunkSectors /\ cs > 0
    BY ReadAtAssumption, ReaderAssumption
  <1>2. PICK k \in Nat, r \in Nat : /\ k = at \div ChunkSectors /\ r = at % ChunkSectors
                                    /\ at = (cs * k) + r
    BY <1>1, Quotient
  <1>3. PICK p \in Nat : p = ChunksBefore[i]
    BY ChunksBeforeType
  <1>4. cs * k \in Nat /\ cs * k = k * cs
    BY <1>1, <1>2, Product, ProductEither
  <1>5. PICK b \in Nat : b = p * cs /\ Begins(i) = b
    BY <1>1, <1>3, Product DEF Begins
  <1>6. PICK w \in Nat : w = cs * s /\ ChunkBytes = w
    BY <1>1, Product DEF ChunkBytes
  <1>7. PICK base \in Nat : base = (p + k) * w
    <2>1. p + k \in Nat
      OBVIOUS
    <2> QED
      BY <2>1, Product
  <1> DEFINE d == BytesFrom(base, w)
             off == (b + at) * s
  <1>8. ChunkData(i, k) = d
    BY <1>3, <1>6, <1>7 DEF ChunkData
  <1>9. base = (b + (cs * k)) * s
    <2>1. p + k \in Nat /\ (p + k) * (cs * s) = ((p + k) * cs) * s
      BY ProductOfProduct
    <2>2. (p + k) * cs = p * cs + k * cs
      BY ProductOfSum
    <2> QED
      BY <1>4, <1>5, <1>6, <1>7, <2>1, <2>2
  <1>10. off = base + r * s
    <2>1. PICK x \in Nat : x = b + (cs * k) /\ b + at = x + r
      <3>1. PICK y \in Nat : y = cs * k
        BY <1>4
      <3> QED
        BY <1>2, <3>1
    <2>2. (x + r) * s = x * s + r * s
      BY ProductOfSum
    <2> QED
      BY <1>9, <2>1, <2>2
  <1>11. PICK i1 \in Nat, i2 \in Nat, nb \in Nat : i1 = r * s /\ i2 = (r + n) * s /\ nb = n * s /\ i2 = i1 + nb
    <2>1. r + n \in Nat /\ (r + n) * s = r * s + n * s
      BY ProductOfSum
    <2> QED
      BY <2>1, Product
  <1>12. i2 <= w
    <2>1. r + n \in Nat /\ r + n <= cs
      BY <1>1, <1>2
    <2> QED
      BY <1>6, <1>11, <2>1, ProductGrows
  <1>13. Len(d) = w /\ d \in Seq(Int)
    BY BytesFromIs
  <1>14. SubSeq(d, i1 + 1, i1 + nb) = BytesFrom(base + i1, nb)
    <2>1. nb # 0 => i1 + nb <= w
      BY <1>11, <1>12
    <2>2. IsPart(base, w, i1, nb)
      BY <2>1, BytesPart
    <2> QED
      BY <2>2 DEF IsPart
  <1>15. n = cs => d = BytesFrom(off, n * s)
    <2> HAVE n = cs
    <2>1. r = 0
      BY <1>1, <1>2
    <2>2. i1 = 0 /\ nb = w
      BY <1>6, <1>11, <2>1
    <2> QED
      BY <1>10, <1>11, <2>2
  <1>16. (r + n) * s <= Len(ChunkData(i, k)) /\ r * s <= (r + n) * s
    BY <1>8, <1>11, <1>12, <1>13
  <1>17. SubSeq(ChunkData(i, k), (r * s) + 1, (r + n) * s) = BytesFrom((b + at) * s, n * s)
    BY <1>8, <1>10, <1>11, <1>14
  <1> HIDE DEF d
  <1> QED
    BY <1>1, <1>2, <1>5, <1>8, <1>13, <1>15, <1>16, <1>17

IsConcat(off, a, b) == BytesFrom(off, a) \o BytesFrom(off + a, b) = BytesFrom(off, a + b)

LEMMA BytesConcat ==
    ASSUME NEW off \in Nat, NEW a \in Nat, NEW b \in Nat
    PROVE  IsConcat(off, a, b)
  BY BytesFromConcat DEF IsConcat

\* The read has the bytes of n more sectors.
LEMMA ReadsOn ==
    ASSUME NEW f \in Frames, NEW g \in Frames, NEW n \in Nat, n <= f.rest,
           InSegment(f), AtChunk(f), Begins(f.seg) \in Nat, SectorsIn(f.seg) \in Nat,
           Ends(f.seg, f.tab) \in Nat, Start(f.seg, f.tab) \in Nat,
           g.off = f.off, g.len = f.len, g.seg = f.seg, g.tab = f.tab,
           g.sector = f.sector, g.count = f.count, g.left = f.left,
           g.at = f.at + n, g.rest = f.rest - n,
           g.buf = f.buf \o BytesFrom((Begins(f.seg) + f.at) * SectorSize, n * SectorSize)
    PROVE  InSegment(g) /\ AtChunk(g)
  <1>1. PICK at \in Nat, r \in Nat, l \in Nat, b \in Nat, w \in Nat, e \in Nat, x \in Nat, o \in Nat :
          /\ at = f.at /\ r = f.rest /\ l = f.left /\ b = Begins(f.seg) /\ w = SectorsIn(f.seg)
          /\ e = Ends(f.seg, f.tab) /\ x = f.sector /\ o = First(f)
    BY FrameFields, OffsetIs
  <1>2. PICK q \in Nat : q = Start(f.seg, f.tab)
    OBVIOUS
  <1>3. x = b + at + r + l /\ at + r + l <= w /\ q <= at /\ o <= b + at
    BY <1>1, <1>2 DEF InSegment
  <1>4. at + r <= e /\ (l > 0 => at + r = e)
    BY <1>1 DEF AtChunk
  <1>5. PICK a2 \in Nat, r2 \in Nat : a2 = at + n /\ r2 = r - n
    <2>1. n <= r
      BY <1>1, Zenon
    <2>2. at + n \in Nat /\ r - n \in Nat
      BY <2>1
    <2> QED
      BY <2>2, Zenon
  <1>6. g.at = a2 /\ g.rest = r2 /\ g.left = l /\ g.sector = x
    BY <1>1, <1>5
  <1>7. First(g) = First(f) /\ Going(g)
    BY DEF First, Going, InSegment
  <1>8. HasBytes(g, b + a2)
    <2>1. PICK s \in Nat : s = SectorSize
      BY ReadAtAssumption
    <2>2. PICK d \in Nat : d = (b + at) - o
      BY <1>3
    <2>3. f.buf = BytesFrom(o * s, d * s)
      BY <1>1, <2>1, <2>2 DEF InSegment, HasBytes
    <2>4. PICK os \in Nat, ds \in Nat, ns \in Nat : os = o * s /\ ds = d * s /\ ns = n * s
      BY Product
    <2>5. (b + at) * s = os + ds
      <3>1. (o + d) * s = o * s + d * s
        BY ProductOfSum
      <3>2. o + d = b + at
        BY <1>3, <2>2
      <3> QED
        BY <2>4, <3>1, <3>2
    <2>6. g.buf = BytesFrom(os, ds) \o BytesFrom(os + ds, ns)
      BY <1>1, <2>1, <2>3, <2>4, <2>5
    <2>7. g.buf = BytesFrom(os, ds + ns)
      <3>1. IsConcat(os, ds, ns)
        BY BytesConcat
      <3> QED
        BY <2>6, <3>1 DEF IsConcat
    <2>8. ds + ns = (d + n) * s
      BY <2>4, ProductOfSum
    <2>9. d + n = (b + a2) - o
      BY <1>3, <1>5, <2>2
    <2> QED
      BY <1>1, <1>7, <2>1, <2>4, <2>7, <2>8, <2>9 DEF HasBytes
  <1>9. x = b + a2 + r2 + l /\ a2 + r2 + l <= w /\ q <= a2 /\ o <= b + a2
    <2>1. n <= r
      BY <1>1
    <2> QED
      BY <1>3, <1>5, <2>1
  <1>10. a2 + r2 <= e /\ (l > 0 => a2 + r2 = e)
    <2>1. n <= r
      BY <1>1
    <2> QED
      BY <1>4, <1>5, <2>1
  <1>11. g.count > 0 => g.sector = Begins(g.seg + 1)
    BY DEF InSegment
  <1> QED
    BY <1>1, <1>2, <1>6, <1>7, <1>8, <1>9, <1>10, <1>11 DEF InSegment, AtChunk

\* What readSectors takes of a chunk that has been read.
Taken(d, first, n, cuts) ==
    IF n = ChunkSectors THEN Attempt(d, "ok")
    ELSE Slice(d, first * SectorSize, (first + n) * SectorSize, cuts)

LEMMA TakenIs ==
    ASSUME NEW i \in DOMAIN Files, NEW at \in Nat, NEW n \in Nat, NEW cuts,
           (at % ChunkSectors) + n <= ChunkSectors
    PROVE  Taken(ChunkData(i, at \div ChunkSectors), at % ChunkSectors, n, cuts) =
             Attempt(BytesFrom((Begins(i) + at) * SectorSize, n * SectorSize), "ok")
  <1> DEFINE d == ChunkData(i, at \div ChunkSectors)
             first == at % ChunkSectors
             new == BytesFrom((Begins(i) + at) * SectorSize, n * SectorSize)
  <1>1. /\ d \in Seq(Int) /\ (first + n) * SectorSize <= Len(d)
        /\ first * SectorSize <= (first + n) * SectorSize
        /\ SubSeq(d, (first * SectorSize) + 1, (first + n) * SectorSize) = new
        /\ n = ChunkSectors => d = new
    BY PieceOfChunk
  <1>2. first \in Nat
    BY ReaderAssumption, Quotient
  <1> SUFFICES Taken(d, first, n, cuts) = Attempt(new, "ok")
    OBVIOUS
  <1> HIDE DEF d, first, new
  <1>3. CASE n = ChunkSectors
    BY <1>1, <1>3 DEF Taken
  <1>4. CASE n # ChunkSectors
    <2>1. PICK j \in Nat, e \in Nat, m \in Nat :
            j = first * SectorSize /\ e = (first + n) * SectorSize /\ m = Len(d)
      <3>1. first + n \in Nat /\ SectorSize \in Nat
        BY <1>2, ReadAtAssumption
      <3> QED
        BY <1>1, <1>2, <3>1, Product, LenProperties
    <2>2. j <= e /\ e <= m /\ SubSeq(d, j + 1, e) = new
      BY <1>1, <2>1
    <2>3. Slice(d, j, e, cuts) = Attempt(new, "ok")
      <3>1. Lesser(e, m) = e
        BY <2>2 DEF Lesser
      <3>2. (IF cuts THEN Lesser(e, Len(d)) ELSE e) = e
        BY <2>1, <3>1
      <3>3. ~(j > e \/ e > Len(d))
        BY <2>1, <2>2
      <3> QED
        BY <2>2, <3>2, <3>3 DEF Slice
    <2> QED
      BY <1>4, <2>1, <2>3 DEF Taken
  <1> QED
    BY <1>3, <1>4

\* readChunk reads the chunk, or the file fails.
ReadsTheChunk(f, reads) ==
    \A a \in reads :
      \/ a.out = "fault"
      \/ a = Attempt(ChunkData(f.seg, f.at \div ChunkSectors), "ok")

LEMMA ReadChunkMore ==
    ASSUME NEW counted, Inv(counted), More(counted), NEW c \in Clients, NEW reads, NEW cuts,
           ReadChunk(c, reads, cuts),
           \A a \in reads : a.out \in {"ok", "error", "fault"},
           Sane /\ IsIn(frame[c].at, frame[c].seg, frame[c].tab) /\ frame[c].entry = "full"
             /\ segs[frame[c].seg].cursor = At("chunk", frame[c].at \div ChunkSectors) =>
             ReadsTheChunk(frame[c], reads)
    PROVE  More(counted)'
  <1> DEFINE f == frame[c]
             first == f.at % ChunkSectors
             n == Lesser(ChunkSectors - first, f.rest)
             taken(d) == IF n = ChunkSectors THEN Attempt(d, "ok")
                         ELSE Slice(d, first * SectorSize, (first + n) * SectorSize, cuts)
             Read(a) == IF a.out = "ok" THEN taken(a.gives) ELSE a
             g(b) == [f EXCEPT !.buf = @ \o b.gives, !.at = @ + n, !.rest = @ - n]
  <1>1. pc[c] = "data" /\ opened' = opened /\ SetCursor(c, Elsewhere)
    BY DEF ReadChunk
  <1>2. /\ pc[c] \in InTable /\ pc[c] \in InTable \ {"table"} /\ pc[c] # "idle"
        /\ f.call \in {"ReadAt", "Read"} /\ f \in Frames
    BY <1>1, Zenon DEF InTable, More, Calling, Inv
  <1>3. PICK a \in reads :
          LET b == Read(a)
          IN  CASE b.out = "fault" -> Fault(c)
                [] b.out = "ok" -> Goto(c, "chunk", g(b)) /\ UNCHANGED faults
                [] OTHER -> Return(c, <<>>, b.out) /\ UNCHANGED faults
    BY Zenon DEF ReadChunk
  <1>4. SegsKept(c, counted)
    <2>1. Elsewhere \in Cursors /\ Elsewhere.at # "section"
      BY DEF Elsewhere, At, Cursors
    <2> QED
      BY <1>1, <1>2, <2>1, CursorKept
  <1>5. PICK at \in Nat, r \in Nat, x \in Nat : at = f.at /\ r = f.rest /\ x = first /\ x < ChunkSectors
    <2>1. f.at \in Nat /\ f.rest \in Nat
      BY <1>2, FrameFields
    <2>2. (f.at % ChunkSectors) \in Nat /\ (f.at % ChunkSectors) < ChunkSectors
      BY <2>1, Quotient, ReaderAssumption
    <2> QED
      BY <2>1, <2>2
  <1>6. PICK m \in Nat : m = n /\ m <= r /\ x + m <= ChunkSectors
    <2>1. n = Lesser(ChunkSectors - x, r)
      BY <1>5
    <2>2. n \in Nat /\ n <= r /\ x + n <= ChunkSectors
      <3>1. PICK cs \in Nat : cs = ChunkSectors /\ x < cs
        BY <1>5, ChunkSectorsType
      <3>2. n = Lesser(cs - x, r)
        BY <2>1, <3>1
      <3> HIDE DEF n
      <3>3. n \in Nat /\ n <= r /\ x + n <= cs
        BY <3>1, <3>2 DEF Lesser
      <3> QED
        BY <3>1, <3>3
    <2> QED
      BY <2>2
  <1> DEFINE b == Read(a)
  <1>7. b = IF a.out = "ok" THEN Taken(a.gives, x, m, cuts) ELSE a
    BY <1>5, <1>6 DEF Taken
  <1>8. b.out \in {"ok", "error", "fault", "panic"}
    <2>1. a.out = "ok" => b.out \in {"ok", "panic"}
      BY <1>7 DEF Taken, Slice, Attempt
    <2> QED
      BY <1>7, <2>1
  <1>9. ASSUME Sane, f.alone, Progress(pc[c], f, segs)
        PROVE  /\ InSegment(f) /\ AtChunk(f) /\ f.seg \in DOMAIN Files
               /\ b.out = "fault" \/
                    b = Attempt(BytesFrom((Begins(f.seg) + at) * SectorSize, m * SectorSize), "ok")
    <2>1. f.rest > 0 /\ f.entry = "full" /\ segs[f.seg].cursor = At("chunk", f.at \div ChunkSectors)
      BY <1>1, <1>9 DEF Progress, AtEntry
    <2>2. InSegment(f) /\ AtChunk(f) /\ IsIn(f.at, f.seg, f.tab) /\ f.seg \in DOMAIN Files
      BY <1>2, <1>9, <2>1, InTheTable, TableAt
    <2>3. ReadsTheChunk(f, reads)
      BY <1>9, <2>1, <2>2
    <2>4. CASE a.out = "fault"
      BY <1>7, <2>2, <2>4
    <2>5. CASE a = Attempt(ChunkData(f.seg, f.at \div ChunkSectors), "ok")
      <3>1. a.out = "ok" /\ a.gives = ChunkData(f.seg, at \div ChunkSectors)
        BY <1>5, <2>5 DEF Attempt
      <3>2. b = Taken(ChunkData(f.seg, at \div ChunkSectors), at % ChunkSectors, m, cuts)
        BY <1>5, <1>7, <3>1
      <3>3. (at % ChunkSectors) + m <= ChunkSectors
        BY <1>5, <1>6
      <3> HIDE DEF b
      <3>4. b = Attempt(BytesFrom((Begins(f.seg) + at) * SectorSize, m * SectorSize), "ok")
        BY <2>2, <3>2, <3>3, TakenIs
      <3> QED
        BY <2>2, <3>4
    <2> QED
      BY <2>3, <2>4, <2>5 DEF ReadsTheChunk
  <1>10. CASE b.out = "fault"
    <2>1. Fault(c)
      BY <1>3, <1>10
    <2>2. PICK err \in FaultErrors : End(c, <<>>, err, TRUE)
      BY <2>1 DEF Fault
    <2>3. EndsRight(f, <<>>, err, TRUE)
      BY <2>2 DEF EndsRight
    <2> QED
      BY <1>2, <1>4, <2>2, <2>3, EndMore
  <1>11. CASE b.out = "ok"
    <2> DEFINE h == [f EXCEPT !.buf = f.buf \o b.gives, !.at = f.at + n, !.rest = f.rest - n]
    <2>1. Goto(c, "chunk", h)
      BY <1>3, <1>11
    <2>2. h.alone = f.alone /\ h.call = f.call
      BY <1>2 DEF Frames
    <2>3. ASSUME Sane, f.alone, Progress(pc[c], f, segs)
          PROVE  Progress("chunk", h, segs')
      <3>1. InSegment(f) /\ AtChunk(f) /\ f.seg \in DOMAIN Files
        BY <1>9, <2>3
      <3>2. b.gives = BytesFrom((Begins(f.seg) + at) * SectorSize, m * SectorSize)
        BY <1>9, <1>11, <2>3 DEF Attempt
      <3>3. Begins(f.seg) \in Nat /\ SectorsIn(f.seg) \in Nat
        BY <3>1, FileAt DEF LiesAt
      <3>4. PICK k \in Nat : HasTables(f.seg, k) /\ f.tab \in 1..k
        BY <1>2, <2>3, TableAt
      <3>5. Start(f.seg, f.tab) \in Nat /\ Ends(f.seg, f.tab) \in Nat
        BY <3>4 DEF HasTables, Ends
      <3>6. f.buf \o b.gives \in Seq(Int)
        <4>1. (Begins(f.seg) + at) * SectorSize \in Nat /\ m * SectorSize \in Nat
          <5>1. Begins(f.seg) + at \in Nat /\ SectorSize \in Nat
            BY <3>3, ReadAtAssumption
          <5> QED
            BY <5>1, Product
        <4>2. f.buf \in Seq(Int)
          BY <1>2, FrameFields
        <4>3. PICK u \in Nat, v \in Nat :
                u = (Begins(f.seg) + at) * SectorSize /\ v = m * SectorSize
          BY <4>1
        <4>4. b.gives = BytesFrom(u, v)
          BY <3>2, <4>3
        <4>5. u \in Int /\ v \in Nat
          OBVIOUS
        <4>6. BytesFrom(u, v) \in Seq(Int)
          BY <4>5, BytesType
        <4> HIDE DEF b
        <4> QED
          BY <4>2, <4>4, <4>6, ConcatProperties
      <3>7. PICK a2 \in Nat, r2 \in Nat : a2 = at + m /\ r2 = r - m
        BY <1>6
      <3>8. PICK buf \in Seq(Int) : buf = f.buf \o b.gives
        BY <3>6, Zenon
      <3>9. h = [f EXCEPT !.buf = buf, !.at = a2, !.rest = r2]
        BY <1>5, <1>6, <3>7, <3>8, Zenon
      <3> HIDE DEF h, b, n, first
      <3>10. /\ h \in Frames /\ h.off = f.off /\ h.len = f.len /\ h.seg = f.seg /\ h.tab = f.tab
             /\ h.sector = f.sector /\ h.count = f.count /\ h.left = f.left
             /\ h.at = a2 /\ h.rest = r2 /\ h.buf = buf
        BY <1>2, <3>9 DEF Frames
      <3>11. /\ m <= f.rest /\ h.at = f.at + m /\ h.rest = f.rest - m
             /\ h.buf = f.buf \o BytesFrom((Begins(f.seg) + f.at) * SectorSize, m * SectorSize)
        BY <1>5, <1>6, <3>2, <3>7, <3>8, <3>10
      <3>12. InSegment(h) /\ AtChunk(h)
        <4> HIDE DEF f
        <4> QED
          BY <1>2, <3>1, <3>3, <3>5, <3>10, <3>11, ReadsOn
      <3> QED
        BY <3>12 DEF Progress, InTable, AtEntry
    <2> HIDE DEF h, f
    <2> QED
      BY <1>2, <1>4, <2>1, <2>2, <2>3, GotoMore DEF f
  <1>12. CASE b.out \in {"error", "panic"}
    <2>1. Return(c, <<>>, b.out)
      BY <1>3, <1>12
    <2>2. ~(Sane /\ f.alone /\ Progress(pc[c], f, segs))
      BY <1>9, <1>12 DEF Attempt
    <2>3. End(c, <<>>, b.out, FALSE)
      BY <2>1 DEF Return
    <2> HIDE DEF b
    <2> QED
      BY <1>2, <1>4, <2>2, <2>3, EndMore
  <1> QED
    BY <1>8, <1>10, <1>11, <1>12

(***************************************************************************)
(* Opening, and the beginning of a call.                                   *)
(***************************************************************************)
LEMMA SameMore ==
    ASSUME NEW counted, More(counted), UNCHANGED <<opened, segs, pc, frame, result>>
    PROVE  More(counted)'
  <1>1. /\ opened' = opened /\ segs' = segs /\ pc' = pc
        /\ frame' = frame /\ result' = result
    OBVIOUS
  <1>2. Opened'
    BY <1>1, Zenon DEF More, Opened
  <1>3. \A c \in Clients : Calling(c)'
    BY <1>1, Zenon DEF More, Calling
  <1>4. \A i \in 1..Len(segs') : Kept(segs'[i], counted)
    BY <1>1, Zenon DEF More
  <1>5. \A i, t : Filled(i, t)' <=> Filled(i, t)
    BY <1>1, Zenon DEF Filled
  <1>6. Sane' <=> Sane
    <2>1. \A i : GoodSegment(segs[i])' <=> GoodSegment(segs[i])
      BY <1>1, Zenon DEF GoodSegment, TablesUpTo
    <2> QED
      BY <1>1, <1>5, <2>1, Zenon DEF Sane
  <1>7. Pristine' <=> Pristine
    BY <1>1, <1>6, Zenon DEF Pristine
  <1>8. \A c \in Clients : (Goes(c)' <=> Goes(c)) /\ (WentRight(c)' <=> WentRight(c))
    BY <1>1, Zenon DEF Goes, WentRight, IsRight
  <1> QED
    BY <1>2, <1>3, <1>4, <1>6, <1>7, <1>8, Zenon DEF More

LEMMA InitMore == ASSUME NEW counted, Init PROVE More(counted)
  <1>1. /\ opened = "no" /\ segs = <<>>
        /\ pc = [c \in Clients |-> "idle"] /\ frame = [c \in Clients |-> NoCall]
        /\ result = [c \in Clients |-> NoOutcome]
    BY DEF Init
  <1>2. Opened
    BY <1>1 DEF Opened
  <1>3. \A c \in Clients : Calling(c)
    BY <1>1 DEF Calling
  <1>4. \A i \in 1..Len(segs) : Kept(segs[i], counted)
    BY <1>1, EmptySeq
  <1>5. ~Sane /\ ~Pristine
    BY <1>1 DEF Sane, Pristine
  <1> QED
    BY <1>2, <1>3, <1>4, <1>5 DEF More

\* A segment that has only been found.
LEMMA NewSegmentKept ==
    ASSUME NEW f \in DOMAIN Files, NEW counted
    PROVE  Kept(NewSegment(f), counted)
  <1> DEFINE s == NewSegment(f)
  <1>1. /\ s.file = f /\ s.decoded = FALSE /\ s.tables = <<>> /\ s.tableOffsets = <<>>
        /\ s.cursor.n = 1
    BY DEF NewSegment, At
  <1> HIDE DEF s
  <1>2. TablesUpTo(s, 0)
    BY <1>1, EmptySeq DEF TablesUpTo
  <1>3. TablesDone(s.file, s.cursor.n) = 0
    BY <1>1 DEF TablesDone
  <1>4. 0 \in 0..Len(Files[s.file])
    <2>1. Len(Files[f]) \in Nat
      BY FilesType, LenProperties
    <2> QED
      BY <1>1, <2>1
  <1>5. Kept(s, counted)
    BY <1>2, <1>3, <1>4 DEF Kept
  <1> QED
    BY <1>5 DEF s

LEMMA OpenEWFMore ==
    ASSUME NEW counted, Inv(counted), More(counted), NEW decodes, OpenEWF(decodes),
           \A f \in DOMAIN Files : \A a \in decodes[f] : DecodesTo(a, NewSegment(f), <<>>),
           \A f \in DOMAIN Files : \A a \in decodes[f] : a.out = "ok" => Kept(a.gives, counted)
    PROVE  More(counted)'
  <1> DEFINE Opens(order, a) ==
        /\ opened' = CASE a.out = "ok" -> "yes" [] a.out = "panic" -> "panic"
                       [] OTHER -> "no"
        /\ segs' = IF a.out = "ok"
                   THEN <<a.gives>> \o [i \in 1..(Len(order) - 1) |-> NewSegment(order[i + 1])]
                   ELSE <<>>
        /\ faults' = faults + (IF a.out = "fault" THEN 1 ELSE 0)
  <1>1. PICK fs \in Given : \E order \in Sorted(fs) :
          \E a \in decodes[Head(order)] : Opens(order, a)
    BY DEF OpenEWF
  <1>2. PICK order \in Sorted(fs) : \E a \in decodes[Head(order)] : Opens(order, a)
    BY <1>1
  <1>3. PICK a \in decodes[Head(order)] : Opens(order, a)
    BY <1>2
  <1>4. opened = "no" /\ pc' = pc /\ frame' = frame /\ result' = result
    BY DEF OpenEWF
  <1>5. order \in Seq(DOMAIN Files) /\ Len(order) # 0 /\ Len(order) = Len(fs)
    BY SortedType
  <1>6. Head(order) \in DOMAIN Files
    BY <1>5, EmptySeq, HeadTailProperties
  <1>7. DecodesTo(a, NewSegment(Head(order)), <<>>) /\ (a.out = "ok" => Kept(a.gives, counted))
    BY <1>6
  <1>8. \A c \in Clients : pc[c] = "idle" /\ result[c] = NoOutcome
    BY <1>4 DEF Inv, More, Opened
  <1>9. \A c, d \in Clients : c # d => Len(order) = 1
    BY <1>5, ReaderAssumption
  <1>10. PICK n \in Nat : Len(order) = n + 1 /\ n + 1 \in Nat
    <2>1. PICK k \in Nat : Len(order) = k
      BY <1>5, LenProperties
    <2>2. k - 1 \in Nat /\ k = (k - 1) + 1
      BY <1>5, <2>1
    <2> QED
      BY <2>1, <2>2
  <1> DEFINE rest == [i \in 1..n |-> NewSegment(order[i + 1])]
  <1>11. opened' = "yes" =>
           /\ Len(segs') = n + 1 /\ segs'[1] = a.gives /\ a.gives.decoded /\ Kept(a.gives, counted)
           /\ \A i \in 1..(n + 1) : i # 1 => segs'[i] = rest[i - 1]
    <2> HAVE opened' = "yes"
    <2>1. a.out = "ok"
      BY <1>3
    <2>2. (Len(order) - 1) = n
      BY <1>10
    <2>3. segs' = <<a.gives>> \o rest
      BY <1>3, <2>1, <2>2
    <2>4. a.gives \in Segment /\ a.gives.decoded
      BY <1>7, <2>1 DEF DecodesTo, SegmentOK
    <2>5. rest \in Seq(Segment) /\ Len(rest) = n
      <3>1. rest \in [1..n -> Segment]
        <4> SUFFICES ASSUME NEW i \in 1..n PROVE NewSegment(order[i + 1]) \in Segment
          OBVIOUS
        <4>1. order[i + 1] \in DOMAIN Files
          <5>1. i + 1 \in 1..Len(order)
            BY <1>10
          <5> QED
            BY <1>5, <5>1, ElementOfSeq
        <4> QED
          BY <4>1, NewSegmentOK DEF SegmentOK
      <3> QED
        BY <3>1, SeqDef, LenProperties
    <2>6. <<a.gives>> \in Seq(Segment) /\ Len(<<a.gives>>) = 1 /\ <<a.gives>>[1] = a.gives
      BY <2>4
    <2> HIDE DEF rest
    <2> DEFINE ss == <<a.gives>> \o rest
    <2>7. /\ Len(ss) = Len(<<a.gives>>) + Len(rest)
          /\ \A i \in 1..(Len(<<a.gives>>) + Len(rest)) :
               ss[i] = IF i <= Len(<<a.gives>>) THEN <<a.gives>>[i]
                       ELSE rest[i - Len(<<a.gives>>)]
      BY <2>5, <2>6, ConcatProperties, Zenon
    <2>8. Len(ss) = n + 1 /\ \A i \in 1..(n + 1) : ss[i] = IF i = 1 THEN a.gives ELSE rest[i - 1]
      BY <2>5, <2>6, <2>7
    <2>9. 1 \in 1..(n + 1)
      OBVIOUS
    <2> HIDE DEF ss
    <2>10. segs' = ss
      BY <2>3 DEF ss
    <2> QED
      BY <1>7, <2>1, <2>4, <2>8, <2>9, <2>10
  <1>12. opened' # "yes" => segs' = <<>>
    BY <1>3
  <1> HIDE DEF Opens
  <1>13. Opened'
    <2>1. opened' = "yes" => Len(segs') > 0 /\ segs'[1].decoded
      BY <1>11
    <2>2. opened' = "yes" => \A c, d \in Clients : c # d => Len(segs') = 1
      BY <1>9, <1>10, <1>11
    <2>3. \A c \in Clients : result'[c] = NoOutcome
      BY <1>4, <1>8
    <2> QED
      BY <2>1, <2>2, <2>3 DEF Opened
  <1>14. \A c \in Clients : Calling(c)'
    BY <1>4, <1>8 DEF Calling
  <1>15. \A i \in 1..Len(segs') : Kept(segs'[i], counted)
    <2> TAKE i \in 1..Len(segs')
    <2>1. CASE opened' # "yes"
      BY <1>12, <2>1, EmptySeq
    <2>2. CASE opened' = "yes" /\ i = 1
      BY <1>11, <2>2
    <2>3. CASE opened' = "yes" /\ i # 1
      <3>1. i \in 1..(n + 1) /\ i - 1 \in 1..n /\ (i - 1) + 1 = i /\ i \in 1..Len(order)
        BY <1>10, <1>11, <2>3
      <3>2. segs'[i] = NewSegment(order[i])
        BY <1>11, <2>3, <3>1
      <3>3. order[i] \in DOMAIN Files
        BY <1>5, <3>1, ElementOfSeq
      <3> QED
        BY <3>2, <3>3, NewSegmentKept
    <2> QED
      BY <2>1, <2>2, <2>3
  <1>16. \A c \in Clients : Goes(c)' /\ WentRight(c)'
    BY <1>4, <1>8 DEF Goes, WentRight, IsRight
  <1> QED
    BY <1>13, <1>14, <1>15, <1>16 DEF More

LEMMA BeginMore ==
    ASSUME NEW counted, Inv(counted), More(counted), NEW c \in Clients,
           opened = "yes", pc[c] = "idle", NEW place \in {"find", "asked"}, NEW call \in Frames,
           Begin(c, place, call),
           place = "asked" => call.call = "Segment",
           place = "find" => call.call \in {"ReadAt", "Read"} /\ (Sane => AtFind(call))
    PROVE  More(counted)'
  <1> DEFINE g == [call EXCEPT !.alone = Others(c) = {}]
             quiet(d) == [frame[d] EXCEPT !.alone = FALSE]
  <1>1. /\ pc' = [pc EXCEPT ![c] = place]
        /\ frame' = [d \in Clients |-> IF d = c THEN g
                                       ELSE IF d \in Others(c) THEN quiet(d) ELSE frame[d]]
        /\ result' = [result EXCEPT ![c] = NoOutcome]
        /\ opened' = opened /\ segs' = segs
    BY DEF Begin
  <1>2. pc \in [Clients -> Places] /\ frame \in [Clients -> Frames] /\ result \in [Clients -> Results]
    BY DEF Inv
  <1>3. pc'[c] = place /\ result'[c] = NoOutcome /\ frame'[c] = g
    BY <1>1, <1>2
  <1>4. ASSUME NEW d \in Clients, d # c
        PROVE  /\ pc'[d] = pc[d] /\ result'[d] = result[d]
               /\ frame'[d].seg = frame[d].seg /\ frame'[d].tab = frame[d].tab
               /\ frame'[d].call = frame[d].call
               /\ pc[d] = "idle" => frame'[d] = frame[d]
               /\ pc[d] # "idle" => frame'[d].alone = FALSE
    <2>1. pc'[d] = pc[d] /\ result'[d] = result[d]
      BY <1>1, <1>2, <1>4
    <2>2. CASE pc[d] = "idle"
      <3>1. d \notin Others(c)
        BY <2>2 DEF Others
      <3> HIDE DEF g, quiet
      <3>2. frame'[d] = frame[d]
        BY <1>1, <1>4, <3>1
      <3> QED
        BY <2>1, <2>2, <3>2
    <2>3. CASE pc[d] # "idle"
      <3>1. d \in Others(c)
        BY <1>4, <2>3 DEF Others
      <3> DEFINE h == quiet(d)
      <3> HIDE DEF g
      <3>2. frame'[d] = h
        BY <1>1, <1>4, <3>1
      <3>3. frame[d] \in Frames
        BY <1>2
      <3>4. h.seg = frame[d].seg /\ h.tab = frame[d].tab /\ h.call = frame[d].call /\ h.alone = FALSE
        BY <3>3 DEF Frames
      <3> HIDE DEF h
      <3> QED
        BY <2>1, <2>3, <3>2, <3>4
    <2> QED
      BY <2>2, <2>3
  <1>5. /\ g.call = call.call /\ g.off = call.off /\ g.len = call.len /\ g.seg = call.seg
        /\ g.sector = call.sector /\ g.count = call.count /\ g.buf = call.buf
        /\ g.rest = call.rest /\ g.alone = (Others(c) = {})
    BY DEF Frames
  <1>6. g.alone => \A d \in Clients : d # c => pc'[d] = "idle"
    BY <1>4, <1>5 DEF Others
  <1> HIDE DEF g, quiet
  <1>7. Opened'
    BY <1>1 DEF Opened, More
  <1>8. \A d \in Clients : Calling(d)'
    <2> TAKE d \in Clients
    <2>1. CASE d = c
      BY <1>3, <1>5, <1>6, <2>1 DEF Calling
    <2>2. CASE d # c
      BY <1>4, <2>2, Zenon DEF Calling, More
    <2> QED
      BY <2>1, <2>2
  <1>9. \A i \in 1..Len(segs') : Kept(segs'[i], counted)
    BY <1>1 DEF More
  <1>10. ASSUME NEW i \in 1..Len(segs), NEW t \in 1..Len(segs[i].tables), Filled(i, t)'
         PROVE  Filled(i, t)
    BY <1>1, <1>3, <1>4, <1>10, Zenon DEF Filled
  <1>11. Sane' => Sane
    BY <1>1, <1>10 DEF Sane
  <1>12. Pristine' => Pristine
    BY <1>1, <1>11 DEF Pristine
  <1>13. ASSUME Sane', NEW d \in Clients
         PROVE  Goes(d)'
    <2>1. CASE d = c
      <3>1. place = "find" => AtFind(g)
        BY <1>5, <1>11, <1>13 DEF AtFind, First
      <3> QED
        BY <1>3, <2>1, <3>1 DEF Goes, Progress, InTable, AtEntry
    <2>2. CASE d # c
      BY <1>4, <2>2 DEF Goes
    <2> QED
      BY <2>1, <2>2
  <1>14. ASSUME Pristine', NEW d \in Clients
         PROVE  WentRight(d)'
    <2>1. CASE d = c
      BY <1>3, <2>1 DEF WentRight
    <2>2. CASE d # c
      <3>1. WentRight(d)
        BY <1>12, <1>14 DEF More
      <3> QED
        BY <1>4, <2>2, <3>1 DEF WentRight, IsRight
    <2> QED
      BY <2>1, <2>2
  <1> QED
    BY <1>7, <1>8, <1>9, <1>13, <1>14 DEF More

LEMMA BeginReadMore ==
    ASSUME NEW counted, Inv(counted), More(counted), NEW c \in Clients, Idle(c),
           NEW call \in {"ReadAt", "Read"}, NEW off \in Nat, NEW len \in Nat,
           BeginRead(c, call, off, len)
    PROVE  More(counted)'
  <1> DEFINE f == [NoCall EXCEPT !.call = call, !.off = off, !.len = len, !.seg = 1,
                                 !.sector = off \div SectorSize,
                                 !.count = SectorsAsked(off, len)]
  <1>1. off \div SectorSize \in Nat /\ SectorsAsked(off, len) \in Nat
    <2>1. SectorSize \in Nat \ {0}
      BY ReadAtAssumption
    <2>2. off % SectorSize \in Nat
      BY <2>1
    <2>3. PICK k \in Nat : k = (IF FromSectorStart THEN off % SectorSize ELSE 0) + len
      BY <2>2
    <2>4. (k + SectorSize - 1) \div SectorSize \in Nat
      BY <2>1
    <2> QED
      BY <2>1, <2>3, <2>4 DEF SectorsAsked, CeilDiv
  <1>2. NoCall \in Frames
    BY NoCallType, Zenon
  <1>3. f \in Frames
    BY <1>1, <1>2 DEF Frames
  <1>4. /\ f.off = off /\ f.len = len /\ f.seg = 1 /\ f.sector = off \div SectorSize
        /\ f.count = SectorsAsked(off, len) /\ f.buf = <<>> /\ f.rest = 0 /\ f.call = call
    BY DEF NoCall
  <1>5. Begin(c, "find", f)
    BY DEF BeginRead
  <1> HIDE DEF f
  <1>6. AtFind(f)
    <2>1. PICK n \in Nat : Len(Files) = n /\ IsLaidOut(n)
      BY ImageType
    <2>2. Begins(1) = 0 /\ 1 \in 1..(Len(Files) + 1)
      BY <2>1 DEF IsLaidOut
    <2> QED
      BY <1>1, <1>4, <2>2 DEF AtFind, First
  <1> QED
    BY <1>3, <1>4, <1>5, <1>6, BeginMore DEF Idle

LEMMA CallMore ==
    ASSUME NEW counted, Inv(counted), More(counted), NEW c \in Clients, Call(c)
    PROVE  More(counted)'
  <1>1. CASE CallReadAt(c)
    <2>1. PICK off \in Offsets, len \in Lengths : BeginRead(c, "ReadAt", off, len)
      BY <1>1 DEF CallReadAt
    <2>2. off \in Nat /\ len \in Nat /\ Idle(c)
      BY <1>1, ReaderAssumption DEF CallReadAt
    <2> QED
      BY <2>1, <2>2, BeginReadMore
  <1>2. CASE CallRead(c)
    <2>1. PICK len \in Lengths : BeginRead(c, "Read", position, len)
      BY <1>2 DEF CallRead
    <2>2. position \in Nat /\ len \in Nat /\ Idle(c)
      BY <1>2, ReaderAssumption DEF Inv, CallRead
    <2> QED
      BY <2>1, <2>2, BeginReadMore
  <1>3. CASE CallSegment(c)
    <2>1. PICK i \in DOMAIN segs :
            Begin(c, "asked", [NoCall EXCEPT !.call = "Segment", !.seg = i])
      BY <1>3, Zenon DEF CallSegment
    <2> DEFINE f == [NoCall EXCEPT !.call = "Segment", !.seg = i]
    <2>2. i \in Nat
      BY LenProperties DEF Inv, SegsOK
    <2>3. f \in Frames /\ f.call = "Segment"
      BY <2>2, NoCallType, Zenon DEF Frames
    <2>4. Begin(c, "asked", f)
      BY <2>1
    <2> HIDE DEF f
    <2> QED
      BY <1>3, <2>3, <2>4, BeginMore DEF CallSegment, Idle
  <1>4. CASE Seek(c)
    BY <1>4, SameMore DEF Seek
  <1> QED
    BY <1>1, <1>2, <1>3, <1>4 DEF Call

(***************************************************************************)
(* EWFSegment.Decode.                                                      *)
(***************************************************************************)
\* elem.Prev() is decoded, or its end is 0.
LEMMA DecodeStep ==
    ASSUME NEW counted, Inv(counted), NEW c \in Clients,
           frame[c].seg \in DOMAIN segs, ~segs[frame[c].seg].decoded,
           NEW a, DecodesTo(a, SegmentOf(c), LinkOf(c)),
           segs' = [segs EXCEPT ![frame[c].seg] = a.gives]
    PROVE  SegsStep
  <1> DEFINE i == frame[c].seg
  <1>1. segs' = [segs EXCEPT ![i] = a.gives]
    OBVIOUS
  <1>2. i \in DOMAIN segs /\ ~segs[i].decoded
    OBVIOUS
  <1>3. i \in 1..Len(segs) /\ Len(segs) \in Nat /\ \A k \in 1..Len(segs) : SegmentOK(segs[k])
    BY <1>2, OfCall
  <1>4. DecodesTo(a, segs[i], LinkOf(c))
    BY DEF SegmentOf
  <1>5. Later(segs[i], a.gives)
    BY <1>2, <1>4 DEF Later, DecodesTo
  <1>6. a.gives.sectorOffset = 0 \/
          (i > 1 /\ segs[i - 1].decoded
             /\ a.gives.sectorOffset = segs[i - 1].sectorOffset + segs[i - 1].sectorCount)
    <2>1. CASE ~a.gives.decoded
      BY <1>4, <2>1 DEF DecodesTo, SegmentOK
    <2>2. CASE a.gives.decoded /\ i = 1
      BY <1>4, <2>2 DEF DecodesTo, LinkOf, LinkEnd
    <2>3. CASE a.gives.decoded /\ i # 1
      <3>1. i - 1 \in 1..Len(segs)
        BY <1>3, <2>3
      <3>2. LinkOf(c) = <<segs[i - 1]>>
        BY <2>3 DEF LinkOf
      <3>3. LinkEnd(LinkOf(c)) = segs[i - 1].sectorOffset + segs[i - 1].sectorCount
        BY <3>2 DEF LinkEnd
      <3>4. ~segs[i - 1].decoded =>
               segs[i - 1].sectorOffset = 0 /\ segs[i - 1].sectorCount = 0
        BY <1>3, <3>1 DEF SegmentOK
      <3> QED
        BY <1>3, <1>4, <2>3, <3>3, <3>4 DEF DecodesTo
    <2> QED
      BY <2>1, <2>2, <2>3
  <1>7. SegmentOK(a.gives)
    BY <1>4 DEF DecodesTo
  <1>8. SegsOK(segs)
    BY DEF Inv
  <1> HIDE DEF i
  <1>9. PICK new : new = a.gives
    OBVIOUS
  <1>10. SegsOK([segs EXCEPT ![i] = new]) /\ Stays(segs, [segs EXCEPT ![i] = new])
    BY <1>3, <1>5, <1>6, <1>7, <1>8, <1>9, ReplaceSegment
  <1> QED
    BY <1>1, <1>9, <1>10 DEF SegsStep

\* A Decode that fails, but for a read that failed, leaves a segment that shows it.
FailsForGood(a) ==
    a.out \in {"error", "panic"} => ~a.gives.decoded /\ a.gives.cursor.at # "section"

LEMMA DecodeSegmentMore ==
    ASSUME NEW counted, Inv(counted), More(counted), NEW c \in Clients, NEW decodes,
           DecodeSegment(c, decodes),
           \A a \in decodes : DecodesTo(a, SegmentOf(c), LinkOf(c)),
           \A a \in decodes : Kept(a.gives, counted),
           \A a \in decodes : FailsForGood(a)
    PROVE  More(counted)'
  <1> DEFINE i == frame[c].seg
  <1>1. PICK a \in decodes :
          /\ segs' = [segs EXCEPT ![i] = a.gives]
          /\ CASE a.out = "ok" -> UNCHANGED <<pc, frame, position, result, faults>>
               [] a.out = "fault" -> Fault(c)
               [] OTHER -> Return(c, <<>>, a.out) /\ UNCHANGED faults
    BY DEF DecodeSegment
  <1>2. /\ i \in DOMAIN segs /\ ~segs[i].decoded /\ opened' = opened
        /\ pc[c] \in {"find", "segment", "asked"}
    BY DEF DecodeSegment
  <1>3. i \in 1..Len(segs) /\ segs \in Seq(Segment) /\ pc[c] # "idle"
    BY <1>2, OfCall DEF SegsOK
  <1>4. DecodesTo(a, SegmentOf(c), LinkOf(c)) /\ Kept(a.gives, counted) /\ FailsForGood(a)
    OBVIOUS
  <1>5. segs'[i] = a.gives /\ \A j \in 1..Len(segs) : j # i => segs'[j] = segs[j]
    BY <1>1, <1>3, LenProperties
  <1>6. SegsStep
    BY <1>1, <1>2, <1>4, DecodeStep
  <1>7. Len(segs') = Len(segs)
    BY <1>6 DEF SegsStep, Stays
  <1> HIDE DEF i
  <1>8. EntriesKept(c)
    BY <1>2, <1>5 DEF EntriesKept
  <1>9. SegsKept(c, counted)
    <2>1. \A j \in 1..Len(segs') : Kept(segs'[j], counted)
      BY <1>4, <1>5, <1>7 DEF More
    <2> QED
      BY <1>2, <1>6, <1>8, <2>1 DEF SegsKept
  <1>10. CASE a.out = "ok"
    <2>1. pc' = pc /\ frame' = frame /\ result' = result
      BY <1>1, <1>10
    <2>2. OthersStay(c) /\ ResultsStay(c) /\ Comes(c)
      BY <1>2, <2>1 DEF OthersStay, ResultsStay, Comes
    <2>3. Calling(c)'
      BY <2>1 DEF Calling, More
    <2>4. Sane' => Goes(c)'
      <3> HAVE Sane'
      <3>1. Goes(c)
        BY <1>9, <2>2, SaneBefore DEF More
      <3> QED
        BY <1>2, <2>1, <3>1 DEF Goes, Progress, InTable, AtEntry
    <2>5. WentRight(c)'
      BY <1>3, <2>1 DEF WentRight
    <2> QED
      BY <1>3, <1>9, <2>2, <2>3, <2>4, <2>5, StepMore
  <1>11. CASE a.out = "fault"
    <2>1. Fault(c)
      BY <1>1, <1>11
    <2>2. PICK err \in FaultErrors : End(c, <<>>, err, TRUE)
      BY <2>1 DEF Fault
    <2>3. EndsRight(frame[c], <<>>, err, TRUE)
      BY <2>2 DEF EndsRight
    <2> QED
      BY <1>3, <1>9, <2>2, <2>3, EndMore
  <1>12. CASE a.out \in {"error", "panic"}
    <2>1. End(c, <<>>, a.out, FALSE)
      BY <1>1, <1>12 DEF Return
    <2>2. ~Pristine'
      BY <1>3, <1>4, <1>5, <1>7, <1>12 DEF Pristine, FailsForGood
    <2> QED
      BY <1>3, <1>9, <2>1, <2>2, EndMore
  <1> QED
    BY <1>4, <1>10, <1>11, <1>12 DEF DecodesTo

(***************************************************************************)
(* The chunk a sector is in.                                               *)
(***************************************************************************)
\* A quotient is the only one.
LEMMA QuotientIs ==
    ASSUME NEW cs \in Nat \ {0}, NEW m \in Nat, NEW r \in Nat, r < cs
    PROVE  (m * cs + r) \div cs = m
  <1>1. PICK a \in Nat : a = m * cs + r
    <2>1. m * cs \in Nat
      BY Product
    <2> QED
      BY <2>1
  <1>2. PICK d \in Nat, q \in Nat : d = a \div cs /\ q = a % cs /\ q < cs /\ a = cs * d + q
    BY Quotient
  <1>r. r < cs
    OBVIOUS
  <1>3. PICK u \in Nat, v \in Nat : u = m * cs /\ v = d * cs /\ cs * d = v
    BY Product, ProductEither
  <1>4. u + r = v + q
    BY <1>1, <1>2, <1>3
  <1>5. ~(m < d)
    <2> SUFFICES ASSUME m < d PROVE FALSE
      OBVIOUS
    <2>1. m + 1 \in Nat /\ m + 1 <= d
      OBVIOUS
    <2>2. (m + 1) * cs <= d * cs
      BY <2>1, ProductGrows
    <2>3. (m + 1) * cs = m * cs + 1 * cs
      BY ProductOfSum
    <2>4. u + cs <= v
      BY <1>3, <2>2, <2>3
    <2> QED
      BY <1>r, <1>4, <2>4
  <1>6. ~(d < m)
    <2> SUFFICES ASSUME d < m PROVE FALSE
      OBVIOUS
    <2>1. d + 1 \in Nat /\ d + 1 <= m
      OBVIOUS
    <2>2. (d + 1) * cs <= m * cs
      BY <2>1, ProductGrows
    <2>3. (d + 1) * cs = d * cs + 1 * cs
      BY ProductOfSum
    <2>4. v + cs <= u
      BY <1>3, <2>2, <2>3
    <2> QED
      BY <1>2, <1>4, <2>4
  <1>7. d = m
    BY <1>5, <1>6
  <1> QED
    BY <1>1, <1>2, <1>7

\* In chunks, a sector of some chunks behind the first s is as far behind them.
IsBehind(cs, s, cnt, at) ==
    /\ (at - s * cs) \div cs = (at \div cs) - s
    /\ (at \div cs) - s \in 0..(cnt - 1)
    /\ s + ((at \div cs) - s) = at \div cs

Spans(cs, s, cnt, at) == s * cs <= at /\ at < s * cs + cnt * cs

LEMMA ChunkOfSector ==
    ASSUME NEW cs \in Nat \ {0}, NEW s \in Nat, NEW cnt \in Nat, NEW at \in Nat,
           Spans(cs, s, cnt, at)
    PROVE  IsBehind(cs, s, cnt, at)
  <1>1. PICK q \in Nat, r \in Nat : q = at \div cs /\ r = at % cs /\ r < cs /\ at = cs * q + r
    BY Quotient
  <1>2. PICK u \in Nat, v \in Nat, w \in Nat : u = s * cs /\ v = q * cs /\ cs * q = v /\ w = cnt * cs
    BY Product, ProductEither
  <1>3. at = v + r /\ u <= at /\ at < u + w
    BY <1>1, <1>2 DEF Spans
  <1>4. ~(q < s)
    <2> SUFFICES ASSUME q < s PROVE FALSE
      OBVIOUS
    <2>1. q + 1 \in Nat /\ q + 1 <= s
      OBVIOUS
    <2>2. (q + 1) * cs <= s * cs
      BY <2>1, ProductGrows
    <2>3. (q + 1) * cs = q * cs + 1 * cs
      BY ProductOfSum
    <2>4. v + cs <= u
      BY <1>2, <2>2, <2>3
    <2> QED
      BY <1>1, <1>3, <2>4
  <1>5. ~(s + cnt <= q)
    <2> SUFFICES ASSUME s + cnt <= q PROVE FALSE
      OBVIOUS
    <2>1. s + cnt \in Nat /\ (s + cnt) * cs <= q * cs
      BY ProductGrows
    <2>2. (s + cnt) * cs = s * cs + cnt * cs
      BY ProductOfSum
    <2>3. u + w <= v
      BY <1>2, <2>1, <2>2
    <2> QED
      BY <1>3, <2>3
  <1>6. PICK m \in Nat : m = q - s /\ q = m + s /\ m \in 0..(cnt - 1) /\ s + m = q
    BY <1>4, <1>5
  <1>7. v = m * cs + u
    <2>1. (m + s) * cs = m * cs + s * cs
      BY ProductOfSum
    <2> QED
      BY <1>2, <1>6, <2>1
  <1>8. PICK x \in Nat : x = m * cs
    BY Product
  <1>9. at - u = x + r
    BY <1>3, <1>7, <1>8
  <1>10. (x + r) \div cs = m
    BY <1>1, <1>8, QuotientIs
  <1>11. (at - s * cs) \div cs = m
    BY <1>2, <1>9, <1>10
  <1>12. (at \div cs) - s = m
    BY <1>1, <1>6
  <1> QED
    BY <1>1, <1>6, <1>11, <1>12 DEF IsBehind

\* The entry of a sector in a good table, as evf1 counts it and as evf2 does.
LEMMA IndexIs ==
    ASSUME NEW t, NEW f \in DOMAIN Files, NEW m \in Nat, Len(Files[f]) = m, NEW tab \in 1..m,
           IsGoodTable(t, f, tab), NEW at \in Nat, IsIn(at, f, tab)
    PROVE  /\ IndexEvf1(at, t) = (at \div ChunkSectors) - t.first
           /\ IndexEvf1(at, t) \in 0..(t.count - 1)
           /\ t.first + IndexEvf1(at, t) = at \div ChunkSectors
           /\ t.first \in Nat
  <1>1. PICK cs \in Nat \ {0} : cs = ChunkSectors
    BY ReaderAssumption
  <1>2. Files[f] \in Seq(Nat) /\ tab \in DOMAIN Files[f]
    BY FilesType, LenProperties
  <1>3. PICK s \in Nat, cnt \in Nat : s = TableStart[f][tab] /\ cnt = Files[f][tab]
    BY <1>2, TableStartType, ElementOfSeq
  <1>4. /\ t.sectorOffset = s * cs /\ t.count = cnt /\ t.first = s
        /\ s * cs <= at /\ at < s * cs + cnt * cs
    BY <1>1, <1>3 DEF IsGoodTable, IsIn, Start, Ends, SectorsOfTable
  <1>5. /\ (at - s * cs) \div cs = (at \div cs) - s
        /\ (at \div cs) - s \in 0..(cnt - 1)
        /\ s + ((at \div cs) - s) = at \div cs
    <2>1. Spans(cs, s, cnt, at)
      BY <1>4 DEF Spans
    <2>2. IsBehind(cs, s, cnt, at)
      BY <2>1, ChunkOfSector
    <2> QED
      BY <2>2 DEF IsBehind
  <1>6. PICK u \in Nat : u = s * cs
    BY Product
  <1>7. ~(at < u)
    BY <1>4, <1>6
  <1>8. IndexEvf1(at, t) = (at - u) \div cs
    BY <1>1, <1>4, <1>6, <1>7 DEF IndexEvf1
  <1> QED
    BY <1>1, <1>4, <1>5, <1>6, <1>8

(***************************************************************************)
(* What each reader finds at a sector of an intact segment.                *)
(***************************************************************************)
AtItsEntry(c) ==
    Sane /\ IsIn(frame[c].at, frame[c].seg, frame[c].tab)

\* Both count to the same entry, which is one of the table's and the chunk's.
LEMMA IndexAt ==
    ASSUME NEW counted, Inv(counted), NEW c \in Clients, pc[c] \in InTable, AtItsEntry(c)
    PROVE  /\ IndexEvf1(frame[c].at, Table(c)) \in 0..(Table(c).count - 1)
           /\ Evf2!IndexEvf2(frame[c].at, Table(c)) \in 0..(Table(c).count - 1)
           /\ Table(c).first + IndexEvf1(frame[c].at, Table(c)) = frame[c].at \div ChunkSectors
           /\ segs[frame[c].seg].file = frame[c].seg
  <1> DEFINE f == frame[c]
             t == Table(c)
  <1>1. Sane /\ IsIn(f.at, f.seg, f.tab)
    BY DEF AtItsEntry
  <1>2. /\ IsGoodTable(t, f.seg, f.tab) /\ f.seg \in DOMAIN Files /\ segs[f.seg].file = f.seg
        /\ \E m \in Nat : Len(Files[f.seg]) = m /\ HasTables(f.seg, m) /\ f.tab \in 1..m
    BY <1>1, TableAt
  <1>3. PICK m \in Nat : Len(Files[f.seg]) = m /\ f.tab \in 1..m
    BY <1>2
  <1>4. f.at \in Nat
    BY OfCall, FrameFields
  <1> HIDE DEF f, t
  <1>5. PICK at \in Nat, s \in DOMAIN Files, tab \in 1..m : at = f.at /\ s = f.seg /\ tab = f.tab
    BY <1>2, <1>3, <1>4
  <1>6. /\ IndexEvf1(at, t) = (at \div ChunkSectors) - t.first
        /\ IndexEvf1(at, t) \in 0..(t.count - 1)
        /\ t.first + IndexEvf1(at, t) = at \div ChunkSectors
    BY <1>1, <1>2, <1>3, <1>5, IndexIs
  <1>7. Evf2!IndexEvf2(at, t) = IndexEvf1(at, t)
    BY <1>6 DEF Evf2!IndexEvf2
  <1> QED
    BY <1>2, <1>5, <1>6, <1>7 DEF f, t

\* An entry that was read is the place of the chunk.
LEMMA SeekEvf1Finds ==
    ASSUME Inv(TRUE), NEW c \in Clients, pc[c] = "seek",
           AtItsEntry(c), frame[c].entry = "full", NEW a \in SeekEvf1(frame[c])
    PROVE  a.cursor = At("chunk", frame[c].at \div ChunkSectors) /\ a.out = "ok"
  <1>1. Table(c).first + IndexEvf1(frame[c].at, Table(c)) = frame[c].at \div ChunkSectors
    BY IndexAt DEF InTable
  <1>2. EntryOf(frame[c]).chunk = frame[c].at \div ChunkSectors
    BY <1>1 DEF EntryOf, Table
  <1>3. a = [cursor |-> At("chunk", EntryOf(frame[c]).chunk), out |-> "ok"]
    BY DEF SeekEvf1
  <1> QED
    BY <1>2, <1>3

LEMMA ReadEvf1Reads ==
    ASSUME NEW counted, Inv(counted), NEW c \in Clients, pc[c] = "data",
           AtItsEntry(c), frame[c].entry = "full",
           segs[frame[c].seg].cursor = At("chunk", frame[c].at \div ChunkSectors)
    PROVE  ReadsTheChunk(frame[c], ReadEvf1(frame[c]))
  <1> DEFINE f == frame[c]
             k == f.at \div ChunkSectors
  <1>1. Table(c).first + IndexEvf1(f.at, Table(c)) = k /\ segs[f.seg].file = f.seg
    BY IndexAt DEF InTable
  <1>2. EntryOf(f).chunk = k
    BY <1>1 DEF EntryOf, Table
  <1>3. segs[f.seg].cursor.n = k /\ segs[f.seg].cursor.at = "chunk" /\ f.entry = "full"
    BY DEF At
  <1> HIDE DEF f, k
  <1>4. ReadEvf1(f) = ChunkFaults \cup {Attempt(ChunkData(f.seg, k), "ok")}
    BY <1>1, <1>2, <1>3 DEF ReadEvf1
  <1>5. \A a \in ChunkFaults : a.out = "fault"
    BY DEF ChunkFaults, Attempt
  <1> QED
    BY <1>4, <1>5 DEF ReadsTheChunk, f, k

LEMMA SeekEvf2Finds ==
    ASSUME NEW c \in Clients, frame[c].entry = "full", NEW a \in Evf2!SeekEvf2(frame[c])
    PROVE  a.cursor = At("chunk", frame[c].at \div ChunkSectors) /\ a.out = "ok"
  BY Evf2At DEF Evf2!SeekEvf2

LEMMA ReadEvf2Reads ==
    ASSUME NEW counted, Inv(counted), NEW c \in Clients, pc[c] = "data",
           AtItsEntry(c), frame[c].entry = "full",
           segs[frame[c].seg].cursor = At("chunk", frame[c].at \div ChunkSectors)
    PROVE  ReadsTheChunk(frame[c], Evf2!ReadEvf2(frame[c]))
  <1> DEFINE f == frame[c]
             k == f.at \div ChunkSectors
  <1>1. segs[f.seg].file = f.seg
    BY IndexAt DEF InTable
  <1>2. segs[f.seg].cursor.n = k /\ segs[f.seg].cursor.at = "chunk" /\ f.entry = "full"
    BY DEF At
  <1>3. f.at \div ChunkSectors = k
    OBVIOUS
  <1> HIDE DEF f, k
  <1>4. Evf2!ReadEvf2(f) = ChunkFaults \cup {Attempt(ChunkData(f.seg, k), "ok")}
    BY <1>1, <1>2, <1>3, Evf2Attempt, Evf2ChunkData, Evf2ChunkFaults DEF Evf2!ReadEvf2
  <1>5. \A a \in ChunkFaults : a.out = "fault"
    BY DEF ChunkFaults, Attempt
  <1> QED
    BY <1>4, <1>5 DEF ReadsTheChunk, f, k

(***************************************************************************)
(* The tables among the sections of a file.                                *)
(***************************************************************************)
TableIn(x) == IF x.at = "table" THEN <<x.n>> ELSE <<>>

LEMMA TableInType ==
    ASSUME NEW x \in Sections
    PROVE  TableIn(x) \in Seq(Nat)
  <1>1. x.n \in Nat
    BY DEF Sections
  <1>2. <<x.n>> \in Seq(Nat)
    BY <1>1
  <1> QED
    BY <1>2, EmptySeq DEF TableIn

LEMMA TablesInNat ==
    ASSUME NEW s \in Seq(Sections)
    PROVE  TablesIn(s) \in Seq(Nat)
  <1>1. \A i \in DOMAIN s : s[i].at = "table" => s[i].n \in Nat
    <2> TAKE i \in DOMAIN s
    <2>1. s[i] \in Sections
      BY LenProperties, ElementOfSeq
    <2> QED
      BY <2>1 DEF Sections
  <1> QED
    BY <1>1, TablesInType

LEMMA TablesInAppend ==
    ASSUME NEW s \in Seq(Sections), NEW x \in Sections
    PROVE  TablesIn(Append(s, x)) = TablesIn(s) \o TableIn(x)
  <1> DEFINE tt == Append(s, x)
             ones == [i \in DOMAIN s |-> TableIn(s[i])]
             all == [i \in DOMAIN tt |-> TableIn(tt[i])]
  <1>1. PICK n \in Nat : Len(s) = n /\ DOMAIN s = 1..n /\ \A i \in 1..n : s[i] \in Sections
    BY LenProperties, ElementOfSeq
  <1>2. /\ tt \in Seq(Sections) /\ Len(tt) = n + 1 /\ tt[n + 1] = x
        /\ \A i \in 1..n : tt[i] = s[i]
    BY <1>1, AppendProperties
  <1>3. DOMAIN tt = 1..(n + 1)
    BY <1>2, LenProperties
  <1> HIDE DEF tt
  <1>4. ones \in [1..n -> Seq(Nat)] /\ \A i \in 1..n : ones[i] = TableIn(s[i])
    BY <1>1, TableInType
  <1>5. /\ all \in [1..(n + 1) -> Seq(Nat)] /\ all[n + 1] = TableIn(x)
        /\ \A i \in 1..n : all[i] = ones[i]
    <2>1. \A i \in 1..(n + 1) : tt[i] \in Sections
      BY <1>2, ElementOfSeq
    <2>2. all \in [1..(n + 1) -> Seq(Nat)]
      BY <1>3, <2>1, TableInType
    <2>3. \A i \in 1..(n + 1) : all[i] = TableIn(tt[i])
      BY <1>3
    <2> QED
      BY <1>1, <1>2, <2>2, <2>3
  <1>6. TablesIn(s) = FlattenSeq(ones) /\ TablesIn(tt) = FlattenSeq(all)
    BY DEF TablesIn, TableIn
  <1> HIDE DEF ones, all
  <1>7. ones \in Seq(Seq(Nat)) /\ Len(ones) = n
    BY <1>4, SeqDef, LenProperties
  <1>8. all \in Seq(Seq(Nat)) /\ Len(all) = n + 1
    BY <1>5, SeqDef, LenProperties
  <1>9. all = Append(ones, TableIn(x))
    <2> DEFINE new == Append(ones, TableIn(x))
    <2>1. TableIn(x) \in Seq(Nat)
      BY TableInType
    <2>2. /\ new \in Seq(Seq(Nat)) /\ Len(new) = n + 1 /\ new[n + 1] = TableIn(x)
          /\ \A i \in 1..n : new[i] = ones[i]
      BY <1>7, <2>1, AppendProperties
    <2> HIDE DEF new
    <2>3. \A i \in 1..(n + 1) : all[i] = new[i]
      <3> TAKE i \in 1..(n + 1)
      <3>1. i \in 1..n \/ i = n + 1
        OBVIOUS
      <3> QED
        BY <1>5, <2>2, <3>1
    <2>4. all = new
      BY <1>8, <2>2, <2>3, SeqEqual
    <2> QED
      BY <2>4 DEF new
  <1>10. TableIn(x) \in Seq(Nat)
    BY TableInType
  <1>11. FlattenSeq(Append(ones, TableIn(x))) = FlattenSeq(ones) \o TableIn(x)
    BY <1>7, <1>10, FlattenAppend
  <1> QED
    BY <1>6, <1>9, <1>11 DEF tt

\* A part of a sequence that ends one later.
LEMMA PartAppend ==
    ASSUME NEW S, NEW s \in Seq(S), NEW i \in Nat, NEW j \in Nat, i + j + 1 <= Len(s)
    PROVE  SubSeq(s, i + 1, i + (j + 1)) = Append(SubSeq(s, i + 1, i + j), s[i + (j + 1)])
  <1> DEFINE t == SubSeq(s, i + 1, i + (j + 1))
             u == SubSeq(s, i + 1, i + j)
             v == Append(u, s[i + (j + 1)])
  <1>1. PICK n \in Nat : Len(s) = n
    BY LenProperties
  <1>2. /\ t \in Seq(S) /\ Len(t) = j + 1
        /\ \A k \in 1..(j + 1) : t[k] = s[i + k]
    <2>1. j + 1 \in Nat /\ (j + 1 # 0 => i + (j + 1) <= Len(s))
      BY <1>1
    <2> QED
      BY <2>1, PartOfSeq
  <1>3. u \in Seq(S) /\ Len(u) = j /\ \A k \in 1..j : u[k] = s[i + k]
    <2>1. j # 0 => i + j <= Len(s)
      BY <1>1
    <2> QED
      BY <2>1, PartOfSeq
  <1>4. s[i + (j + 1)] \in S
    <2>1. i + (j + 1) \in 1..Len(s)
      BY <1>1
    <2> QED
      BY <2>1, ElementOfSeq
  <1> HIDE DEF t, u
  <1>5. /\ v \in Seq(S) /\ Len(v) = j + 1 /\ v[j + 1] = s[i + (j + 1)]
        /\ \A k \in 1..j : v[k] = u[k]
    BY <1>3, <1>4, AppendProperties
  <1> HIDE DEF v
  <1>6. \A k \in 1..(j + 1) : t[k] = v[k]
    <2> TAKE k \in 1..(j + 1)
    <2>1. k \in 1..j \/ k = j + 1
      OBVIOUS
    <2> QED
      BY <1>2, <1>3, <1>5, <2>1
  <1>7. t = v
    BY <1>2, <1>5, <1>6, SeqEqual
  <1> QED
    BY <1>7 DEF t, u, v

LEMMA TablesInConcat ==
    ASSUME NEW s \in Seq(Sections), NEW t \in Seq(Sections)
    PROVE  TablesIn(s \o t) = TablesIn(s) \o TablesIn(t)
  <1>1. PICK n \in Nat : Len(t) = n
    BY LenProperties
  <1> DEFINE part(j) == SubSeq(t, 1, j)
             S == {j \in Nat : j <= n => TablesIn(s \o part(j)) = TablesIn(s) \o TablesIn(part(j))}
  <1>2. \A j \in Nat : j <= n => part(j) \in Seq(Sections)
    BY <1>1, PrefixType
  <1>3. TablesIn(s) \in Seq(Nat)
    BY TablesInNat
  <1>4. 0 \in S
    <2>1. part(0) = <<>>
      BY SubSeqEmpty
    <2>2. s \o <<>> = s
      BY ConcatEmptySeq
    <2>3. TablesIn(<<>>) = <<>>
      <3>1. [i \in DOMAIN <<>> |-> IF <<>>[i].at = "table" THEN <<<<>>[i].n>> ELSE <<>>] = <<>>
        OBVIOUS
      <3> QED
        BY <3>1, FlattenEmpty DEF TablesIn
    <2>4. TablesIn(s) \o <<>> = TablesIn(s)
      BY <1>3, ConcatEmptySeq
    <2> QED
      BY <2>1, <2>2, <2>3, <2>4
  <1>5. ASSUME NEW j \in Nat, j \in S
        PROVE  j + 1 \in S
    <2> SUFFICES ASSUME j + 1 <= n
                 PROVE  TablesIn(s \o part(j + 1)) = TablesIn(s) \o TablesIn(part(j + 1))
      OBVIOUS
    <2>1. PICK x \in Sections : x = t[j + 1]
      <3>1. j + 1 \in 1..n
        OBVIOUS
      <3> QED
        BY <1>1, <3>1, ElementOfSeq
    <2>2. part(j + 1) = Append(part(j), x)
      <3>1. 0 + j + 1 <= Len(t)
        BY <1>1
      <3>2. SubSeq(t, 0 + 1, 0 + (j + 1)) = Append(SubSeq(t, 0 + 1, 0 + j), t[0 + (j + 1)])
        BY <3>1, PartAppend
      <3> QED
        BY <2>1, <3>2
    <2>3. TablesIn(s \o part(j)) = TablesIn(s) \o TablesIn(part(j))
      BY <1>5
    <2>4. PICK p \in Seq(Sections) : p = part(j)
      <3>1. j <= n
        OBVIOUS
      <3>2. part(j) \in Seq(Sections)
        BY <1>2, <3>1
      <3> QED
        BY <3>2
    <2> HIDE DEF part, S
    <2>5. s \o Append(p, x) = Append(s \o p, x) /\ s \o p \in Seq(Sections)
      BY ConcatAppend, ConcatProperties
    <2>6. TablesIn(Append(s \o p, x)) = TablesIn(s \o p) \o TableIn(x)
      BY <2>5, TablesInAppend
    <2>7. TablesIn(Append(p, x)) = TablesIn(p) \o TableIn(x)
      BY TablesInAppend
    <2>8. (TablesIn(s) \o TablesIn(p)) \o TableIn(x) = TablesIn(s) \o (TablesIn(p) \o TableIn(x))
      BY <1>3, TablesInNat, TableInType, Associative
    <2> QED
      BY <2>2, <2>3, <2>4, <2>5, <2>6, <2>7, <2>8
  <1>6. Nat \subseteq S
    <2> HIDE DEF S
    <2> QED
      BY <1>4, <1>5, SetInduction
  <1>7. TablesIn(s \o part(n)) = TablesIn(s) \o TablesIn(part(n))
    BY <1>6
  <1> QED
    BY <1>1, <1>7, SubSeqFull

\* The sections behind the first lo are those of the m tables, in order.
IsNumbered(s, lo, m) ==
    \A i \in 1..Len(s) : TableIn(s[i]) = IF lo < i /\ i <= lo + m THEN <<i - lo>> ELSE <<>>

\* How many tables are among the first i sections.
TablesAmong(lo, m, i) == IF i <= lo THEN 0 ELSE IF i > lo + m THEN m ELSE i - lo

LEMMA TablesAmongNext ==
    ASSUME NEW lo \in Nat, NEW m \in Nat, NEW p \in Nat
    PROVE  /\ TablesAmong(lo, m, p) \in 0..m /\ TablesAmong(lo, m, p + 1) \in 0..m
           /\ lo < p + 1 /\ p + 1 <= lo + m =>
                TablesAmong(lo, m, p + 1) = TablesAmong(lo, m, p) + 1 /\ TablesAmong(lo, m, p) = p - lo
           /\ ~(lo < p + 1 /\ p + 1 <= lo + m) =>
                TablesAmong(lo, m, p + 1) = TablesAmong(lo, m, p)
  BY DEF TablesAmong

LEMMA TablesAmongType ==
    ASSUME NEW lo \in Nat, NEW m \in Nat, NEW p \in Nat
    PROVE  TablesAmong(lo, m, p) \in Nat /\ TablesAmong(lo, m, p) <= m
  BY DEF TablesAmong

LEMMA TableInIs ==
    ASSUME NEW s \in Seq(Sections), NEW lo \in Nat, NEW m \in Nat, IsNumbered(s, lo, m),
           NEW p \in Nat, p + 1 <= Len(s)
    PROVE  TableIn(s[p + 1]) = Numbers(TablesAmong(lo, m, p) + 1,
                                       TablesAmong(lo, m, p + 1) - TablesAmong(lo, m, p))
  <1>1. PICK a \in Nat, b \in Nat : a = TablesAmong(lo, m, p) /\ b = TablesAmong(lo, m, p + 1)
    <2>1. p + 1 \in Nat
      OBVIOUS
    <2>2. TablesAmong(lo, m, p) \in Nat /\ TablesAmong(lo, m, p + 1) \in Nat
      BY <2>1, TablesAmongType
    <2> QED
      BY <2>2
  <1>2. p + 1 \in 1..Len(s)
    BY LenProperties
  <1>3. TableIn(s[p + 1]) = IF lo < p + 1 /\ p + 1 <= lo + m THEN <<(p + 1) - lo>> ELSE <<>>
    BY <1>2 DEF IsNumbered
  <1>4. CASE lo < p + 1 /\ p + 1 <= lo + m
    <2>1. b = a + 1 /\ a = p - lo
      BY <1>1, <1>4, TablesAmongNext
    <2>2. b - a = 1 /\ (p + 1) - lo = a + 1
      BY <2>1
    <2>3. Numbers(a + 1, 1) = <<a + 1>>
      BY DEF Numbers
    <2> QED
      BY <1>1, <1>3, <1>4, <2>2, <2>3
  <1>5. CASE ~(lo < p + 1 /\ p + 1 <= lo + m)
    <2>1. b = a
      BY <1>1, <1>5, TablesAmongNext
    <2>2. b - a = 0
      BY <2>1
    <2>3. Numbers(a + 1, 0) = <<>>
      BY NumbersAre
    <2> QED
      BY <1>1, <1>3, <1>5, <2>2, <2>3
  <1> QED
    BY <1>4, <1>5

\* The tables among some of the sections go on from those before.
IsRun(s, lo, m, i, j) ==
    /\ TablesIn(SubSeq(s, i + 1, i + j)) =
         Numbers(TablesAmong(lo, m, i) + 1, TablesAmong(lo, m, i + j) - TablesAmong(lo, m, i))
    /\ TablesAmong(lo, m, i) <= TablesAmong(lo, m, i + j)

LEMMA TablesInPart ==
    ASSUME NEW s \in Seq(Sections), NEW lo \in Nat, NEW m \in Nat, IsNumbered(s, lo, m),
           NEW i \in Nat, NEW k \in Nat, k # 0 => i + k <= Len(s)
    PROVE  IsRun(s, lo, m, i, k)
  <1>1. PICK n \in Nat : Len(s) = n
    BY LenProperties
  <1> DEFINE S == {j \in Nat : j <= k => IsRun(s, lo, m, i, j)}
  <1>2. 0 \in S
    <2>1. SubSeq(s, i + 1, i + 0) = <<>>
      BY SubSeqEmpty
    <2>2. TablesIn(<<>>) = <<>>
      <3>1. [x \in DOMAIN <<>> |-> IF <<>>[x].at = "table" THEN <<<<>>[x].n>> ELSE <<>>] = <<>>
        OBVIOUS
      <3> QED
        BY <3>1, FlattenEmpty DEF TablesIn
    <2>3. PICK a \in Nat : a = TablesAmong(lo, m, i)
      BY TablesAmongType
    <2>4. Numbers(a + 1, 0) = <<>> /\ a - a = 0 /\ i + 0 = i /\ a <= a
      BY NumbersAre
    <2>5. IsRun(s, lo, m, i, 0)
      BY <2>1, <2>2, <2>3, <2>4 DEF IsRun
    <2> QED
      BY <2>5
  <1>3. ASSUME NEW j \in Nat, j \in S
        PROVE  j + 1 \in S
    <2> SUFFICES ASSUME j + 1 <= k PROVE IsRun(s, lo, m, i, j + 1)
      OBVIOUS
    <2>1. IsRun(s, lo, m, i, j)
      BY <1>3
    <2> HIDE DEF S
    <2>2. PICK p \in Nat : p = i + j /\ p + 1 = i + (j + 1) /\ p + 1 <= n /\ i + j + 1 <= n
      BY <1>1
    <2>3. PICK a \in Nat, b \in Nat, c \in Nat :
            /\ a = TablesAmong(lo, m, i) /\ b = TablesAmong(lo, m, p)
            /\ c = TablesAmong(lo, m, p + 1) /\ (c = b \/ c = b + 1)
      <3>1. p + 1 \in Nat
        OBVIOUS
      <3>2. /\ TablesAmong(lo, m, i) \in Nat /\ TablesAmong(lo, m, p) \in Nat
            /\ TablesAmong(lo, m, p + 1) \in Nat
        BY <3>1, TablesAmongType
      <3>3. \/ TablesAmong(lo, m, p + 1) = TablesAmong(lo, m, p)
            \/ TablesAmong(lo, m, p + 1) = TablesAmong(lo, m, p) + 1
        BY TablesAmongNext
      <3> QED
        BY <3>2, <3>3
    <2>4. a <= b
      <3>1. TablesAmong(lo, m, i) <= TablesAmong(lo, m, p)
        BY <2>1, <2>2, Zenon DEF IsRun
      <3> QED
        BY <2>3, <3>1
    <2>5. SubSeq(s, i + 1, i + (j + 1)) = Append(SubSeq(s, i + 1, i + j), s[i + (j + 1)])
      BY <1>1, <2>2, PartAppend
    <2>6. SubSeq(s, i + 1, i + j) \in Seq(Sections)
      <3>1. j # 0 => i + j <= n
        BY <2>2
      <3> QED
        BY <1>1, <3>1, PartOfSeq
    <2>7. s[p + 1] \in Sections
      <3>1. p + 1 \in 1..n
        BY <2>2
      <3> QED
        BY <1>1, <3>1, ElementOfSeq
    <2>8. PICK x \in Sections : x = s[p + 1]
      BY <2>7
    <2>9. TablesIn(SubSeq(s, i + 1, i + (j + 1))) = TablesIn(SubSeq(s, i + 1, i + j)) \o TableIn(x)
      BY <2>2, <2>5, <2>6, <2>8, TablesInAppend
    <2>10. TableIn(x) = Numbers(b + 1, c - b)
      <3>1. p + 1 <= Len(s)
        BY <1>1, <2>2
      <3>2. TableIn(s[p + 1]) = Numbers(TablesAmong(lo, m, p) + 1,
                                        TablesAmong(lo, m, p + 1) - TablesAmong(lo, m, p))
        BY <3>1, TableInIs
      <3> QED
        <4>1. TablesAmong(lo, m, p) + 1 = b + 1
          BY <2>3
        <4>2. TablesAmong(lo, m, p + 1) - TablesAmong(lo, m, p) = c - b
          BY <2>3
        <4> QED
          BY <2>8, <3>2, <4>1, <4>2, Zenon
    <2>11. TablesIn(SubSeq(s, i + 1, i + j)) = Numbers(a + 1, b - a)
      BY <2>1, <2>2, <2>3 DEF IsRun
    <2>12. PICK d \in Nat, e \in Nat :
             d = b - a /\ e = c - b /\ (a + 1) + d = b + 1 /\ d + e = c - a /\ a <= c
      <3>1. b - a \in Nat
        BY <2>4
      <3>2. c - b \in Nat
        BY <2>3
      <3>3. PICK d \in Nat, e \in Nat : d = b - a /\ e = c - b
        BY <3>1, <3>2
      <3>4. b = a + d /\ c = b + e
        BY <3>3
      <3> QED
        BY <3>3, <3>4
    <2>13. Numbers(a + 1, d) \o Numbers((a + 1) + d, e) = Numbers(a + 1, d + e)
      <3>1. a + 1 \in Nat
        OBVIOUS
      <3> QED
        BY <3>1, NumbersConcat
    <2>14. TablesIn(SubSeq(s, i + 1, i + (j + 1))) = Numbers(a + 1, c - a)
      BY <2>9, <2>10, <2>11, <2>12, <2>13
    <2> QED
      BY <2>2, <2>3, <2>12, <2>14 DEF IsRun
  <1>4. Nat \subseteq S
    <2> HIDE DEF S
    <2> QED
      BY <1>2, <1>3, SetInduction
  <1> QED
    BY <1>4

\* The sections of a file, in evf1 and in evf2.
FirstSections(f) == IF f = 1 THEN 1 ELSE 0

LEMMA SectionsNumbered ==
    ASSUME NEW f \in DOMAIN Files, NEW m \in Nat, Len(Files[f]) = m
    PROVE  /\ SectionsOf[f] \in Seq(Sections) /\ Len(SectionsOf[f]) = FirstSections(f) + m + 1
           /\ IsNumbered(SectionsOf[f], FirstSections(f), m)
           /\ \A i \in 1..Len(SectionsOf[f]) :
                SectionsOf[f][i].at = "volume" <=> f = 1 /\ i = 1
  <1> DEFINE before == IF f = 1 THEN <<At("volume", 0)>> ELSE <<>>
             tables == [t \in DOMAIN Files[f] |-> At("table", t)]
             after == <<At("done", 0)>>
             lo == FirstSections(f)
  <1>1. DOMAIN Files[f] = 1..m /\ f \in Nat
    BY FilesType, LenProperties
  <1>2. At("volume", 0) \in Sections /\ At("done", 0) \in Sections
        /\ \A t \in 1..m : At("table", t) \in Sections
    BY DEF At, Sections
  <1>3. /\ before \in Seq(Sections) /\ Len(before) = lo /\ lo \in {0, 1} /\ (lo = 1 <=> f = 1)
        /\ \A i \in 1..lo : before[i] = At("volume", 0)
    <2>1. CASE f = 1
      <3>1. before = <<At("volume", 0)>>
        BY <2>1
      <3> QED
        BY <1>2, <2>1, <3>1 DEF FirstSections
    <2>2. CASE f # 1
      <3>1. before = <<>>
        BY <2>2
      <3> QED
        BY <2>2, <3>1, EmptySeq DEF FirstSections
    <2> QED
      BY <2>1, <2>2
  <1>4. tables \in Seq(Sections) /\ Len(tables) = m /\ \A i \in 1..m : tables[i] = At("table", i)
    <2>1. tables \in [1..m -> Sections] /\ \A i \in 1..m : tables[i] = At("table", i)
      BY <1>1, <1>2
    <2> HIDE DEF tables
    <2> QED
      BY <2>1, SeqDef, LenProperties
  <1>5. after \in Seq(Sections) /\ Len(after) = 1 /\ after[1] = At("done", 0)
    BY <1>2
  <1>6. SectionsOf[f] = (before \o tables) \o after
    BY DEF SectionsOf
  <1> HIDE DEF before, tables, after, lo
  <1>7. /\ before \o tables \in Seq(Sections) /\ Len(before \o tables) = lo + m
        /\ \A i \in 1..(lo + m) : (before \o tables)[i] = IF i <= lo THEN before[i] ELSE tables[i - lo]
    BY <1>3, <1>4, ConcatProperties
  <1>8. /\ SectionsOf[f] \in Seq(Sections) /\ Len(SectionsOf[f]) = lo + m + 1
        /\ \A i \in 1..(lo + m + 1) :
             SectionsOf[f][i] = IF i <= lo + m THEN (before \o tables)[i] ELSE after[i - (lo + m)]
    <2>1. PICK k \in Nat : k = lo + m
      BY <1>3
    <2>2. PICK u \in Seq(Sections) : u = before \o tables /\ Len(u) = k
      BY <1>7, <2>1
    <2>3. /\ u \o after \in Seq(Sections) /\ Len(u \o after) = Len(u) + Len(after)
          /\ \A i \in 1..(Len(u) + Len(after)) :
               (u \o after)[i] = IF i <= Len(u) THEN u[i] ELSE after[i - Len(u)]
      BY <1>5, ConcatProperties, Zenon
    <2> QED
      BY <1>5, <1>6, <2>1, <2>2, <2>3
  <1>9. ASSUME NEW i \in 1..(lo + m + 1)
        PROVE  SectionsOf[f][i] = IF i <= lo THEN At("volume", 0)
                                  ELSE IF i <= lo + m THEN At("table", i - lo) ELSE At("done", 0)
    <2>1. CASE i <= lo
      <3>1. i \in 1..lo /\ i \in 1..(lo + m) /\ i <= lo + m
        BY <1>3, <2>1
      <3> QED
        BY <1>3, <1>7, <1>8, <2>1, <3>1
    <2>2. CASE ~(i <= lo) /\ i <= lo + m
      <3>1. i - lo \in 1..m /\ i \in 1..(lo + m)
        BY <1>3, <2>2
      <3> QED
        BY <1>4, <1>7, <1>8, <2>2, <3>1
    <2>3. CASE ~(i <= lo + m)
      <3>1. i - (lo + m) = 1 /\ ~(i <= lo)
        BY <1>3, <2>3
      <3> QED
        BY <1>5, <1>8, <2>3, <3>1
    <2> QED
      BY <2>1, <2>2, <2>3
  <1>10. IsNumbered(SectionsOf[f], lo, m)
    <2>1. ASSUME NEW i \in 1..(lo + m + 1)
          PROVE  TableIn(SectionsOf[f][i]) = IF lo < i /\ i <= lo + m THEN <<i - lo>> ELSE <<>>
      <3>1. i \in Nat /\ lo \in Nat /\ i - lo \in Int
        BY <1>3
      <3>2. CASE i <= lo
        <4>1. SectionsOf[f][i] = At("volume", 0) /\ ~(lo < i)
          BY <1>9, <3>1, <3>2
        <4> QED
          BY <4>1 DEF TableIn, At
      <3>3. CASE lo < i /\ i <= lo + m
        <4>1. SectionsOf[f][i] = At("table", i - lo)
          BY <1>9, <3>1, <3>3
        <4> QED
          BY <3>3, <4>1 DEF TableIn, At
      <3>4. CASE ~(i <= lo + m)
        <4>1. SectionsOf[f][i] = At("done", 0)
          BY <1>9, <3>1, <3>4
        <4> QED
          BY <3>4, <4>1 DEF TableIn, At
      <3> QED
        BY <3>1, <3>2, <3>3, <3>4
    <2> QED
      BY <1>8, <2>1 DEF IsNumbered
  <1>11. ASSUME NEW i \in 1..(lo + m + 1)
         PROVE  SectionsOf[f][i].at = "volume" <=> f = 1 /\ i = 1
    <2>1. i <= lo <=> f = 1 /\ i = 1
      BY <1>3
    <2>3. i <= lo => SectionsOf[f][i] = At("volume", 0)
      BY <1>9
    <2>4. ~(i <= lo) => SectionsOf[f][i] \in {At("table", i - lo), At("done", 0)}
      BY <1>9
    <2>5. /\ At("volume", 0).at = "volume" /\ At("table", i - lo).at = "table"
          /\ At("done", 0).at = "done"
      BY DEF At
    <2> QED
      BY <2>1, <2>3, <2>4, <2>5
  <1> QED
    BY <1>8, <1>10, <1>11 DEF lo

(***************************************************************************)
(* Tables added to those a segment has.                                    *)
(***************************************************************************)
\* What Decode adds to a segment; the other fields are not looked at.
Adds(new, seg, ts) ==
    /\ new.file = seg.file
    /\ new.tables = seg.tables \o TablesOf(seg.file, ts)
    /\ new.tableOffsets = seg.tableOffsets \o SubSeq(OffsetsOf(seg.file, ts), 2, Len(ts))

LEMMA AddTablesAdds ==
    ASSUME NEW seg, SegmentOK(seg), NEW ts
    PROVE  Adds(AddTables(seg, ts), seg, ts)
  <1>1. seg \in Segment
    BY DEF SegmentOK
  <1> QED
    BY <1>1, AddTablesIs, Zenon DEF Adds, Segment

\* The tables of a segment that has some, and those added behind them.
LEMMA TablesAdded ==
    ASSUME NEW seg, SegmentOK(seg), NEW ts \in Seq(DOMAIN Files[seg.file]), NEW new,
           Adds(new, seg, ts), NEW k \in Nat, Len(seg.tables) = k, NEW n \in Nat, Len(ts) = n
    PROVE  /\ Len(new.tables) = k + n
           /\ \A j \in 1..k : new.tables[j] = seg.tables[j]
           /\ \A j \in 1..n : new.tables[k + j] = TablesOf(seg.file, ts)[j]
  <1> DEFINE more == TablesOf(seg.file, ts)
  <1>1. seg.tables \in Seq(Tables) /\ seg.file \in DOMAIN Files
    BY SegmentFields DEF SegmentOK
  <1>2. more \in Seq(Tables) /\ Len(more) = n
    BY <1>1, OffsetsOfType
  <1>3. new.tables = seg.tables \o more
    BY DEF Adds
  <1> HIDE DEF more
  <1>4. /\ Len(seg.tables \o more) = k + n
        /\ \A j \in 1..(k + n) :
             (seg.tables \o more)[j] = IF j <= k THEN seg.tables[j] ELSE more[j - k]
    <2>1. /\ Len(seg.tables \o more) = Len(seg.tables) + Len(more)
          /\ \A j \in 1..(Len(seg.tables) + Len(more)) :
               (seg.tables \o more)[j] =
                  IF j <= Len(seg.tables) THEN seg.tables[j] ELSE more[j - Len(seg.tables)]
      BY <1>1, <1>2, ConcatProperties, Zenon
    <2> QED
      BY <1>2, <2>1
  <1>5. \A j \in 1..k : new.tables[j] = seg.tables[j]
    <2> TAKE j \in 1..k
    <2>1. j \in 1..(k + n) /\ j <= k
      OBVIOUS
    <2> QED
      BY <1>3, <1>4, <2>1
  <1>6. \A j \in 1..n : new.tables[k + j] = more[j]
    <2> TAKE j \in 1..n
    <2>1. k + j \in 1..(k + n) /\ ~(k + j <= k) /\ (k + j) - k = j
      OBVIOUS
    <2> QED
      BY <1>3, <1>4, <2>1
  <1> QED
    BY <1>3, <1>4, <1>5, <1>6 DEF more

\* A segment that shows that it was not decoded once shows it for good.
LEMMA DamagedStays ==
    ASSUME NEW seg, SegmentOK(seg), NEW ts \in Seq(DOMAIN Files[seg.file]), NEW new,
           Adds(new, seg, ts), Damaged(seg)
    PROVE  Damaged(new)
  <1>1. PICK k \in Nat, n \in Nat : Len(seg.tables) = k /\ Len(ts) = n
    BY SegmentFields, LenProperties DEF SegmentOK
  <1>2. Len(new.tables) = k + n /\ \A j \in 1..k : new.tables[j] = seg.tables[j]
    BY <1>1, TablesAdded
  <1>3. new.file = seg.file
    BY DEF Adds
  <1>4. CASE k > Len(Files[seg.file])
    <2>1. PICK m \in Nat : Len(Files[seg.file]) = m
      BY SegmentFields, FilesType, LenProperties DEF SegmentOK
    <2>2. k + n > m
      BY <1>4, <2>1
    <2> QED
      BY <1>2, <1>3, <2>1, <2>2 DEF Damaged
  <1>5. ASSUME NEW j \in 1..k, seg.tables[j].sectorOffset # Start(seg.file, j)
        PROVE  Damaged(new)
    <2>1. j \in 1..(k + n)
      OBVIOUS
    <2> QED
      BY <1>2, <1>3, <1>5, <2>1 DEF Damaged
  <1> QED
    BY <1>1, <1>4, <1>5 DEF Damaged

\* So does one that gets tables behind those it has: their sectors are counted
\* from 0 again, or they are too many.
LEMMA MoreTablesDamage ==
    ASSUME NEW seg, SegmentOK(seg), NEW ts \in Seq(DOMAIN Files[seg.file]), NEW new,
           Adds(new, seg, ts), seg.tables # <<>>, ts # <<>>
    PROVE  Damaged(new)
  <1> DEFINE f == seg.file
  <1>1. f \in DOMAIN Files /\ seg.tables \in Seq(Tables)
    BY SegmentFields DEF SegmentOK
  <1>2. PICK k \in Nat \ {0}, n \in Nat \ {0}, m \in Nat :
          Len(seg.tables) = k /\ Len(ts) = n /\ Len(Files[f]) = m
    BY <1>1, FilesType, LenProperties, EmptySeq
  <1>3. Len(new.tables) = k + n /\ \A j \in 1..n : new.tables[k + j] = TablesOf(f, ts)[j]
    BY <1>2, TablesAdded
  <1>4. new.file = f
    BY DEF Adds
  <1>5. CASE k + n > m
    BY <1>2, <1>3, <1>4, <1>5 DEF Damaged
  <1>6. CASE k + n <= m
    <2>1. 1 \in 1..n /\ DOMAIN ts = 1..n
      BY <1>2, LenProperties
    <2>2. OffsetsOf(f, ts)[1] = 0
      <3>1. SubSeq(SectorsOf(f, ts), 1, 1 - 1) = <<>>
        BY SubSeqEmpty
      <3> QED
        BY <2>1, <3>1, TotalEmpty DEF OffsetsOf
    <2>3. new.tables[k + 1].sectorOffset = 0
      <3>1. new.tables[k + 1] = TablesOf(f, ts)[1]
        BY <1>3, <2>1
      <3>2. TablesOf(f, ts)[1] = NewTable(f, ts[1], OffsetsOf(f, ts)[1])
        BY <2>1 DEF TablesOf
      <3> QED
        BY <2>2, <3>1, <3>2 DEF NewTable
    <2>4. Start(f, k + 1) > 0
      <3>1. HasTables(f, m)
        BY <1>1, <1>2, TablesLaidOut
      <3>2. k + 1 \in 1..m /\ m > 1 /\ k + 1 > 1
        BY <1>6
      <3> QED
        BY <3>1, <3>2 DEF HasTables
    <2>5. k + 1 \in 1..(k + n)
      OBVIOUS
    <2> QED
      BY <1>3, <1>4, <2>3, <2>4, <2>5 DEF Damaged
  <1> QED
    BY <1>5, <1>6

\* The sums of the sectors of the first tables are where the tables begin.
LEMMA OffsetsAreStarts ==
    ASSUME NEW f \in DOMAIN Files, NEW m \in Nat, Len(Files[f]) = m, NEW k \in Nat, k <= m
    PROVE  /\ Numbers(1, k) \in Seq(DOMAIN Files[f]) /\ Len(Numbers(1, k)) = k
           /\ Len(OffsetsOf(f, Numbers(1, k))) = k /\ OffsetsOf(f, Numbers(1, k)) \in Seq(Nat)
           /\ \A i \in 1..k : /\ OffsetsOf(f, Numbers(1, k))[i] = Start(f, i)
                              /\ TablesOf(f, Numbers(1, k))[i] = NewTable(f, i, Start(f, i))
  <1> DEFINE ts == Numbers(1, k)
             s == SectorsOf(f, ts)
  <1>1. ts \in Seq(Nat) /\ Len(ts) = k /\ \A i \in 1..k : ts[i] = i
    <2>1. ts \in Seq(Nat) /\ Len(ts) = k /\ \A i \in 1..k : ts[i] = 1 + i - 1
      BY NumbersAre
    <2> QED
      BY <2>1
  <1>2. DOMAIN Files[f] = 1..m /\ DOMAIN ts = 1..k
    BY <1>1, FilesType, LenProperties
  <1> HIDE DEF ts
  <1>3. ts \in Seq(DOMAIN Files[f])
    <2>1. ts \in [1..k -> DOMAIN Files[f]]
      <3>1. ts \in [1..k -> Nat]
        BY <1>1, LenProperties
      <3>2. \A i \in 1..k : ts[i] \in 1..m
        BY <1>1
      <3> QED
        BY <1>2, <3>1, <3>2
    <2> QED
      BY <2>1, SeqDef
  <1>4. /\ s \in Seq(Nat) /\ Len(s) = k
        /\ OffsetsOf(f, ts) \in Seq(Nat) /\ Len(OffsetsOf(f, ts)) = k
    BY <1>1, <1>3, OffsetsOfType
  <1>5. \A i \in 1..k : s[i] = SectorsOfTable(f, i)
    BY <1>1, <1>2 DEF SectorsOf, SectorsOfTable
  <1>6. HasTables(f, m)
    BY TablesLaidOut
  <1> HIDE DEF s
  <1>7. PICK g : IsPrefixSums(g, s, k)
    BY <1>4, PrefixSums
  <1> DEFINE S == {i \in Nat : i + 1 <= k => g[i] = Start(f, i + 1)}
  <1>8. 0 \in S
    <2> SUFFICES ASSUME 0 + 1 <= k PROVE g[0] = Start(f, 0 + 1)
      OBVIOUS
    <2>1. 1 \in 1..m
      OBVIOUS
    <2>2. Start(f, 1) = 0
      BY <1>6, <2>1 DEF HasTables
    <2> QED
      BY <1>7, <2>2 DEF IsPrefixSums
  <1>9. ASSUME NEW i \in Nat, i \in S
        PROVE  i + 1 \in S
    <2> SUFFICES ASSUME (i + 1) + 1 <= k PROVE g[i + 1] = Start(f, (i + 1) + 1)
      OBVIOUS
    <2>1. i + 1 \in 1..k /\ i + 1 \in 1..m /\ i + 1 < m /\ (i + 1) - 1 = i /\ i + 1 <= k
      OBVIOUS
    <2>2. g[i] = Start(f, i + 1)
      BY <1>9, <2>1
    <2> HIDE DEF S
    <2>3. PICK j \in 1..k : j = i + 1 /\ j - 1 = i /\ j \in 1..m /\ j < m
      BY <2>1
    <2>4. g[j] = g[i] + s[j]
      BY <1>7, <2>3 DEF IsPrefixSums
    <2>5. s[j] = SectorsOfTable(f, j)
      BY <1>5
    <2>6. Start(f, j + 1) = Start(f, j) + SectorsOfTable(f, j)
      BY <1>6, <2>3 DEF HasTables
    <2> QED
      BY <2>2, <2>3, <2>4, <2>5, <2>6
  <1>10. Nat \subseteq S
    <2> HIDE DEF S
    <2> QED
      BY <1>8, <1>9, SetInduction
  <1>11. \A i \in 1..k : OffsetsOf(f, ts)[i] = Start(f, i)
    <2> TAKE i \in 1..k
    <2>1. PICK j \in Nat : j = i - 1 /\ j \in 0..k /\ j + 1 <= k /\ j + 1 = i
      OBVIOUS
    <2>2. g[j] = Start(f, j + 1)
      BY <1>10, <2>1
    <2>3. Total(SubSeq(s, 1, j)) = g[j]
      BY <1>7, <2>1 DEF IsPrefixSums
    <2> HIDE DEF S
    <2>4. OffsetsOf(f, ts)[i] = Total(SubSeq(s, 1, i - 1))
      BY <1>2 DEF OffsetsOf, s
    <2> QED
      BY <2>1, <2>2, <2>3, <2>4
  <1>12. \A i \in 1..k : TablesOf(f, ts)[i] = NewTable(f, i, Start(f, i))
    BY <1>1, <1>2, <1>11 DEF TablesOf
  <1> QED
    BY <1>1, <1>3, <1>4, <1>11, <1>12 DEF ts

\* A segment without tables gets the first k of its file.
LEMMA FirstTables ==
    ASSUME NEW seg, SegmentOK(seg), seg.tables = <<>>, NEW m \in Nat, Len(Files[seg.file]) = m,
           NEW k \in Nat, k <= m, NEW new, Adds(new, seg, Numbers(1, k))
    PROVE  TablesUpTo(new, k)
  <1> DEFINE f == seg.file
             ts == Numbers(1, k)
             os == OffsetsOf(f, ts)
  <1>1. f \in DOMAIN Files
    BY SegmentFields DEF SegmentOK
  <1>2. /\ ts \in Seq(DOMAIN Files[f]) /\ Len(ts) = k
        /\ os \in Seq(Nat) /\ Len(os) = k
        /\ \A i \in 1..k : os[i] = Start(f, i) /\ TablesOf(f, ts)[i] = NewTable(f, i, Start(f, i))
    BY <1>1, OffsetsAreStarts
  <1>3. new.file = f /\ new.tableOffsets = seg.tableOffsets \o SubSeq(os, 2, Len(ts))
        /\ Adds(new, seg, ts)
    BY DEF Adds
  <1> HIDE DEF ts
  <1>4. Len(new.tables) = k /\ \A j \in 1..k : new.tables[j] = NewTable(f, j, Start(f, j))
    <2>1. PICK z \in Nat : z = 0 /\ Len(seg.tables) = z
      BY EmptySeq
    <2>2. Len(new.tables) = z + k /\ \A j \in 1..k : new.tables[z + j] = TablesOf(f, ts)[j]
      BY <1>2, <1>3, <2>1, TablesAdded
    <2>3. z + k = k /\ \A j \in 1..k : z + j = j
      BY <2>1
    <2> QED
      BY <1>2, <2>2, <2>3
  <1> HIDE DEF os
  <1>5. new.tableOffsets = SubSeq(os, 2, k) \/ SubSeq(os, 2, k) \notin Seq(Nat)
    <2>1. seg.tableOffsets = <<>>
      BY DEF SegmentOK
    <2> QED
      BY <1>2, <1>3, <2>1, ConcatEmptySeq
  <1>6. CASE k = 0
    <2>1. SubSeq(os, 2, k) = <<>>
      BY <1>6, SubSeqEmpty
    <2>2. new.tableOffsets = <<>> /\ Len(new.tableOffsets) = 0
      BY <1>5, <2>1, EmptySeq
    <2>3. \A j \in 1..Len(new.tableOffsets) : new.tableOffsets[j] = Start(f, j + 1)
      BY <2>2
    <2>4. \A j \in 1..k : SameTable(NewTable(f, j, Start(f, j)), new.tables[j])
      BY <1>4 DEF SameTable
    <2> QED
      BY <1>3, <1>4, <1>6, <2>2, <2>3, <2>4 DEF TablesUpTo
  <1>7. CASE k # 0
    <2>1. PICK d \in Nat : d = k - 1 /\ k = 1 + d /\ (d # 0 => 1 + d <= k)
      BY <1>7
    <2>2. /\ SubSeq(os, 1 + 1, 1 + d) \in Seq(Nat) /\ Len(SubSeq(os, 1 + 1, 1 + d)) = d
          /\ \A j \in 1..d : SubSeq(os, 1 + 1, 1 + d)[j] = os[1 + j]
      BY <1>2, <2>1, PartOfSeq
    <2>3. 1 + 1 = 2
      OBVIOUS
    <2>4. /\ new.tableOffsets = SubSeq(os, 2, k) /\ Len(new.tableOffsets) = d
          /\ \A j \in 1..d : new.tableOffsets[j] = os[1 + j]
      BY <1>5, <2>1, <2>2, <2>3
    <2>5. ASSUME NEW j \in 1..d
          PROVE  new.tableOffsets[j] = Start(f, j + 1)
      <3>1. 1 + j \in 1..k /\ 1 + j = j + 1
        BY <2>1
      <3> QED
        BY <1>2, <2>4, <3>1
    <2>6. \A j \in 1..k : SameTable(NewTable(f, j, Start(f, j)), new.tables[j])
      BY <1>4 DEF SameTable
    <2>7. Len(new.tableOffsets) + 1 = k
      BY <2>1, <2>4
    <2> QED
      BY <1>3, <1>4, <1>7, <2>4, <2>5, <2>6, <2>7 DEF TablesUpTo
  <1> QED
    BY <1>6, <1>7

\* Some of the first numbers are numbers of tables.
LEMMA NumbersIn ==
    ASSUME NEW m \in Nat, NEW a \in Nat, NEW n \in Nat, a + n <= m
    PROVE  Numbers(a + 1, n) \in Seq(1..m)
  <1> DEFINE ts == Numbers(a + 1, n)
  <1>1. ts \in Seq(Nat) /\ Len(ts) = n /\ \A i \in 1..n : ts[i] = (a + 1) + i - 1
    BY NumbersAre
  <1> HIDE DEF ts
  <1>2. ts \in [1..n -> Nat]
    BY <1>1, LenProperties
  <1>3. \A i \in 1..n : ts[i] \in 1..m
    BY <1>1
  <1>4. ts \in [1..n -> 1..m]
    BY <1>2, <1>3
  <1> QED
    BY <1>4, SeqDef DEF ts

\* Nothing added.
LEMMA AddsNothing ==
    ASSUME NEW seg, SegmentOK(seg), NEW new, Adds(new, seg, <<>>)
    PROVE  /\ new.file = seg.file /\ new.tables = seg.tables
           /\ new.tableOffsets = seg.tableOffsets
  <1>1. seg.file \in DOMAIN Files /\ seg.tables \in Seq(Tables) /\ seg.tableOffsets \in Seq(Nat)
    BY SegmentFields DEF SegmentOK
  <1>2. TablesOf(seg.file, <<>>) = <<>>
    <2>1. <<>> \in Seq(DOMAIN Files[seg.file]) /\ Len(<<>>) = 0
      BY EmptySeq
    <2>2. TablesOf(seg.file, <<>>) \in Seq(Tables) /\ Len(TablesOf(seg.file, <<>>)) = 0
      BY <1>1, <2>1, OffsetsOfType
    <2> QED
      BY <2>2, EmptySeq
  <1>3. SubSeq(OffsetsOf(seg.file, <<>>), 2, Len(<<>>)) = <<>>
    BY SubSeqEmpty
  <1> QED
    BY <1>1, <1>2, <1>3, ConcatEmptySeq DEF Adds

\* What AfterSections adds, in evf1.
LEMMA AfterSectionsAdds ==
    ASSUME NEW seg, SegmentOK(seg), NEW from, NEW to, NEW cursor \in Cursors
    PROVE  LET new == [AfterSections(seg, from, to) EXCEPT !.cursor = cursor]
           IN  /\ Adds(new, seg, TablesIn(SubSeq(SectionsOf[seg.file], from, to)))
               /\ new.cursor = cursor
  <1> DEFINE ts == TablesIn(SubSeq(SectionsOf[seg.file], from, to))
             added == AddTables(seg, ts)
             v == added.volume \/ \E i \in DOMAIN SubSeq(SectionsOf[seg.file], from, to) :
                                    SubSeq(SectionsOf[seg.file], from, to)[i].at = "volume"
             new == [AfterSections(seg, from, to) EXCEPT !.cursor = cursor]
  <1>1. AfterSections(seg, from, to) = [added EXCEPT !.volume = v]
    BY DEF AfterSections
  <1>2. added = [seg EXCEPT !.tables = @ \o TablesOf(seg.file, ts),
                            !.tableOffsets = @ \o SubSeq(OffsetsOf(seg.file, ts), 2, Len(ts))]
    BY AddTablesIs, Zenon
  <1>3. seg \in Segment
    BY DEF SegmentOK
  <1>4. new = [[added EXCEPT !.volume = v] EXCEPT !.cursor = cursor]
    BY <1>1
  <1> HIDE DEF v, ts, added, new
  <1>5. /\ new.file = seg.file /\ new.cursor = cursor
        /\ new.tables = seg.tables \o TablesOf(seg.file, ts)
        /\ new.tableOffsets = seg.tableOffsets \o SubSeq(OffsetsOf(seg.file, ts), 2, Len(ts))
    BY <1>2, <1>3, <1>4 DEF Segment
  <1> QED
    BY <1>5 DEF Adds, new, ts

\* The tables done before a section, and the tables among the sections before it.
LEMMA TablesDoneAre ==
    ASSUME NEW f \in DOMAIN Files, NEW m \in Nat, NEW p \in Nat
    PROVE  /\ TablesDone(f, p + 1) \in 0..m =>
                TablesAmong(FirstSections(f), m, p) = TablesDone(f, p + 1)
           /\ p + 1 <= FirstSections(f) + m + 1 =>
                TablesAmong(FirstSections(f), m, p) = TablesDone(f, p + 1)
  <1>1. CASE f = 1
    <2>1. FirstSections(f) = 1 /\ TablesDone(f, p + 1) = IF p = 0 THEN 0 ELSE p - 1
      BY <1>1 DEF FirstSections, TablesDone
    <2>2. TablesAmong(1, m, p) = IF p <= 1 THEN 0 ELSE IF p > 1 + m THEN m ELSE p - 1
      BY DEF TablesAmong
    <2> QED
      BY <2>1, <2>2
  <1>2. CASE f # 1
    <2>1. FirstSections(f) = 0 /\ TablesDone(f, p + 1) = p
      BY <1>2 DEF FirstSections, TablesDone
    <2>2. TablesAmong(0, m, p) = IF p <= 0 THEN 0 ELSE IF p > 0 + m THEN m ELSE p - 0
      BY DEF TablesAmong
    <2> QED
      BY <2>1, <2>2
  <1> QED
    BY <1>1, <1>2

\* Decoding on from the cursor keeps what Kept says.
LEMMA AfterSectionsKept ==
    ASSUME NEW seg, SegmentOK(seg), ~seg.decoded, Kept(seg, TRUE), seg.cursor.at = "section",
           NEW i \in Nat, seg.cursor.n = i + 1, NEW to \in Nat, i <= to,
           to <= Len(SectionsOf[seg.file]), NEW cursor \in Cursors,
           cursor.at = "section" =>
             cursor.n = to + 1 /\ to + 1 <= Len(SectionsOf[seg.file])
    PROVE  Kept([AfterSections(seg, i + 1, to) EXCEPT !.cursor = cursor], TRUE)
  <1> DEFINE f == seg.file
             lo == FirstSections(f)
             new == [AfterSections(seg, i + 1, to) EXCEPT !.cursor = cursor]
             ts == TablesIn(SubSeq(SectionsOf[f], i + 1, to))
  <1>1. f \in DOMAIN Files /\ lo \in Nat
    BY SegmentFields DEF SegmentOK, FirstSections
  <1>2. PICK m \in Nat : Len(Files[f]) = m
    BY <1>1, FilesType, LenProperties
  <1>3. /\ SectionsOf[f] \in Seq(Sections) /\ Len(SectionsOf[f]) = lo + m + 1
        /\ IsNumbered(SectionsOf[f], lo, m)
    BY <1>1, <1>2, SectionsNumbered
  <1>4. PICK j \in Nat : j = to - i /\ to = i + j /\ (j # 0 => i + j <= Len(SectionsOf[f]))
    OBVIOUS
  <1>5. Adds(new, seg, ts) /\ new.cursor = cursor
    BY AfterSectionsAdds
  <1> HIDE DEF lo
  <1>6. IsRun(SectionsOf[f], lo, m, i, j)
    BY <1>1, <1>3, <1>4, TablesInPart
  <1>7. PICK a \in Nat, b \in Nat :
          a = TablesAmong(lo, m, i) /\ b = TablesAmong(lo, m, to) /\ a <= m /\ b <= m
    BY <1>1, TablesAmongType
  <1>8. ts = Numbers(a + 1, b - a) /\ a <= b
    BY <1>4, <1>6, <1>7 DEF IsRun
  <1> HIDE DEF ts, new
  <1>9. PICK d \in Nat : d = b - a /\ a + d = b
    BY <1>7, <1>8
  <1>10. ts \in Seq(DOMAIN Files[f]) /\ (ts = <<>> <=> d = 0)
    <2>1. Numbers(a + 1, d) \in Seq(1..m)
      BY <1>7, <1>9, NumbersIn
    <2>2. DOMAIN Files[f] = 1..m
      BY <1>1, <1>2, FilesType, LenProperties
    <2>3. a + 1 \in Nat
      OBVIOUS
    <2> QED
      BY <1>8, <1>9, <2>1, <2>2, <2>3, NumbersAre
  <1>11. new.file = f
    BY <1>5 DEF Adds
  <1>12. cursor.at = "section" => b = TablesDone(f, cursor.n)
    <2>1. to + 1 <= lo + m + 1 => b = TablesDone(f, to + 1)
      BY <1>1, <1>7, TablesDoneAre DEF lo
    <2> QED
      BY <1>3, <2>1
  <1>13. CASE Damaged(seg)
    <2>1. Damaged(new)
      BY <1>5, <1>10, <1>13, DamagedStays
    <2> QED
      BY <2>1 DEF Kept, new
  <1>14. ASSUME NEW k \in 0..m, TablesUpTo(seg, k), k = TablesDone(f, i + 1)
         PROVE  Kept(new, TRUE)
    <2>1. a = k
      BY <1>1, <1>7, <1>14, TablesDoneAre DEF lo
    <2>2. Len(seg.tables) = k /\ seg.tables \in Seq(Tables)
      BY <1>14, SegmentFields DEF TablesUpTo, SegmentOK
    <2>3. TablesUpTo(new, b) /\ b \in 0..m => Kept(new, TRUE)
      BY <1>2, <1>5, <1>11, <1>12 DEF Kept
    <2>4. CASE d = 0
      <3>1. Adds(new, seg, <<>>)
        BY <1>5, <1>10, <2>4
      <3>2. new.tables = seg.tables /\ new.tableOffsets = seg.tableOffsets
        BY <3>1, AddsNothing
      <3>3. TablesUpTo(new, k)
        BY <1>11, <1>14, <3>2 DEF TablesUpTo
      <3>4. b = k /\ b \in 0..m
        BY <1>9, <2>1, <2>4
      <3> QED
        BY <2>3, <3>3, <3>4
    <2>5. CASE d # 0 /\ k = 0
      <3>1. seg.tables = <<>>
        BY <2>2, <2>5, EmptySeq
      <3>2. a = 0 /\ b = d /\ ts = Numbers(1, b)
        BY <1>8, <1>9, <2>1, <2>5
      <3>3. TablesUpTo(new, b)
        BY <1>2, <1>5, <1>7, <3>1, <3>2, FirstTables
      <3>4. b \in 0..m
        BY <1>7
      <3> QED
        BY <2>3, <3>3, <3>4
    <2>6. CASE d # 0 /\ k # 0
      <3>1. seg.tables # <<>> /\ ts # <<>>
        BY <1>10, <2>2, <2>6, EmptySeq
      <3>2. Damaged(new)
        BY <1>5, <1>10, <3>1, MoreTablesDamage
      <3> QED
        BY <3>2 DEF Kept
    <2> QED
      BY <2>4, <2>5, <2>6
  <1> QED
    BY <1>2, <1>13, <1>14 DEF Kept, new

(***************************************************************************)
(* What Decode keeps, in evf1 and in evf2.                                 *)
(***************************************************************************)
\* What Kept says depends on these fields.
LEMMA KeptSame ==
    ASSUME NEW seg, NEW new, NEW counted, Kept(seg, counted), new.file = seg.file,
           new.tables = seg.tables, new.tableOffsets = seg.tableOffsets,
           ~new.decoded /\ new.cursor.at = "section" => ~seg.decoded /\ new.cursor = seg.cursor,
           new.decoded => seg.decoded \/ counted
    PROVE  Kept(new, counted)
  <1> SUFFICES ASSUME new.decoded \/ counted PROVE Kept(new, counted)
    BY DEF Kept
  <1>1. seg.decoded \/ counted
    OBVIOUS
  <1>2. CASE Damaged(seg)
    BY <1>2 DEF Damaged, Kept
  <1>3. ASSUME NEW k \in 0..Len(Files[seg.file]), TablesUpTo(seg, k),
               counted /\ ~seg.decoded /\ seg.cursor.at = "section" =>
                 k = TablesDone(seg.file, seg.cursor.n)
        PROVE  Kept(new, counted)
    <2>1. TablesUpTo(new, k)
      BY <1>3 DEF TablesUpTo
    <2>2. counted /\ ~new.decoded /\ new.cursor.at = "section" =>
            k = TablesDone(new.file, new.cursor.n)
      BY <1>3
    <2> QED
      BY <2>1, <2>2 DEF Kept
  <1> QED
    BY <1>1, <1>2, <1>3 DEF Kept

LEMMA EndedKept ==
    ASSUME NEW seg, SegmentOK(seg), ~seg.decoded, Kept(seg, TRUE), seg.cursor.at # "section",
           NEW link, LinkOK(link)
    PROVE  Kept(Ended(seg, link).gives, TRUE) /\ FailsForGood(Ended(seg, link))
  <1>1. CASE seg.volume
    <2> DEFINE new == Decoded(seg, link)
    <2>1. Ended(seg, link) = Attempt(new, "ok")
      BY <1>1 DEF Ended
    <2>2. IsDecoded(new, seg, link)
      BY DecodedOK
    <2> HIDE DEF new
    <2>3. Kept(new, TRUE)
      BY <2>2, KeptSame DEF IsDecoded
    <2>4. Ended(seg, link).gives = new /\ Ended(seg, link).out = "ok"
      BY <2>1 DEF Attempt
    <2> QED
      BY <2>3, <2>4 DEF FailsForGood
  <1>2. CASE ~seg.volume
    <2>1. Ended(seg, link) = Attempt(seg, "panic")
      BY <1>2 DEF Ended
    <2>2. Ended(seg, link).gives = seg
      BY <2>1 DEF Attempt
    <2> QED
      BY <2>2 DEF FailsForGood
  <1> QED
    BY <1>1, <1>2

\* No section is left to do.
LEMMA NoSectionsKept ==
    ASSUME NEW seg, SegmentOK(seg), ~seg.decoded, Kept(seg, TRUE),
           NEW i \in Nat, NEW to \in Nat, to < i, NEW cursor \in Cursors, cursor.at # "section"
    PROVE  Kept([AfterSections(seg, i + 1, to) EXCEPT !.cursor = cursor], TRUE)
  <1> DEFINE new == [AfterSections(seg, i + 1, to) EXCEPT !.cursor = cursor]
  <1>1. SubSeq(SectionsOf[seg.file], i + 1, to) = <<>>
    BY SubSeqEmpty
  <1>2. TablesIn(<<>>) = <<>>
    <2>1. [x \in DOMAIN <<>> |-> IF <<>>[x].at = "table" THEN <<<<>>[x].n>> ELSE <<>>] = <<>>
      OBVIOUS
    <2> QED
      BY <2>1, FlattenEmpty DEF TablesIn
  <1>3. Adds(new, seg, <<>>) /\ new.cursor = cursor
    <2>1. /\ Adds(new, seg, TablesIn(SubSeq(SectionsOf[seg.file], i + 1, to)))
          /\ new.cursor = cursor
      BY AfterSectionsAdds
    <2> HIDE DEF new
    <2> QED
      BY <1>1, <1>2, <2>1
  <1> HIDE DEF new
  <1>4. /\ new.file = seg.file /\ new.tables = seg.tables
        /\ new.tableOffsets = seg.tableOffsets
    BY <1>3, AddsNothing
  <1>5. Kept(new, TRUE)
    BY <1>3, <1>4, KeptSame
  <1> QED
    BY <1>5 DEF new

\* What evf1 makes of a segment is kept; a Decode that fails, but for a read
\* that failed, cannot be told from one that was interrupted.
LEMMA DecodeEvf1Kept ==
    ASSUME NEW seg0, SegmentOK(seg0), ~seg0.decoded, Kept(seg0, TRUE), NEW link, LinkOK(link),
           NEW a \in DecodeEvf1(seg0, link)
    PROVE  Kept(a.gives, TRUE) /\ FailsForGood(a)
  <1> DEFINE v == seg0.volume \/ (link # <<>> /\ link[1].volume)
             seg == [seg0 EXCEPT !.volume = @ \/ (link # <<>> /\ link[1].volume)]
             sections == SectionsOf[seg.file]
             from == seg.cursor.n
             until(k, cursor) == [AfterSections(seg, from, k) EXCEPT !.cursor = cursor]
             found(k) == seg.volume \/ \E i \in from..k : sections[i].at = "volume"
             stuck == {k \in from..Len(sections) : sections[k].at = "table" /\ ~found(k)}
             last == IF stuck = {} THEN Len(sections) ELSE Min(stuck)
             ks == {k \in from..last : CanFail("section")}
  <1>1. v \in BOOLEAN /\ seg0 \in Segment /\ seg0.cursor \in Cursors
        /\ (seg0.cursor.at = "section" => seg0.cursor.n # 0)
    BY SegmentFields DEF LinkOK, SegmentOK
  <1>2. seg = Changed(seg0, v, seg0.cursor)
    BY <1>1, Zenon DEF Changed, Segment
  <1>3. a \in IF seg.cursor.at # "section"
              THEN {Attempt(seg, "error"), Ended(seg, link)}
              ELSE {IF stuck = {} THEN Ended(until(last, Elsewhere), link)
                    ELSE Attempt(until(last - 1, Elsewhere), "panic")}
                   \cup {Attempt(until(k - 1, At("section", k)), "fault") : k \in ks}
                   \cup {Attempt(until(k - 1, Elsewhere), "fault") : k \in ks}
    BY Zenon DEF DecodeEvf1
  <1>7. seg.tableOffsets = seg0.tableOffsets
    BY <1>1 DEF Segment
  <1> HIDE DEF v, seg
  <1>4. /\ SegmentOK(seg) /\ seg.file = seg0.file /\ ~seg.decoded /\ seg.cursor = seg0.cursor
        /\ seg.tables = seg0.tables
    BY <1>1, <1>2, ChangeSegment
  <1>8. Kept(seg, TRUE)
    BY <1>7, <1>4, KeptSame
  <1>5. CASE seg.cursor.at # "section"
    <2>1. Kept(Ended(seg, link).gives, TRUE) /\ FailsForGood(Ended(seg, link))
      BY <1>8, <1>4, <1>5, EndedKept
    <2>2. Kept(Attempt(seg, "error").gives, TRUE) /\ FailsForGood(Attempt(seg, "error"))
      BY <1>8, <1>4, <1>5 DEF Attempt, FailsForGood
    <2> QED
      BY <1>3, <1>5, <2>1, <2>2
  <1>6. CASE seg.cursor.at = "section"
    <2>1. PICK i \in Nat : from = i + 1
      <3>1. from \in Nat /\ from # 0
        BY <1>1, <1>4, <1>6 DEF Cursors
      <3>2. from - 1 \in Nat /\ from = (from - 1) + 1
        BY <3>1
      <3> QED
        BY <3>2
    <2>2. PICK n \in Nat : Len(sections) = n
      <3>1. seg.file \in DOMAIN Files
        BY <1>4, SegmentFields DEF SegmentOK
      <3> QED
        BY <3>1, SectionsOfType, LenProperties
    <2>3. \/ stuck = {} /\ last = n
          \/ stuck # {} /\ last \in from..n
      <3>1. CASE stuck = {}
        BY <2>2, <3>1
      <3>2. CASE stuck # {}
        <4>1. stuck \subseteq Nat
          BY <2>1, <2>2
        <4> HIDE DEF stuck
        <4>2. Min(stuck) \in stuck /\ last = Min(stuck)
          BY <3>2, <4>1, MinOfNats
        <4>3. Min(stuck) \in from..n
          BY <2>2, <4>2 DEF stuck
        <4> QED
          BY <3>2, <4>2, <4>3
      <3> QED
        BY <3>1, <3>2
    <2>4. Elsewhere \in Cursors /\ Elsewhere.at # "section"
      BY DEF Elsewhere, At, Cursors
    <2>5. ASSUME NEW k \in Nat, k <= n, NEW cursor \in Cursors,
                 cursor.at = "section" => i <= k /\ cursor.n = k + 1 /\ k + 1 <= n
          PROVE  /\ Kept(until(k, cursor), TRUE) /\ until(k, cursor).cursor = cursor
                 /\ SegmentOK(until(k, cursor)) /\ ~until(k, cursor).decoded
      <3>5. until(k, cursor) = [AfterSections(seg, i + 1, k) EXCEPT !.cursor = cursor]
        BY <2>1
      <3>1. /\ SegmentOK([AfterSections(seg, i + 1, k) EXCEPT !.cursor = cursor])
            /\ ~[AfterSections(seg, i + 1, k) EXCEPT !.cursor = cursor].decoded
        <4>1. i + 1 \in Nat \ {0} /\ k \in Int
          OBVIOUS
        <4>2. cursor.at = "section" => cursor.n # 0
          BY <2>5
        <4> QED
          BY <1>4, <2>2, <2>5, <4>1, <4>2, AfterSectionsOK
      <3>2. [AfterSections(seg, i + 1, k) EXCEPT !.cursor = cursor].cursor = cursor
        BY <1>4, AfterSectionsAdds
      <3>3. Kept([AfterSections(seg, i + 1, k) EXCEPT !.cursor = cursor], TRUE)
        <4>1. CASE i <= k
          <5>1. k <= Len(SectionsOf[seg.file]) /\ seg.cursor.n = i + 1
            BY <2>1, <2>2, <2>5
          <5>2. cursor.at = "section" => cursor.n = k + 1 /\ k + 1 <= Len(SectionsOf[seg.file])
            BY <2>2, <2>5
          <5>3. SegmentOK(seg) /\ ~seg.decoded /\ Kept(seg, TRUE) /\ seg.cursor.at = "section"
            BY <1>4, <1>6, <1>8
          <5> HIDE DEF from, until, sections, found, stuck, last, ks
          <5> QED
            BY <4>1, <5>1, <5>2, <5>3, AfterSectionsKept, Zenon
        <4>2. CASE k < i
          <5>1. cursor.at # "section"
            BY <2>5, <4>2
          <5> QED
            BY <1>4, <1>8, <4>2, <5>1, NoSectionsKept
        <4>3. i <= k \/ k < i
          OBVIOUS
        <4> QED
          BY <4>1, <4>2, <4>3, Zenon
      <3> HIDE DEF until
      <3> QED
        BY <3>1, <3>2, <3>3, <3>5
    <2> HIDE DEF until, last, sections, stuck
    <2>6. CASE stuck = {} /\ a = Ended(until(last, Elsewhere), link)
      <3>1. last \in Nat /\ last <= n
        BY <2>3, <2>6
      <3>2. /\ Kept(until(last, Elsewhere), TRUE) /\ until(last, Elsewhere).cursor = Elsewhere
            /\ SegmentOK(until(last, Elsewhere)) /\ ~until(last, Elsewhere).decoded
        BY <2>4, <2>5, <3>1
      <3> QED
        BY <2>4, <2>6, <3>2, EndedKept
    <2>7. CASE stuck # {} /\ a = Attempt(until(last - 1, Elsewhere), "panic")
      <3>1. last - 1 \in Nat /\ last - 1 <= n
        BY <2>1, <2>3, <2>7
      <3>2. /\ Kept(until(last - 1, Elsewhere), TRUE)
            /\ until(last - 1, Elsewhere).cursor = Elsewhere
            /\ ~until(last - 1, Elsewhere).decoded
        BY <2>4, <2>5, <3>1
      <3> QED
        BY <2>4, <2>7, <3>2 DEF Attempt, FailsForGood
    <2>8. CASE \E k \in ks : \/ a = Attempt(until(k - 1, At("section", k)), "fault")
                             \/ a = Attempt(until(k - 1, Elsewhere), "fault")
      <3>1. PICK k \in from..last :
              \/ a = Attempt(until(k - 1, At("section", k)), "fault")
              \/ a = Attempt(until(k - 1, Elsewhere), "fault")
        BY <2>8
      <3>2. PICK p \in Nat : p = k - 1 /\ k = p + 1 /\ i <= p /\ p + 1 <= n
        BY <2>1, <2>3
      <3>3. PICK cursor \in Cursors : /\ a = Attempt(until(p, cursor), "fault")
                                      /\ cursor.at = "section" => cursor.n = p + 1
        <4>1. k \in Nat
          BY <3>2
        <4>2. At("section", k) \in Cursors /\ At("section", k).n = k
          BY <4>1 DEF At, Cursors
        <4> QED
          BY <2>4, <3>1, <3>2, <4>2
      <3>4. p <= n
        BY <3>2
      <3>5. Kept(until(p, cursor), TRUE)
        BY <2>5, <3>2, <3>3, <3>4
      <3> QED
        BY <3>3, <3>5 DEF Attempt, FailsForGood
    <2> QED
      BY <1>3, <1>6, <2>6, <2>7, <2>8
  <1> QED
    BY <1>5, <1>6

\* The sections of a file, in evf2.
LEMMA Evf2SectionsNumbered ==
    ASSUME NEW f \in DOMAIN Files, NEW m \in Nat, Len(Files[f]) = m
    PROVE  /\ Evf2!SectionsOf[f] \in Seq(Sections) /\ Len(Evf2!SectionsOf[f]) = m + 2
           /\ IsNumbered(Evf2!SectionsOf[f], 1, m)
  <1> DEFINE before == <<At("case", 0)>>
             tables == [t \in DOMAIN Files[f] |-> At("table", t)]
             after == <<At("hash", 0)>>
  <1>1. DOMAIN Files[f] = 1..m
    BY FilesType, LenProperties
  <1>2. At("case", 0) \in Sections /\ At("hash", 0) \in Sections
        /\ \A t \in 1..m : At("table", t) \in Sections
    BY DEF At, Sections
  <1>3. before \in Seq(Sections) /\ Len(before) = 1 /\ before[1] = At("case", 0)
    BY <1>2
  <1>4. tables \in Seq(Sections) /\ Len(tables) = m /\ \A i \in 1..m : tables[i] = At("table", i)
    <2>1. tables \in [1..m -> Sections] /\ \A i \in 1..m : tables[i] = At("table", i)
      BY <1>1, <1>2
    <2> HIDE DEF tables
    <2> QED
      BY <2>1, SeqDef, LenProperties
  <1>5. after \in Seq(Sections) /\ Len(after) = 1 /\ after[1] = At("hash", 0)
    BY <1>2
  <1>6. Evf2!SectionsOf[f] = (before \o tables) \o after
    BY Evf2At DEF Evf2!SectionsOf
  <1> HIDE DEF before, tables, after
  <1>7. /\ before \o tables \in Seq(Sections) /\ Len(before \o tables) = 1 + m
        /\ \A i \in 1..(1 + m) : (before \o tables)[i] = IF i <= 1 THEN before[i] ELSE tables[i - 1]
    <2>1. PICK o \in Nat : o = 1
      OBVIOUS
    <2>2. PICK b \in Seq(Sections) : b = before /\ Len(b) = o
      BY <1>3, <2>1
    <2>3. /\ b \o tables \in Seq(Sections) /\ Len(b \o tables) = Len(b) + Len(tables)
          /\ \A i \in 1..(Len(b) + Len(tables)) :
               (b \o tables)[i] = IF i <= Len(b) THEN b[i] ELSE tables[i - Len(b)]
      BY <1>4, ConcatProperties, Zenon
    <2> QED
      BY <1>4, <2>1, <2>2, <2>3
  <1>8. /\ Evf2!SectionsOf[f] \in Seq(Sections) /\ Len(Evf2!SectionsOf[f]) = m + 2
        /\ \A i \in 1..(m + 2) :
             Evf2!SectionsOf[f][i] = IF i <= 1 + m THEN (before \o tables)[i] ELSE after[i - (1 + m)]
    <2>1. PICK k \in Nat : k = 1 + m
      OBVIOUS
    <2>2. PICK u \in Seq(Sections) : u = before \o tables /\ Len(u) = k
      BY <1>7, <2>1
    <2>3. /\ u \o after \in Seq(Sections) /\ Len(u \o after) = Len(u) + Len(after)
          /\ \A i \in 1..(Len(u) + Len(after)) :
               (u \o after)[i] = IF i <= Len(u) THEN u[i] ELSE after[i - Len(u)]
      BY <1>5, ConcatProperties, Zenon
    <2> QED
      BY <1>5, <1>6, <2>1, <2>2, <2>3
  <1>9. ASSUME NEW i \in 1..(m + 2)
        PROVE  Evf2!SectionsOf[f][i] = IF i <= 1 THEN At("case", 0)
                                       ELSE IF i <= 1 + m THEN At("table", i - 1) ELSE At("hash", 0)
    <2>1. CASE i <= 1
      <3>1. i = 1 /\ i \in 1..(1 + m) /\ i <= 1 + m
        BY <2>1
      <3> QED
        BY <1>3, <1>7, <1>8, <2>1, <3>1
    <2>2. CASE ~(i <= 1) /\ i <= 1 + m
      <3>1. i - 1 \in 1..m /\ i \in 1..(1 + m)
        BY <2>2
      <3> QED
        BY <1>4, <1>7, <1>8, <2>2, <3>1
    <2>3. CASE ~(i <= 1 + m)
      <3>1. i - (1 + m) = 1 /\ ~(i <= 1)
        BY <2>3
      <3> QED
        BY <1>5, <1>8, <2>3, <3>1
    <2> QED
      BY <2>1, <2>2, <2>3
  <1>10. IsNumbered(Evf2!SectionsOf[f], 1, m)
    <2>1. ASSUME NEW i \in 1..(m + 2)
          PROVE  TableIn(Evf2!SectionsOf[f][i]) = IF 1 < i /\ i <= 1 + m THEN <<i - 1>> ELSE <<>>
      <3>1. i \in Nat /\ i - 1 \in Int
        OBVIOUS
      <3>2. CASE i <= 1
        <4>1. Evf2!SectionsOf[f][i] = At("case", 0) /\ ~(1 < i)
          BY <1>9, <3>1, <3>2
        <4> QED
          BY <4>1 DEF TableIn, At
      <3>3. CASE 1 < i /\ i <= 1 + m
        <4>1. Evf2!SectionsOf[f][i] = At("table", i - 1)
          BY <1>9, <3>1, <3>3
        <4> QED
          BY <3>3, <4>1 DEF TableIn, At
      <3>4. CASE ~(i <= 1 + m)
        <4>1. Evf2!SectionsOf[f][i] = At("hash", 0)
          BY <1>9, <3>1, <3>4
        <4> QED
          BY <3>4, <4>1 DEF TableIn, At
      <3> QED
        BY <3>1, <3>2, <3>3, <3>4
    <2> QED
      BY <1>8, <2>1, Zenon DEF IsNumbered
  <1> QED
    BY <1>8, <1>10

\* All its tables are among them.
LEMMA Evf2TablesOfFile ==
    ASSUME NEW f \in DOMAIN Files, NEW m \in Nat, Len(Files[f]) = m
    PROVE  TablesIn(Evf2!SectionsOf[f]) = Numbers(1, m)
  <1> DEFINE s == Evf2!SectionsOf[f]
  <1>1. s \in Seq(Sections) /\ Len(s) = m + 2 /\ IsNumbered(s, 1, m)
    BY Evf2SectionsNumbered
  <1> HIDE DEF s
  <1>2. PICK z \in Nat, k \in Nat, lo \in Nat : z = 0 /\ k = m + 2 /\ lo = 1
    OBVIOUS
  <1>3. IsRun(s, lo, m, z, k)
    <2>1. k # 0 => z + k <= Len(s)
      BY <1>1, <1>2
    <2>2. IsNumbered(s, lo, m)
      BY <1>1, <1>2
    <2> QED
      BY <1>1, <2>1, <2>2, TablesInPart
  <1>4. z + 1 = 1 /\ z + k = Len(s) /\ k = Len(s)
    BY <1>1, <1>2
  <1>5. TablesAmong(lo, m, z) = 0 /\ TablesAmong(lo, m, z + k) = m
    BY <1>2 DEF TablesAmong
  <1>6. TablesIn(SubSeq(s, z + 1, z + k)) = Numbers(0 + 1, m - 0)
    BY <1>3, <1>5 DEF IsRun
  <1>7. SubSeq(s, 1, Len(s)) = s
    BY <1>1, SubSeqFull
  <1>8. 0 + 1 = 1 /\ m - 0 = m
    OBVIOUS
  <1> QED
    BY <1>4, <1>6, <1>7, <1>8 DEF s

\* What AfterSections adds, in evf2.
LEMMA Evf2AfterSectionsAdds ==
    ASSUME NEW seg, SegmentOK(seg), NEW k
    PROVE  Adds(Evf2!AfterSections(seg, k), seg, TablesIn(SubSeq(seg.sections, 1, k)))
  <1> DEFINE done == SubSeq(seg.sections, 1, k)
             ts == TablesIn(done)
             added == AddTables(seg, ts)
             v == added.volume \/ \E i \in DOMAIN done : done[i].at = "case"
             new == Evf2!AfterSections(seg, k)
  <1>1. new = [added EXCEPT !.volume = @ \/ \E i \in DOMAIN done : done[i].at = "case"]
    BY Evf2AddTables, Evf2TablesIn DEF Evf2!AfterSections
  <1>2. new = [added EXCEPT !.volume = v]
    BY <1>1
  <1>3. Adds(added, seg, ts)
    BY AddTablesAdds
  <1>4. added = [seg EXCEPT !.tables = @ \o TablesOf(seg.file, ts),
                            !.tableOffsets = @ \o SubSeq(OffsetsOf(seg.file, ts), 2, Len(ts))]
    BY AddTablesIs, Zenon
  <1>5. seg \in Segment
    BY DEF SegmentOK
  <1> HIDE DEF v, ts, added, new
  <1>6. /\ new.file = added.file /\ new.tables = added.tables
        /\ new.tableOffsets = added.tableOffsets
    BY <1>2, <1>4, <1>5 DEF Segment
  <1>7. Adds(new, seg, ts)
    BY <1>3, <1>6 DEF Adds
  <1> QED
    BY <1>7 DEF new, ts, done

\* Decoding a segment gives the tables of its file once, behind those it has.
LEMMA AllTablesKept ==
    ASSUME NEW seg, SegmentOK(seg), NEW m \in Nat, Len(Files[seg.file]) = m,
           NEW more \in Seq(DOMAIN Files[seg.file]), NEW new,
           Adds(new, seg, Numbers(1, m) \o more)
    PROVE  Kept(new, FALSE)
  <1> DEFINE f == seg.file
             first == Numbers(1, m)
             ts == first \o more
  <1>1. f \in DOMAIN Files /\ seg.tables \in Seq(Tables)
    BY SegmentFields DEF SegmentOK
  <1>2. DOMAIN Files[f] = 1..m
    BY <1>1, FilesType, LenProperties
  <1>3. first \in Seq(1..m) /\ Len(first) = m
    <2>1. PICK z \in Nat : z = 0
      OBVIOUS
    <2>2. Numbers(z + 1, m) \in Seq(1..m)
      BY <2>1, NumbersIn
    <2>3. z + 1 = 1 /\ 1 \in Nat
      BY <2>1
    <2> QED
      BY <2>2, <2>3, NumbersAre
  <1> HIDE DEF first
  <1>4. PICK n \in Nat : Len(more) = n
    BY LenProperties
  <1>5. ts \in Seq(DOMAIN Files[f]) /\ Len(ts) = m + n
    <2>1. first \in Seq(DOMAIN Files[f]) /\ more \in Seq(DOMAIN Files[f])
      BY <1>2, <1>3
    <2>2. ts \in Seq(DOMAIN Files[f]) /\ Len(ts) = Len(first) + Len(more)
      BY <2>1, ConcatProperties, Zenon
    <2> QED
      BY <1>3, <1>4, <2>2
  <1>6. PICK k \in Nat : Len(seg.tables) = k
    BY <1>1, LenProperties
  <1>7. Adds(new, seg, ts) /\ new.file = f
    BY DEF Adds, first
  <1>8. Len(new.tables) = k + (m + n)
    <2>1. PICK l \in Nat : l = m + n
      OBVIOUS
    <2> HIDE DEF ts
    <2> QED
      BY <1>5, <1>6, <1>7, <2>1, TablesAdded
  <1>9. CASE k + n > 0
    <2>1. Len(new.tables) > m
      BY <1>8, <1>9
    <2> QED
      BY <1>7, <2>1 DEF Kept, Damaged
  <1>10. CASE k = 0 /\ n = 0
    <2>1. seg.tables = <<>> /\ more = <<>>
      BY <1>1, <1>4, <1>6, <1>10, EmptySeq
    <2>2. ts = first
      BY <1>3, <2>1
    <2>3. Adds(new, seg, Numbers(1, m))
      BY <1>7, <2>2 DEF first
    <2>4. TablesUpTo(new, m)
      BY <2>1, <2>3, FirstTables
    <2>5. m \in 0..Len(Files[new.file])
      BY <1>7
    <2> QED
      BY <2>4, <2>5 DEF Kept
  <1>11. k + n > 0 \/ (k = 0 /\ n = 0)
    OBVIOUS
  <1> QED
    BY <1>9, <1>10, <1>11

LEMMA Evf2DecodedKept ==
    ASSUME NEW seg, SegmentOK(seg), ~seg.decoded, NEW link, LinkOK(link), NEW n,
           n = Len(PutSections(seg, 1).sections)
    PROVE  Kept(Decoded(Evf2!AfterSections(PutSections(seg, 1), n), link), FALSE)
  <1> DEFINE f == seg.file
             all == PutSections(seg, 1)
             s == Evf2!SectionsOf[f]
             after == Evf2!AfterSections(all, n)
             new == Decoded(after, link)
  <1>1. f \in DOMAIN Files /\ seg \in Segment /\ seg.sections \in Seq(Sections)
    BY SegmentFields DEF SegmentOK
  <1>2. PICK m \in Nat : Len(Files[f]) = m
    BY <1>1, FilesType, LenProperties
  <1>3. s \in Seq(Sections) /\ TablesIn(s) = Numbers(1, m)
    BY <1>1, <1>2, Evf2SectionsNumbered, Evf2TablesOfFile
  <1>4. SegmentOK(all) /\ all.file = f /\ ~all.decoded
    <2>1. 1 \in Nat \ {0}
      OBVIOUS
    <2> QED
      BY <2>1, PutFromOK
  <1>5. SubSeq(s, 1, Len(s)) = s
    BY <1>3, SubSeqFull
  <1>6. all.sections = s \o seg.sections /\ all.tables = seg.tables
        /\ all.tableOffsets = seg.tableOffsets
    BY <1>1, <1>5 DEF PutSections, Segment
  <1> HIDE DEF s, all
  <1>7. all.sections \in Seq(Sections)
    BY <1>1, <1>3, <1>6, ConcatProperties
  <1>8. n \in Nat /\ n <= Len(all.sections) /\ SubSeq(all.sections, 1, n) = all.sections
    <2>1. n = Len(all.sections)
      BY DEF all
    <2>2. n \in Nat
      BY <1>7, <2>1, LenProperties
    <2> QED
      BY <1>7, <2>1, <2>2, SubSeqFull
  <1>9. TablesIn(all.sections) = Numbers(1, m) \o TablesIn(seg.sections)
    BY <1>1, <1>3, <1>6, TablesInConcat
  <1>10. TablesIn(seg.sections) \in Seq(DOMAIN Files[f])
    <2>1. \A i \in DOMAIN seg.sections :
            seg.sections[i].at = "table" => seg.sections[i].n \in DOMAIN Files[f]
      BY DEF SegmentOK
    <2> QED
      BY <1>1, <2>1, TablesInType
  <1>11. SegmentOK(after)
    BY <1>4, <1>8, Evf2AfterSectionsOK
  <1>12. Adds(after, all, Numbers(1, m) \o TablesIn(seg.sections))
    BY <1>4, <1>8, <1>9, Evf2AfterSectionsAdds
  <1> HIDE DEF after
  <1>13. IsDecoded(new, after, link)
    BY <1>11, DecodedOK
  <1> HIDE DEF new
  <1>14. Adds(new, all, Numbers(1, m) \o TablesIn(seg.sections))
    BY <1>12, <1>13 DEF Adds, IsDecoded
  <1>15. Kept(new, FALSE)
    BY <1>2, <1>4, <1>10, <1>14, AllTablesKept
  <1> QED
    BY <1>15 DEF new, after, all

LEMMA DecodeEvf2Kept ==
    ASSUME NEW seg, SegmentOK(seg), ~seg.decoded, NEW link, LinkOK(link),
           NEW a \in Evf2!DecodeEvf2(seg, link)
    PROVE  Kept(a.gives, FALSE) /\ FailsForGood(a)
  <1> DEFINE sections == Evf2!SectionsOf[seg.file]
             read(k) == PutSections(seg, k)
             all == read(1)
             after(k) == Evf2!AfterSections(all, k)
             ks == {k \in DOMAIN all.sections :
                      /\ all.sections[k].at = "case" => ~after(k - 1).volume
                      /\ CanFail("section")}
  <1>1. \/ a = Attempt(Decoded(after(Len(all.sections)), link), "ok")
        \/ \E k \in DOMAIN sections : CanFail("section") /\ a = Attempt(read(k + 1), "fault")
        \/ \E k \in ks : a = Attempt(after(k - 1), "fault")
    BY Evf2Attempt, Evf2Decoded, Evf2CanFail DEF Evf2!DecodeEvf2, PutSections
  <1>2. \A k \in Nat \ {0} : SegmentOK(read(k)) /\ ~read(k).decoded
    BY PutFromOK
  <1>3. PICK n \in Nat : Len(all.sections) = n /\ DOMAIN all.sections = 1..n
    BY <1>2, SectionsAreOfFile, LenProperties
  <1>4. DOMAIN sections \subseteq Nat
    <2>1. seg.file \in DOMAIN Files
      BY SegmentFields DEF SegmentOK
    <2> QED
      BY <2>1, Evf2SectionsOfType, LenProperties
  <1>5. Kept(Decoded(after(n), link), FALSE)
    BY <1>3, Evf2DecodedKept
  <1> HIDE DEF read, sections, all
  <1>6. ASSUME NEW k \in Nat, k <= n
        PROVE  ~after(k).decoded
    <2>1. SegmentOK(all) /\ ~all.decoded
      <3>1. 1 \in Nat \ {0}
        OBVIOUS
      <3> QED
        BY <1>2, <3>1 DEF all
    <2> QED
      BY <1>3, <1>6, <2>1, Evf2AfterSectionsOK
  <1>7. CASE a = Attempt(Decoded(after(Len(all.sections)), link), "ok")
    <2> HIDE DEF after
    <2> QED
      BY <1>3, <1>5, <1>7 DEF FailsForGood, Attempt
  <1>8. CASE \E k \in DOMAIN sections : CanFail("section") /\ a = Attempt(read(k + 1), "fault")
    <2>1. PICK k \in Nat : a = Attempt(read(k + 1), "fault")
      BY <1>4, <1>8
    <2>2. k + 1 \in Nat \ {0}
      OBVIOUS
    <2>3. ~read(k + 1).decoded
      BY <1>2, <2>2
    <2> QED
      BY <2>1, <2>3 DEF Kept, FailsForGood, Attempt
  <1>9. CASE \E k \in ks : a = Attempt(after(k - 1), "fault")
    <2>1. PICK k \in 1..n : a = Attempt(after(k - 1), "fault")
      BY <1>3, <1>9
    <2>2. k - 1 \in Nat /\ k - 1 <= n
      OBVIOUS
    <2>3. ~after(k - 1).decoded
      BY <1>6, <2>2
    <2> HIDE DEF after
    <2> QED
      BY <2>1, <2>3 DEF Kept, FailsForGood, Attempt
  <1> QED
    BY <1>1, <1>7, <1>8, <1>9

(***************************************************************************)
(* Intact, and the readers' steps.                                         *)
(***************************************************************************)
\* Intact looks at less than Pristine; what Decode makes of a segment gives the rest.
LEMMA IntactIsPristine ==
    ASSUME NEW counted, Inv(counted), More(counted), Intact
    PROVE  Pristine
  <1>1. /\ DOMAIN segs = 1..Len(segs) /\ Len(segs) \in Nat /\ opened = "yes"
        /\ Len(segs) = Len(Files)
    BY LenProperties DEF Inv, SegsOK, Intact
  <1>2. ASSUME NEW i \in 1..Len(segs)
        PROVE  /\ segs[i].file = i
               /\ segs[i].decoded \/ segs[i].cursor.at = "section"
               /\ segs[i].decoded => /\ GoodSegment(segs[i])
                                     /\ \A t \in 1..Len(segs[i].tables) : Filled(i, t)
    <2> DEFINE seg == segs[i]
    <2>1. /\ seg.file = i
          /\ ~seg.decoded => seg.cursor = At("section", 1)
          /\ seg.decoded => /\ seg.sectorOffset = ChunksBefore[i] * ChunkSectors
                            /\ seg.sectorCount = ChunksIn[i] * ChunkSectors
                            /\ Len(seg.tables) = Len(Files[i])
                            /\ \A t \in DOMAIN seg.tables :
                                 /\ seg.tables[t].sectorOffset = TableStart[i][t] * ChunkSectors
                                 /\ seg.tables[t].entries \in {"none", "full"}
      BY <1>1 DEF Intact
    <2>2. SegmentOK(seg)
      BY OfCall, <1>1 DEF Inv, SegsOK
    <2>3. seg.tables \in Seq(Tables)
      BY <2>2, SegmentFields DEF SegmentOK
    <2>4. DOMAIN seg.tables = 1..Len(seg.tables) /\ Len(seg.tables) \in Nat
      BY <2>3, LenProperties
    <2>5. Kept(seg, counted)
      BY DEF More
    <2>6. seg.cursor.at = "section" \/ seg.decoded
      BY <2>1 DEF At
    <2> HIDE DEF seg
    <2>7. ASSUME seg.decoded
          PROVE  GoodSegment(seg) /\ \A t \in 1..Len(seg.tables) : seg.tables[t].entries \in {"none", "full"}
      <3>1. \A t \in 1..Len(seg.tables) : seg.tables[t].sectorOffset = Start(seg.file, t)
        BY <2>1, <2>4, <2>7 DEF Start
      <3>2. ~Damaged(seg)
        BY <2>1, <2>4, <2>7, <3>1 DEF Damaged
      <3>3. PICK k \in 0..Len(Files[seg.file]) : TablesUpTo(seg, k)
        BY <2>5, <2>7, <3>2 DEF Kept
      <3>4. k = Len(Files[seg.file])
        BY <2>1, <2>7, <3>3 DEF TablesUpTo
      <3> QED
        BY <2>1, <2>4, <2>7, <3>3, <3>4 DEF GoodSegment, Begins, SectorsIn
    <2> QED
      BY <2>1, <2>6, <2>7 DEF Filled, seg
  <1> QED
    BY <1>1, <1>2 DEF Pristine, Sane

LEMMA MoreRight ==
    ASSUME NEW counted, Inv(counted), More(counted)
    PROVE  RightWhenIntact
  <1> SUFFICES ASSUME NEW c \in Clients, pc[c] = "idle", frame[c].alone, Intact
               PROVE  IsRight(c)
    BY DEF RightWhenIntact
  <1>1. Pristine
    BY IntactIsPristine
  <1> QED
    BY <1>1 DEF More, WentRight

\* What a segment was before DecodeSegment is one that More speaks of.
LEMMA KeptOfCall ==
    ASSUME NEW counted, Inv(counted), More(counted), NEW c \in Clients,
           frame[c].seg \in DOMAIN segs
    PROVE  Kept(SegmentOf(c), counted)
  <1>1. DOMAIN segs = 1..Len(segs)
    BY LenProperties DEF Inv, SegsOK
  <1> QED
    BY <1>1 DEF More, SegmentOf

\* One step of the EVF1 reader.
LEMMA NextEvf1More ==
    ASSUME Inv(TRUE), More(TRUE), [Next]_vars
    PROVE  More(TRUE)'
  <1>1. CASE UNCHANGED vars
    BY <1>1, SameMore, Zenon DEF vars
  <1>2. CASE OpenEWF([f \in DOMAIN Files |-> DecodeEvf1(NewSegment(f), <<>>)])
    <2> DEFINE decodes == [f \in DOMAIN Files |-> DecodeEvf1(NewSegment(f), <<>>)]
    <2>1. ASSUME NEW f \in DOMAIN Files, NEW a \in decodes[f]
          PROVE  DecodesTo(a, NewSegment(f), <<>>) /\ Kept(a.gives, TRUE)
      <3>1. SegmentOK(NewSegment(f)) /\ ~NewSegment(f).decoded
        BY NewSegmentOK DEF NewSegment
      <3>2. LinkOK(<<>>) /\ faults \in 0..MaxFaults
        BY DEF LinkOK, Inv
      <3>3. a \in DecodeEvf1(NewSegment(f), <<>>)
        OBVIOUS
      <3>4. Kept(NewSegment(f), TRUE)
        BY NewSegmentKept
      <3> QED
        BY <3>1, <3>2, <3>3, <3>4, DecodeEvf1OK, DecodeEvf1Kept
    <2>2. OpenEWF(decodes)
      BY <1>2
    <2> HIDE DEF decodes
    <2> QED
      BY <2>1, <2>2, OpenEWFMore
  <1>3. ASSUME NEW c \in Clients, Call(c) \/ Step(c)
        PROVE  More(TRUE)'
    <2>1. CASE Call(c)
      BY <2>1, CallMore
    <2>2. CASE DecodeSegment(c, DecodeEvf1(SegmentOf(c), LinkOf(c)))
      <3>1. frame[c].seg \in DOMAIN segs /\ ~segs[frame[c].seg].decoded
        BY <2>2 DEF DecodeSegment
      <3>2. /\ SegmentOK(SegmentOf(c)) /\ LinkOK(LinkOf(c)) /\ ~SegmentOf(c).decoded
            /\ Kept(SegmentOf(c), TRUE)
        BY <3>1, LinkOfOK, KeptOfCall DEF SegmentOf
      <3>3. faults \in 0..MaxFaults
        BY DEF Inv
      <3>4. \A a \in DecodeEvf1(SegmentOf(c), LinkOf(c)) :
              DecodesTo(a, SegmentOf(c), LinkOf(c)) /\ Kept(a.gives, TRUE) /\ FailsForGood(a)
        BY <3>2, <3>3, DecodeEvf1OK, DecodeEvf1Kept
      <3> QED
        BY <2>2, <3>4, DecodeSegmentMore
    <2>3. CASE SegmentAsked(c)
      BY <2>3, SegmentAskedMore
    <2>4. CASE Find(c)
      BY <2>4, FindMore
    <2>5. CASE NextSegment(c)
      BY <2>5, NextSegmentMore
    <2>6. CASE NextTable(c)
      BY <2>6, NextTableMore
    <2>7. CASE NextChunk(c, IndexEvf1(frame[c].at, Table(c)))
      <3>1. pc[c] = "chunk" /\ pc[c] \in InTable
        BY <2>7 DEF NextChunk, InTable
      <3>2. Sane /\ IsIn(frame[c].at, frame[c].seg, frame[c].tab) =>
              IndexEvf1(frame[c].at, Table(c)) \in 0..(Table(c).count - 1)
        BY <3>1, IndexAt DEF AtItsEntry
      <3> QED
        BY <2>7, <3>1, <3>2, NextChunkMore
    <2>8. CASE AllocEntries(c)
      BY <2>8, AllocEntriesMore
    <2>9. CASE FillEntries(c)
      BY <2>9, FillEntriesMore
    <2>10. CASE SeekChunk(c, SeekEvf1(frame[c]))
      <3>1. pc[c] = "seek"
        BY <2>10 DEF SeekChunk
      <3>2. \A a \in SeekEvf1(frame[c]) : /\ a.cursor \in Cursors /\ a.cursor.at # "section"
                                          /\ a.out \in {"ok", "error", "panic"}
        BY <3>1, SeekEvf1Type
      <3>3. Sane /\ IsIn(frame[c].at, frame[c].seg, frame[c].tab) /\ frame[c].entry = "full" =>
              \A a \in SeekEvf1(frame[c]) : /\ a.cursor = At("chunk", frame[c].at \div ChunkSectors)
                                            /\ a.out = "ok"
        BY <3>1, SeekEvf1Finds DEF AtItsEntry
      <3> QED
        BY <2>10, <3>2, <3>3, SeekChunkMore
    <2>11. CASE ReadChunk(c, ReadEvf1(frame[c]), FALSE)
      <3>1. pc[c] = "data"
        BY <2>11 DEF ReadChunk
      <3>2. \A a \in ReadEvf1(frame[c]) : a.out \in {"ok", "error", "fault"}
        BY <3>1, ReadEvf1Type DEF GivesBytes
      <3>3. Sane /\ IsIn(frame[c].at, frame[c].seg, frame[c].tab) /\ frame[c].entry = "full"
              /\ segs[frame[c].seg].cursor = At("chunk", frame[c].at \div ChunkSectors) =>
              ReadsTheChunk(frame[c], ReadEvf1(frame[c]))
        BY <3>1, ReadEvf1Reads DEF AtItsEntry
      <3> QED
        BY <2>11, <3>2, <3>3, ReadChunkMore
    <2> QED
      BY <1>3, <2>1, <2>2, <2>3, <2>4, <2>5, <2>6, <2>7, <2>8, <2>9, <2>10, <2>11 DEF Step
  <1> QED
    BY <1>1, <1>2, <1>3 DEF Next

\* A read of the EVF1 reader that runs alone on a reader whose state is intact
\* returns exactly what the image has there, or the error of the file with no
\* byte: whatever reads failed before it, in whatever order segments were
\* decoded and tables filled, and whatever other goroutines did before.
THEOREM Evf1ReaderRightWhenIntact == Spec => []RightWhenIntact
  <1>1. Init => Inv(TRUE) /\ More(TRUE)
    BY InitOK, InitMore, Zenon
  <1>2. Inv(TRUE) /\ More(TRUE) /\ [Next]_vars => Inv(TRUE)' /\ More(TRUE)'
    BY NextEvf1OK, NextEvf1More, Zenon
  <1>3. Inv(TRUE) /\ More(TRUE) => RightWhenIntact
    BY MoreRight, Zenon
  <1> QED
    BY <1>1, <1>2, <1>3, PTL DEF Spec

\* One step of the EVF2 reader.
LEMMA NextEvf2More ==
    ASSUME Inv(FALSE), More(FALSE), [Evf2!Next]_vars
    PROVE  More(FALSE)'
  <1>1. CASE UNCHANGED vars
    BY <1>1, SameMore, Zenon DEF vars
  <1> DEFINE decodes == [f \in DOMAIN Files |-> Evf2!DecodeEvf2(NewSegment(f), <<>>)]
  <1>2. CASE OpenEWF(decodes)
    <2>1. ASSUME NEW f \in DOMAIN Files, NEW a \in decodes[f]
          PROVE  DecodesTo(a, NewSegment(f), <<>>) /\ Kept(a.gives, FALSE)
      <3>1. SegmentOK(NewSegment(f)) /\ ~NewSegment(f).decoded
        BY NewSegmentOK DEF NewSegment
      <3>2. LinkOK(<<>>)
        BY DEF LinkOK
      <3>3. a \in Evf2!DecodeEvf2(NewSegment(f), <<>>)
        OBVIOUS
      <3> QED
        BY <3>1, <3>2, <3>3, DecodeEvf2OK, DecodeEvf2Kept
    <2> HIDE DEF decodes
    <2> QED
      BY <1>2, <2>1, OpenEWFMore
  <1>3. ASSUME NEW c \in Clients, Evf2!Call(c) \/ Evf2!Step(c)
        PROVE  More(FALSE)'
    <2>1. CASE Call(c)
      BY <2>1, CallMore
    <2>2. CASE DecodeSegment(c, Evf2!DecodeEvf2(SegmentOf(c), LinkOf(c)))
      <3>1. frame[c].seg \in DOMAIN segs /\ ~segs[frame[c].seg].decoded
        BY <2>2 DEF DecodeSegment
      <3>2. SegmentOK(SegmentOf(c)) /\ LinkOK(LinkOf(c)) /\ ~SegmentOf(c).decoded
        BY <3>1, LinkOfOK DEF SegmentOf
      <3>3. \A a \in Evf2!DecodeEvf2(SegmentOf(c), LinkOf(c)) :
              DecodesTo(a, SegmentOf(c), LinkOf(c)) /\ Kept(a.gives, FALSE) /\ FailsForGood(a)
        BY <3>2, DecodeEvf2OK, DecodeEvf2Kept
      <3> QED
        BY <2>2, <3>3, DecodeSegmentMore
    <2>3. CASE SegmentAsked(c)
      BY <2>3, SegmentAskedMore
    <2>4. CASE Find(c)
      BY <2>4, FindMore
    <2>5. CASE NextSegment(c)
      BY <2>5, NextSegmentMore
    <2>6. CASE NextTable(c)
      BY <2>6, NextTableMore
    <2>7. CASE NextChunk(c, Evf2!IndexEvf2(frame[c].at, Table(c)))
      <3>1. pc[c] = "chunk" /\ pc[c] \in InTable
        BY <2>7 DEF NextChunk, InTable
      <3>2. Sane /\ IsIn(frame[c].at, frame[c].seg, frame[c].tab) =>
              Evf2!IndexEvf2(frame[c].at, Table(c)) \in 0..(Table(c).count - 1)
        BY <3>1, IndexAt DEF AtItsEntry
      <3> QED
        BY <2>7, <3>1, <3>2, NextChunkMore
    <2>8. CASE AllocEntries(c)
      BY <2>8, AllocEntriesMore
    <2>9. CASE FillEntries(c)
      BY <2>9, FillEntriesMore
    <2>10. CASE SeekChunk(c, Evf2!SeekEvf2(frame[c]))
      <3>1. \A a \in Evf2!SeekEvf2(frame[c]) : /\ a.cursor \in Cursors /\ a.cursor.at # "section"
                                               /\ a.out \in {"ok", "error", "panic"}
        BY SeekEvf2Type
      <3>2. Sane /\ IsIn(frame[c].at, frame[c].seg, frame[c].tab) /\ frame[c].entry = "full" =>
              \A a \in Evf2!SeekEvf2(frame[c]) :
                /\ a.cursor = At("chunk", frame[c].at \div ChunkSectors)
                /\ a.out = "ok"
        BY SeekEvf2Finds
      <3> QED
        BY <2>10, <3>1, <3>2, SeekChunkMore
    <2>11. CASE ReadChunk(c, Evf2!ReadEvf2(frame[c]), TRUE)
      <3>1. pc[c] = "data"
        BY <2>11 DEF ReadChunk
      <3>2. \A a \in Evf2!ReadEvf2(frame[c]) : a.out \in {"ok", "error", "fault"}
        BY <3>1, ReadEvf2Type DEF GivesBytes
      <3>3. Sane /\ IsIn(frame[c].at, frame[c].seg, frame[c].tab) /\ frame[c].entry = "full"
              /\ segs[frame[c].seg].cursor = At("chunk", frame[c].at \div ChunkSectors) =>
              ReadsTheChunk(frame[c], Evf2!ReadEvf2(frame[c]))
        BY <3>1, ReadEvf2Reads DEF AtItsEntry
      <3> QED
        BY <2>11, <3>2, <3>3, ReadChunkMore
    <2>12. \/ Call(c) \/ DecodeSegment(c, Evf2!DecodeEvf2(SegmentOf(c), LinkOf(c)))
           \/ SegmentAsked(c) \/ Find(c) \/ NextSegment(c) \/ NextTable(c)
           \/ NextChunk(c, Evf2!IndexEvf2(frame[c].at, Table(c)))
           \/ AllocEntries(c) \/ FillEntries(c)
           \/ SeekChunk(c, Evf2!SeekEvf2(frame[c]))
           \/ ReadChunk(c, Evf2!ReadEvf2(frame[c]), TRUE)
      BY <1>3, Evf2Call, Evf2DecodeSegment, Evf2SegmentOf, Evf2LinkOf, Evf2SegmentAsked,
         Evf2Find, Evf2NextSegment, Evf2NextTable, Evf2NextChunk, Evf2Table, Evf2AllocEntries,
         Evf2FillEntries, Evf2SeekChunk, Evf2ReadChunk
         DEF Evf2!Step
    <2> QED
      BY <2>1, <2>2, <2>3, <2>4, <2>5, <2>6, <2>7, <2>8, <2>9, <2>10, <2>11, <2>12
  <1>4. \/ UNCHANGED vars \/ OpenEWF(decodes)
        \/ \E c \in Clients : Evf2!Call(c) \/ Evf2!Step(c)
    <2>1. decodes = [f \in DOMAIN Files |-> Evf2!DecodeEvf2(Evf2!NewSegment(f), <<>>)]
      BY Evf2NewSegment
    <2> HIDE DEF decodes
    <2> QED
      BY <2>1, Evf2OpenEWF DEF Evf2!Next
  <1> QED
    BY <1>1, <1>2, <1>3, <1>4

\* The same of the EVF2 reader, where a segment may be decoded before the one
\* in front of it, and twice.
THEOREM Evf2ReaderRightWhenIntact == Evf2!Spec => []RightWhenIntact
  <1>1. Evf2!Init => Inv(FALSE) /\ More(FALSE)
    BY InitOK, InitMore, Evf2Init, Zenon
  <1>2. Inv(FALSE) /\ More(FALSE) /\ [Evf2!Next]_Evf2!vars => Inv(FALSE)' /\ More(FALSE)'
    <2> SUFFICES ASSUME Inv(FALSE), More(FALSE), [Evf2!Next]_Evf2!vars
                 PROVE  Inv(FALSE)' /\ More(FALSE)'
      BY Zenon
    <2>1. [Evf2!Next]_vars
      BY DEF vars, Evf2!vars
    <2> QED
      BY <2>1, NextEvf2OK, NextEvf2More, Zenon
  <1>3. Inv(FALSE) /\ More(FALSE) => RightWhenIntact
    BY MoreRight, Zenon
  <1> QED
    BY <1>1, <1>2, <1>3, PTL DEF Evf2!Spec

LEMMA Evf2ImageSectors == Evf2!ImageSectors = ImageSectors
    BY Evf2ImageChunks DEF ImageSectors, Evf2!ImageSectors

LEMMA Evf2ReadAt ==
    ASSUME NEW sectors, NEW off, NEW len
    PROVE  Evf2!ReadAt(sectors, off, len) = ReadAt(sectors, off, len)
    BY DEF ReadAt, SectorsAsked, CeilDiv, Lesser, CopyLength, Outcome, BytesFrom,
       Evf2!ReadAt, Evf2!SectorsAsked, Evf2!CeilDiv, Evf2!Lesser, Evf2!CopyLength,
       Evf2!Outcome, Evf2!BytesFrom

LEMMA Evf2Intact == Evf2!Intact <=> Intact
    BY Evf2ChunksIn, Evf2ChunksBefore, Evf2TableStart, Evf2At DEF Intact, Evf2!Intact

LEMMA Evf2RightWhenIntact == Evf2!RightWhenIntact <=> RightWhenIntact
    BY Evf2Intact, Evf2ReadAt, Evf2ImageSectors, Evf2NoOutcome
       DEF RightWhenIntact, IsRight, Evf2!RightWhenIntact, Evf2!IsRight
=============================================================================
