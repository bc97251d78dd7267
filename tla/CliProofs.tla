----------------------------- MODULE CliProofs -----------------------------
(***************************************************************************)
(* Theorems about Cli, for every image, range, buffer and source file: the *)
(* types, that dump writes nothing but the range it was asked for and all  *)
(* of it when it succeeds, and that create stores its source.              *)
(***************************************************************************)
EXTENDS Cli, EwfLemmas, FiniteSetTheorems

(***************************************************************************)
(* Sectors: the arithmetic of ReadAt.                                      *)
(***************************************************************************)
\* As many sectors as n bytes need: they hold n, and less than a sector more.
LEMMA CeilDivBounds ==
    ASSUME NEW n \in Nat, NEW s \in Nat \ {0}
    PROVE  /\ CeilDiv(n, s) \in Nat
           /\ n <= CeilDiv(n, s) * s
           /\ CeilDiv(n, s) * s < n + s
  <1> DEFINE m == n + s - 1
             q == m \div s
             r == m % s
  <1>1. m \in Nat
    OBVIOUS
  <1> HIDE DEF m
  <1>2. q \in Nat /\ r \in Nat /\ r < s /\ m = (s * q) + r
    BY <1>1, Quotient
  <1>3. CeilDiv(n, s) = q
    BY DEF CeilDiv, m
  <1> HIDE DEF q, r
  <1>4. s * q = q * s /\ q * s \in Nat
    BY <1>2
  <1>5. q * s = n + s - 1 - r
    BY <1>2, <1>4 DEF m
  <1> QED
    BY <1>2, <1>3, <1>4, <1>5

(***************************************************************************)
(* BytesFrom.                                                              *)
(***************************************************************************)
LEMMA BytesFromIs ==
    ASSUME NEW off \in Nat, NEW n \in Nat
    PROVE  /\ BytesFrom(off, n) \in Seq(Nat)
           /\ Len(BytesFrom(off, n)) = n
           /\ \A i \in 1..n : BytesFrom(off, n)[i] = off + i - 1
           /\ BytesFrom(off, n) = <<>> <=> n = 0
  BY NumbersAre DEF BytesFrom, Numbers

\* The bytes that follow go on where the first ones stop.
LEMMA BytesFromConcat ==
    ASSUME NEW off \in Nat, NEW a \in Nat, NEW b \in Nat
    PROVE  BytesFrom(off, a) \o BytesFrom(off + a, b) = BytesFrom(off, a + b)
  BY NumbersConcat DEF BytesFrom, Numbers

LEMMA BytesFromPrefix ==
    ASSUME NEW off \in Nat, NEW a \in Nat, NEW b \in Nat, a <= b
    PROVE  IsPrefix(BytesFrom(off, a), BytesFrom(off, b))
  <1> DEFINE s == BytesFrom(off, a)
             t == BytesFrom(off, b)
  <1>1. /\ s \in Seq(Nat) /\ Len(s) = a
        /\ \A i \in 1..a : s[i] = off + i - 1
    BY BytesFromIs
  <1>2. /\ t \in Seq(Nat) /\ Len(t) = b
        /\ \A i \in 1..b : t[i] = off + i - 1
    BY BytesFromIs
  <1> HIDE DEF s, t
  <1>3. SubSeq(s, 1, a) = s
    BY <1>1, SubSeqFull
  <1>4. /\ SubSeq(t, 1, a) \in Seq(Nat) /\ Len(SubSeq(t, 1, a)) = a
        /\ \A i \in 1..a : SubSeq(t, 1, a)[i] = t[i]
    <2>1. \A i \in 1..a : t[i] \in Nat
      BY <1>2
    <2>2. /\ SubSeq(t, 1, a) \in Seq(Nat)
          /\ Len(SubSeq(t, 1, a)) = IF 1 <= a THEN a - 1 + 1 ELSE 0
          /\ \A i \in 1..(a - 1 + 1) : SubSeq(t, 1, a)[i] = t[1 + i - 1]
      <3>1. 1 \in Int /\ a \in Int
        OBVIOUS
      <3> QED
        BY <2>1, <3>1, SubSeqProperties
    <2> QED
      BY <2>2
  <1>5. \A i \in 1..a : SubSeq(t, 1, a)[i] = s[i]
    BY <1>1, <1>2, <1>4
  <1>6. SubSeq(t, 1, a) = s
    BY <1>1, <1>4, <1>5, SeqEqual
  <1> QED
    BY <1>1, <1>2, <1>3, <1>6 DEF IsPrefix, s, t

(***************************************************************************)
(* ReadAt.                                                                 *)
(***************************************************************************)

\* The sectors asked for hold the bytes asked for, counted from the sector's
\* start or not, and less than two sectors more.
LEMMA SectorsAskedBounds ==
    ASSUME NEW off \in Nat, NEW len \in Nat
    PROVE  /\ SectorsAsked(off, len) \in Nat
           /\ len <= SectorsAsked(off, len) * SectorSize
           /\ SectorsAsked(off, len) * SectorSize < len + 2 * SectorSize
  <1> DEFINE n == (IF FromSectorStart THEN off % SectorSize ELSE 0) + len
  <1>1. SectorSize \in Nat \ {0}
    BY ReadAtAssumption
  <1>2. (off % SectorSize) \in Nat /\ (off % SectorSize) < SectorSize
    BY <1>1, Quotient
  <1>3. n \in Nat /\ len <= n /\ n < len + SectorSize
    BY <1>1, <1>2
  <1>4. SectorsAsked(off, len) = CeilDiv(n, SectorSize)
    BY DEF SectorsAsked
  <1> HIDE DEF n
  <1>5. PICK c \in Nat : c = CeilDiv(n, SectorSize)
    BY <1>1, <1>3, CeilDivBounds
  <1>6. n <= c * SectorSize /\ c * SectorSize < n + SectorSize
    BY <1>1, <1>3, <1>5, CeilDivBounds
  <1>7. c * SectorSize \in Nat
    BY <1>1, Product
  <1> QED
    BY <1>1, <1>3, <1>4, <1>5, <1>6, <1>7

\* A caller gets no more than there is and no more than it asked for.
LEMMA CopyLengthBounds ==
    ASSUME NEW n \in Nat, NEW len \in Nat
    PROVE  /\ CopyLength(n, len) \in Nat
           /\ CopyLength(n, len) <= n /\ CopyLength(n, len) <= len
           /\ n \in 1..(Width - 1) /\ len \in 1..(Width - 1) => CopyLength(n, len) > 0
  <1>1. Width \in Nat \ {0}
    BY ReadAtAssumption
  <1>2. /\ (n % Width) \in Nat /\ (n % Width) <= n
        /\ n < Width => (n % Width) = n
    BY <1>1, Remainder
  <1>3. /\ (len % Width) \in Nat /\ (len % Width) <= len
        /\ len < Width => (len % Width) = len
    BY <1>1, Remainder
  <1> DEFINE x == n % Width
             y == len % Width
  <1>4. CopyLength(n, len) = IF x < y THEN x ELSE y
    BY DEF CopyLength, Lesser
  <1>5. /\ x \in Nat /\ x <= n /\ n < Width => x = n
        /\ y \in Nat /\ y <= len /\ len < Width => y = len
    BY <1>2, <1>3
  <1> HIDE DEF x, y
  <1> QED
    BY <1>1, <1>2, <1>3, <1>4, <1>5 DEF x, y

\* What a read gives: some of the bytes from its offset on, in the image and in
\* the caller's buffer; none only if it fails, or if the buffer is empty or has
\* a length that is not below Width.
LEMMA ReadAtGives ==
    ASSUME NEW sectors \in Nat, NEW off \in Nat, NEW len \in Nat
    PROVE  LET r == ReadAt(sectors, off, len)
           IN  \E n \in Nat :
                 /\ r.data = BytesFrom(off, n)
                 /\ n <= len
                 /\ n > 0 => off + n <= sectors * SectorSize
                 /\ r.err # "range" /\ len \in 1..(Width - 2 * SectorSize) => n > 0
                 /\ r.err \in {"nil", "EOF", "range"}
  <1> DEFINE r == ReadAt(sectors, off, len)
             sector == off \div SectorSize
             asked == SectorsAsked(off, len)
             inside == off % SectorSize
             k == IF asked < sectors - sector THEN asked ELSE sectors - sector
             read == k * SectorSize
  <1>1. SectorSize \in Nat \ {0} /\ Width \in Nat \ {0}
    BY ReadAtAssumption
  <1>2. /\ sector \in Nat /\ inside \in Nat /\ inside < SectorSize
        /\ off = (SectorSize * sector) + inside
    BY <1>1, Quotient
  <1>3. /\ asked \in Nat /\ len <= asked * SectorSize
        /\ asked * SectorSize < len + 2 * SectorSize
    BY SectorsAskedBounds
  <1> DEFINE given == IF inside >= read THEN 0 ELSE CopyLength(read - inside, len)
             err == IF given = 0 /\ asked > sectors - sector THEN "EOF" ELSE "nil"
  <1>4. r = IF sector >= sectors THEN Outcome(off, len, <<>>, "range")
            ELSE Outcome(off, len, BytesFrom(off, given), err)
    BY DEF ReadAt, Lesser
  <1>5. BytesFrom(off, 0) = <<>>
    <2>1. 0 \in Nat
      OBVIOUS
    <2> QED
      BY <2>1, BytesFromIs
  <1> HIDE DEF r, sector, asked, inside
  <1>6. CASE sector >= sectors
    <2>1. r.data = <<>> /\ r.err = "range"
      BY <1>4, <1>6 DEF Outcome
    <2> QED
      BY <2>1, <1>5 DEF r
  <1>7. CASE ~(sector >= sectors)
    <2>1. k \in Nat /\ k <= asked /\ k <= sectors - sector /\ (asked > 0 => k > 0)
      BY <1>2, <1>3, <1>7
    <2>2. PICK left \in Nat : left = sectors - sector
      BY <1>2, <1>7
    <2> HIDE DEF k
    <2>3. /\ read \in Nat /\ read <= asked * SectorSize /\ read <= left * SectorSize
          /\ k > 0 => SectorSize <= read
      <3>1. read <= asked * SectorSize /\ read <= left * SectorSize
        BY <1>1, <1>3, <2>1, <2>2, ProductGrows
      <3>2. k > 0 => 1 * SectorSize <= read
        BY <1>1, <2>1, ProductGrows
      <3>3. read \in Nat
        BY <1>1, <2>1, Product
      <3> QED
        BY <1>1, <3>1, <3>2, <3>3
    <2>4. (SectorSize * sector) + (left * SectorSize) = sectors * SectorSize
      BY <1>1, <1>2, <2>2
    <2> HIDE DEF read
    <2>5. len > 0 => k > 0
      <3>1. asked = 0 => asked * SectorSize = 0
        BY <1>1
      <3> QED
        BY <1>3, <2>1, <3>1
    <2>6. CASE inside >= read
      <3>1. r.data = <<>> /\ r.err \in {"nil", "EOF"}
        BY <1>4, <1>5, <1>7, <2>6 DEF Outcome
      <3>2. len = 0
        BY <1>1, <1>2, <2>3, <2>5, <2>6
      <3> QED
        BY <3>1, <3>2, <1>5 DEF r
    <2>7. CASE ~(inside >= read)
      <3> DEFINE n == CopyLength(read - inside, len)
      <3>1. PICK rest \in Nat : rest = read - inside
        BY <1>2, <2>3, <2>7
      <3>2. r.data = BytesFrom(off, n) /\ r.err \in {"nil", "EOF"}
        BY <1>4, <1>7, <2>7 DEF Outcome
      <3>3. /\ n \in Nat /\ n <= rest /\ n <= len
            /\ rest \in 1..(Width - 1) /\ len \in 1..(Width - 1) => n > 0
        BY <3>1, CopyLengthBounds
      <3> HIDE DEF n
      <3>4. off + n <= sectors * SectorSize
        <4>1. PICK a \in Nat, b \in Nat : a = SectorSize * sector /\ b = left * SectorSize
          BY <1>1, <1>2, Product
        <4>2. PICK c \in Nat : c = sectors * SectorSize
          BY <1>1, Product
        <4> QED
          BY <1>2, <2>3, <2>4, <3>1, <3>3, <4>1, <4>2
      <3>5. ASSUME len \in 1..(Width - 2 * SectorSize)
            PROVE  n > 0
        <4>1. PICK a \in Nat : a = asked * SectorSize
          BY <1>1, <1>3, Product
        <4>2. rest < len + 2 * SectorSize
          BY <1>1, <1>2, <1>3, <2>3, <3>1, <4>1
        <4>3. rest \in 1..(Width - 1) /\ len \in 1..(Width - 1)
          BY <1>1, <1>2, <2>3, <2>7, <3>1, <3>5, <4>2
        <4> QED
          BY <3>3, <4>3
      <3> QED
        BY <3>2, <3>3, <3>4, <3>5 DEF r
    <2> QED
      BY <2>6, <2>7
  <1> QED
    BY <1>6, <1>7

(***************************************************************************)
(* The segment files.                                                      *)
(***************************************************************************)
LEMMA MinIs ==
    ASSUME NEW T, T \subseteq Nat, T # {}
    PROVE  Min(T) \in T /\ \A y \in T : Min(T) <= y
  <1> DEFINE R == OpToRel(<, Nat)
  <1>1. IsWellFoundedOn(R, Nat)
    BY NatLessThanWellFounded
  <1> HIDE DEF R
  <1>2. PICK x \in T : \A y \in T : <<y, x>> \notin R
    BY <1>1, WFMin
  <1>3. \A y \in T : x <= y
    <2> TAKE y \in T
    <2>1. x \in Nat /\ y \in Nat
      BY <1>2
    <2>2. y < x => <<y, x>> \in R
      BY <2>1 DEF R, OpToRel
    <2> QED
      BY <1>2, <2>1, <2>2
  <1> QED
    BY <1>2, <1>3 DEF Min

\* What is opened is an initial part of the image's files.
LEMMA OpensABeginning ==
    ASSUME NEW d \in Directories
    PROVE  \E k \in 1..ImageFiles : OpenAllSegments(d) = 1..k
  <1> DEFINE missing == {i \in 2..MaxSegments : i = MaxSegments \/ i \notin d}
             m == Min(missing)
  <1>1. /\ MaxSegments \in Nat \ {0, 1} /\ ImageFiles \in Nat \ {0}
        /\ 1 \in d /\ d \subseteq 1..ImageFiles
    BY CliAssumption
  <1>2. missing \subseteq Nat /\ MaxSegments \in missing
    BY <1>1
  <1>3. m \in missing /\ \A y \in missing : m <= y
    <2> HIDE DEF missing
    <2> QED
      BY <1>2, MinIs
  <1>4. OpenAllSegments(d) = 1..(m - 1)
    BY DEF OpenAllSegments
  <1> HIDE DEF m
  <1>5. m \in 2..MaxSegments
    BY <1>3
  <1>6. m - 1 \in d
    <2>1. CASE m = 2
      BY <1>1, <2>1
    <2>2. CASE m # 2
      <3>1. m - 1 \in 2..MaxSegments /\ m - 1 \notin missing
        BY <1>1, <1>3, <1>5, <2>2
      <3> QED
        BY <3>1
    <2> QED
      BY <2>1, <2>2
  <1> QED
    BY <1>1, <1>4, <1>6

\* The files found hold no more than the image's size says.
LEMMA HeldInImage ==
    ASSUME OpenImage
    PROVE  held' \in Nat /\ held' * SectorSize <= ImageSize
  <1>1. PICK d \in Directories : held' = Cardinality(OpenAllSegments(d)) * FileSectors
    BY DEF OpenImage
  <1>2. PICK k \in 1..ImageFiles : OpenAllSegments(d) = 1..k
    BY OpensABeginning
  <1>3. /\ SectorSize \in Nat /\ FileSectors \in Nat /\ ImageFiles \in Nat
        /\ k \in Nat /\ k <= ImageFiles
    BY ReadAtAssumption, CliAssumption
  <1>4. Cardinality(1..k) = k
    <2>1. 1 \in Int /\ k \in Int
      OBVIOUS
    <2>2. Cardinality(1..k) = IF 1 > k THEN 0 ELSE k - 1 + 1
      BY <2>1, FS_Interval
    <2> QED
      BY <1>3, <2>2
  <1>5. held' = k * FileSectors
    BY <1>1, <1>2, <1>4
  <1>6. PICK a \in Nat, b \in Nat : a = k * FileSectors /\ b = ImageFiles * FileSectors
    BY <1>3, Product
  <1>7. a <= b
    BY <1>3, <1>6, ProductGrows
  <1>8. a * SectorSize <= b * SectorSize
    BY <1>3, <1>7, ProductGrows
  <1> QED
    BY <1>5, <1>6, <1>8 DEF ImageSize

LEMMA ImageSizeType == ImageSize \in Nat
  <1>1. SectorSize \in Nat /\ FileSectors \in Nat /\ ImageFiles \in Nat
    BY ReadAtAssumption, CliAssumption
  <1>2. PICK b \in Nat : b = ImageFiles * FileSectors
    BY <1>1, Product
  <1> QED
    BY <1>1, <1>2, Product DEF ImageSize

(***************************************************************************)
(* The inductive invariant: the loops move the position and the output     *)
(* together, and what was put out is a piece of the image or of the source.*)
(***************************************************************************)
Copied == /\ position = want.off + Len(out)
          /\ out = BytesFrom(want.off, Len(out))

DumpInv ==
    command = "dump" =>
      /\ Len(out) <= want.len
      /\ Len(out) > 0 => want.off + Len(out) <= ImageSize
      /\ status = "ok" /\ faults = 0 /\ buffer \in 1..(Width - 2 * SectorSize)
           => Len(out) = want.len

CreateInv ==
    command \in {"evf1", "evf2"} =>
      /\ want.off = 0
      /\ changes = 0 => size = declared /\ Len(out) <= declared
      /\ status = "ok" /\ changes = 0 /\ buffer # 0 => Len(out) = declared

CliInv == /\ TypeOK /\ held * SectorSize <= ImageSize
          /\ Copied /\ DumpInv /\ CreateInv

\* TypeOK, one variable at a time.
LEMMA Types ==
    TypeOK <=> /\ command \in {"none", "dump", "verify", "evf1", "evf2"}
               /\ status \in {"running", "ok", "error"}
               /\ want \in [off : Nat, len : Nat] /\ out \in Seq(Nat)
               /\ held \in Nat /\ buffer \in Nat /\ position \in Nat
               /\ size \in Nat /\ declared \in Nat /\ faults \in Nat /\ changes \in Nat
  BY DEF TypeOK

LEMMA InitInv == Init => CliInv
  <1> SUFFICES ASSUME Init PROVE CliInv
    OBVIOUS
  <1>1. BytesFrom(0, 0) = <<>>
    <2>1. 0 \in Nat
      OBVIOUS
    <2> QED
      BY <2>1, BytesFromIs
  <1>2. out \in Seq(Nat) /\ Len(out) = 0
    BY EmptySeq DEF Init
  <1>3. want \in [off : Nat, len : Nat] /\ want.off = 0
    BY DEF Init, Bytes
  <1>4. TypeOK
    BY <1>2, <1>3, Types DEF Init
  <1>5. held * SectorSize <= ImageSize
    <2>1. 0 * SectorSize = 0
      BY ReadAtAssumption
    <2> QED
      BY <2>1, ImageSizeType DEF Init
  <1>6. Copied
    BY <1>1, <1>2, <1>3 DEF Init, Copied
  <1> QED
    BY <1>4, <1>5, <1>6 DEF CliInv, Init, DumpInv, CreateInv

\* A command that starts has put out nothing.
LEMMA StartKeeps ==
    ASSUME CliInv, NEW c \in {"dump", "verify", "evf1", "evf2"},
           NEW s \in {"running", "error"}, NEW w \in [off : Nat, len : Nat],
           NEW b \in Nat, Start(c, s, w, b),
           held' \in Nat, held' * SectorSize <= ImageSize, size' \in Nat, declared' \in Nat,
           c \in {"evf1", "evf2"} => w.off = 0 /\ size' = declared'
    PROVE  CliInv'
  <1>1. /\ command' = c /\ status' = s /\ want' = w /\ buffer' = b
        /\ position' = w.off /\ out' = <<>> /\ faults' = faults /\ changes' = changes
    BY DEF Start
  <1>2. out' \in Seq(Nat) /\ Len(out') = 0
    BY <1>1, EmptySeq
  <1>3. TypeOK'
    <2>1. faults \in Nat /\ changes \in Nat
      BY Types DEF CliInv
    <2> QED
      BY <1>1, <1>2, <2>1 DEF TypeOK
  <1>4. Copied'
    <2>1. BytesFrom(w.off, 0) = <<>>
      <3>1. 0 \in Nat /\ w.off \in Nat
        OBVIOUS
      <3> QED
        BY <3>1, BytesFromIs
    <2> QED
      BY <1>1, <1>2, <2>1 DEF Copied
  <1>5. DumpInv'
    BY <1>1, <1>2 DEF DumpInv
  <1>6. CreateInv'
    BY <1>1, <1>2 DEF CreateInv
  <1>7. (held * SectorSize <= ImageSize)'
    BY DEF ImageSize
  <1> QED
    BY <1>3, <1>4, <1>5, <1>6, <1>7 DEF CliInv

LEMMA StartsKeep ==
    ASSUME CliInv, Dump \/ Verify \/ Create
    PROVE  CliInv'
  <1>1. ImageSize \in Nat
    BY ImageSizeType
  <1>2. size \in Nat /\ declared \in Nat
    BY Types DEF CliInv
  <1>3. Offsets \subseteq Nat /\ Lengths \subseteq Nat \cup {-1} /\ Buffers \subseteq Nat
        /\ SourceSizes \subseteq Nat
    BY CliAssumption
  <1>4. CASE Dump
    <2>1. OpenImage
      BY <1>4 DEF Dump
    <2>2. PICK off \in Offsets, length \in Lengths, b \in Buffers :
            LET all == length = -1 \/ Long(off + length) > ImageSize
            IN  IF off >= ImageSize THEN Start("dump", "error", Bytes(off, 0), b)
                ELSE Start("dump", "running",
                           Bytes(off, IF all THEN ImageSize - off ELSE length), b)
      BY <1>4 DEF Dump
    <2>3. held' \in Nat /\ held' * SectorSize <= ImageSize
      BY <2>1, HeldInImage
    <2>4. size' = size /\ declared' = declared
      BY <2>1 DEF OpenImage
    <2>5. off \in Nat /\ b \in Nat
      BY <1>3
    <2>6. CASE off >= ImageSize
      <3>1. Start("dump", "error", Bytes(off, 0), b)
        BY <2>2, <2>6
      <3>2. Bytes(off, 0) \in [off : Nat, len : Nat]
        BY <2>5 DEF Bytes
      <3> QED
        BY <1>2, <2>3, <2>4, <2>5, <3>1, <3>2, StartKeeps
    <2>7. CASE ~(off >= ImageSize)
      <3> DEFINE all == length = -1 \/ Long(off + length) > ImageSize
                 n == IF all THEN ImageSize - off ELSE length
      <3>1. Start("dump", "running", Bytes(off, n), b)
        BY <2>2, <2>7
      <3>2. n \in Nat
        <4>1. length # -1 => length \in Nat
          BY <1>3
        <4>2. ImageSize - off \in Nat
          BY <1>1, <2>5, <2>7
        <4> QED
          BY <4>1, <4>2
      <3> HIDE DEF n
      <3>3. Bytes(off, n) \in [off : Nat, len : Nat]
        BY <2>5, <3>2 DEF Bytes
      <3> QED
        BY <1>2, <2>3, <2>4, <2>5, <3>1, <3>3, StartKeeps
    <2> QED
      BY <2>6, <2>7
  <1>5. CASE Verify
    <2>1. OpenImage
      BY <1>5 DEF Verify
    <2>2. PICK b \in Buffers : Start("verify", "running", Bytes(0, ImageSize), b)
      BY <1>5 DEF Verify
    <2>3. held' \in Nat /\ held' * SectorSize <= ImageSize
      BY <2>1, HeldInImage
    <2>4. size' = size /\ declared' = declared
      BY <2>1 DEF OpenImage
    <2>5. Bytes(0, ImageSize) \in [off : Nat, len : Nat] /\ b \in Nat
      BY <1>1, <1>3 DEF Bytes
    <2> QED
      BY <1>2, <2>2, <2>3, <2>4, <2>5, StartKeeps
  <1>6. CASE Create
    <2>1. PICK format \in {"evf1", "evf2"}, b \in Buffers, n \in SourceSizes :
            /\ Start(format, "running", Bytes(0, n), b)
            /\ size' = n /\ declared' = n /\ held' = 0
      BY <1>6 DEF Create
    <2>2. n \in Nat /\ b \in Nat
      BY <1>3
    <2>3. Bytes(0, n) \in [off : Nat, len : Nat] /\ Bytes(0, n).off = 0
      BY <2>2 DEF Bytes
    <2>4. held' \in Nat /\ held' * SectorSize <= ImageSize
      <3>1. 0 * SectorSize = 0
        BY ReadAtAssumption
      <3> QED
        BY <1>1, <2>1, <3>1
    <2> QED
      BY <2>1, <2>2, <2>3, <2>4, StartKeeps
  <1> QED
    BY <1>4, <1>5, <1>6

(***************************************************************************)
(* The turns.                                                              *)
(***************************************************************************)

\* A turn that puts out the next n bytes keeps position and output together.
LEMMA MoveKeeps ==
    ASSUME TypeOK, Copied, NEW n \in Nat, want' = want,
           out' = out \o BytesFrom(position, n),
           position' = position + n
    PROVE  /\ Copied' /\ out' \in Seq(Nat) /\ position' \in Nat
           /\ Len(out') = Len(out) + n
  <1> DEFINE a == Len(out)
             off == want.off
  <1>1. /\ out \in Seq(Nat) /\ position \in Nat
        /\ want \in [off : Nat, len : Nat]
    BY Types
  <1>2. a \in Nat /\ off \in Nat
    BY <1>1, LenProperties
  <1>3. position = off + a /\ out = BytesFrom(off, a)
    BY DEF Copied
  <1> HIDE DEF a, off
  <1>4. out' = BytesFrom(off, a + n)
    BY <1>2, <1>3, BytesFromConcat
  <1>5. a + n \in Nat
    BY <1>2
  <1>6. out' \in Seq(Nat) /\ Len(out') = a + n
    BY <1>2, <1>4, <1>5, BytesFromIs
  <1>7. position' = off + (a + n)
    BY <1>2, <1>3
  <1>8. Copied'
    BY <1>4, <1>6, <1>7 DEF Copied, off
  <1> QED
    BY <1>1, <1>6, <1>8 DEF a

\* A command that ends without an error has what it was to have.
LEMMA DoneKeeps ==
    ASSUME CliInv, NEW s \in {"ok", "error"}, Done(s), status = "running",
           faults' \in Nat, faults <= faults',
           s = "ok" /\ command = "dump" /\ faults' = 0
             /\ buffer \in 1..(Width - 2 * SectorSize) => Len(out) = want.len,
           s = "ok" /\ command \in {"evf1", "evf2"} /\ changes = 0 /\ buffer # 0
             => Len(out) = declared
    PROVE  CliInv'
  <1>1. /\ status' = s /\ command' = command /\ want' = want /\ held' = held
        /\ buffer' = buffer /\ position' = position /\ out' = out /\ size' = size
        /\ declared' = declared /\ changes' = changes
    BY DEF Done
  <1>2. TypeOK'
    BY <1>1 DEF CliInv, TypeOK
  <1>3. Copied'
    BY <1>1 DEF CliInv, Copied
  <1>4. DumpInv'
    BY <1>1 DEF CliInv, DumpInv, ImageSize
  <1>5. CreateInv'
    BY <1>1 DEF CliInv, CreateInv
  <1> QED
    BY <1>1, <1>2, <1>3, <1>4, <1>5 DEF CliInv, ImageSize

\* One turn over the image.
LEMMA CopyFromKeeps ==
    ASSUME CliInv, NEW asked \in Nat, CopyFrom(asked),
           command \in {"dump", "verify"}, status = "running",
           command = "dump" => /\ asked <= want.len - Len(out)
                               /\ asked <= buffer
                               /\ buffer \in Nat \ {0} => asked > 0
    PROVE  CliInv'
  <1> DEFINE r == ReadAt(held, position, asked)
  <1>1. /\ faults' = faults
        /\ IF r.err \notin {"nil", "EOF"} THEN Done("error")
           ELSE IF r.data = <<>> THEN Done("ok")
           ELSE /\ out' = out \o r.data
                /\ position' = position + Len(r.data)
                /\ UNCHANGED <<command, status, want, held, buffer, size, declared, changes>>
    BY DEF CopyFrom
  <1>2. /\ held \in Nat /\ position \in Nat /\ faults \in Nat /\ buffer \in Nat
        /\ out \in Seq(Nat) /\ want \in [off : Nat, len : Nat] /\ TypeOK
        /\ Copied /\ DumpInv /\ held * SectorSize <= ImageSize
    BY Types DEF CliInv
  <1>3. PICK n \in Nat :
          /\ r.data = BytesFrom(position, n)
          /\ n <= asked
          /\ n > 0 => position + n <= held * SectorSize
          /\ r.err # "range" /\ asked \in 1..(Width - 2 * SectorSize) => n > 0
          /\ r.err \in {"nil", "EOF", "range"}
    BY <1>2, ReadAtGives
  <1> HIDE DEF r
  <1>4. Len(r.data) = n /\ (r.data = <<>> <=> n = 0)
    <2>1. position \in Nat
      BY <1>2
    <2>2. Len(BytesFrom(position, n)) = n /\ (BytesFrom(position, n) = <<>> <=> n = 0)
      BY <2>1, BytesFromIs
    <2> QED
      BY <1>3, <2>2
  <1>5. Len(out) \in Nat /\ want.len \in Nat /\ want.off \in Nat
    BY <1>2, LenProperties
  <1>6. CASE r.err = "range"
    BY <1>1, <1>2, <1>6, DoneKeeps
  <1>7. CASE r.err # "range" /\ n = 0
    <2>1. Done("ok")
      BY <1>1, <1>3, <1>4, <1>7
    <2>2. ~(command = "dump" /\ buffer \in 1..(Width - 2 * SectorSize))
      <3>1. SectorSize \in Nat /\ Width \in Nat
        BY ReadAtAssumption
      <3>2. ~(asked \in 1..(Width - 2 * SectorSize))
        BY <1>3, <1>7
      <3> QED
        BY <1>2, <3>1, <3>2
    <2>3. ~(command \in {"evf1", "evf2"})
      OBVIOUS
    <2> QED
      BY <1>1, <1>2, <2>1, <2>2, <2>3, DoneKeeps
  <1>8. CASE r.err # "range" /\ n # 0
    <2>1. /\ out' = out \o BytesFrom(position, n) /\ position' = position + n
          /\ command' = command /\ status' = status /\ want' = want /\ held' = held
          /\ buffer' = buffer /\ size' = size /\ declared' = declared /\ changes' = changes
          /\ faults' = faults
      BY <1>1, <1>3, <1>4, <1>8
    <2>2. /\ Copied' /\ out' \in Seq(Nat) /\ position' \in Nat
          /\ Len(out') = Len(out) + n
      BY <1>2, <2>1, MoveKeeps
    <2>3. TypeOK'
      BY <1>2, <2>1, <2>2 DEF TypeOK
    <2>4. DumpInv'
      <3> SUFFICES ASSUME command = "dump" PROVE DumpInv'
        BY <2>1 DEF DumpInv
      <3>1. Len(out') <= want.len
        BY <1>3, <1>5, <2>2
      <3>2. want.off + Len(out') <= ImageSize
        <4>1. want.off + Len(out') = position + n
          BY <1>2, <1>5, <2>2 DEF Copied
        <4>2. held * SectorSize \in Nat /\ ImageSize \in Nat
          BY <1>2, ReadAtAssumption, Product, ImageSizeType
        <4> QED
          BY <1>2, <1>3, <1>8, <4>1, <4>2
      <3>3. ImageSize' = ImageSize /\ status' # "ok"
        BY <2>1 DEF ImageSize
      <3> QED
        BY <2>1, <3>1, <3>2, <3>3 DEF DumpInv
    <2>5. CreateInv'
      BY <2>1 DEF CreateInv
    <2> QED
      BY <1>2, <2>1, <2>2, <2>3, <2>4, <2>5 DEF CliInv, ImageSize
  <1> QED
    BY <1>3, <1>6, <1>7, <1>8

LEMMA TurnKeeps ==
    ASSUME CliInv, Turn
    PROVE  CliInv'
  <1>1. /\ buffer \in Nat /\ position \in Nat /\ size \in Nat /\ faults \in Nat
        /\ declared \in Nat /\ changes \in Nat
        /\ out \in Seq(Nat) /\ want \in [off : Nat, len : Nat]
        /\ TypeOK /\ Copied /\ DumpInv /\ CreateInv /\ held * SectorSize <= ImageSize
    BY Types DEF CliInv
  <1>2. Len(out) \in Nat /\ want.len \in Nat
    BY <1>1, LenProperties
  <1>3. CASE DumpTurn
    <2>1. command = "dump" /\ status = "running"
      BY <1>3 DEF DumpTurn, Running
    <2>2. CASE Len(out) < want.len
      <3> DEFINE asked == Lesser(buffer, want.len - Len(out))
      <3>1. CopyFrom(asked)
        BY <1>3, <2>2 DEF DumpTurn
      <3>2. /\ asked \in Nat /\ asked <= want.len - Len(out) /\ asked <= buffer
            /\ buffer \in Nat \ {0} => asked > 0
        BY <1>1, <1>2, <2>2 DEF Lesser
      <3> HIDE DEF asked
      <3> QED
        BY <2>1, <3>1, <3>2, CopyFromKeeps
    <2>3. CASE ~(Len(out) < want.len)
      <3>1. Done("ok") /\ faults' = faults
        BY <1>3, <2>3 DEF DumpTurn
      <3>2. Len(out) = want.len
        BY <1>1, <1>2, <2>1, <2>3 DEF DumpInv
      <3> QED
        BY <1>1, <2>1, <3>1, <3>2, DoneKeeps
    <2> QED
      BY <2>2, <2>3
  <1>4. CASE VerifyTurn
    <2>1. command = "verify" /\ status = "running" /\ CopyFrom(buffer)
      BY <1>4 DEF VerifyTurn, Running
    <2> QED
      BY <1>1, <2>1, CopyFromKeeps
  <1>5. CASE CreateTurn
    <2> DEFINE left == IF position < size THEN size - position ELSE 0
               n == Lesser(buffer, left)
    <2>1. command \in {"evf1", "evf2"} /\ status = "running"
      BY <1>5 DEF CreateTurn, Running
    <2>2. /\ IF n = 0 THEN Done("ok")
             ELSE /\ out' = out \o BytesFrom(position, n)
                  /\ position' = position + n
                  /\ UNCHANGED <<command, status, want, held, buffer, size, declared, changes>>
          /\ faults' = faults
      BY <1>5 DEF CreateTurn
    <2>3. n \in Nat /\ (n = 0 <=> buffer = 0 \/ position >= size)
          /\ (n > 0 => position + n <= size)
      BY <1>1 DEF Lesser
    <2> HIDE DEF n
    <2>4. position = Len(out) /\ (changes = 0 => size = declared /\ Len(out) <= declared)
      <3>1. want.off = 0 /\ (changes = 0 => size = declared /\ Len(out) <= declared)
        BY <1>1, <2>1 DEF CreateInv
      <3> QED
        BY <1>1, <1>2, <3>1 DEF Copied
    <2>5. CASE n = 0
      <3>1. changes = 0 /\ buffer # 0 => Len(out) = declared
        BY <1>1, <1>2, <2>3, <2>4, <2>5
      <3>2. Done("ok")
        BY <2>2, <2>5
      <3> QED
        BY <1>1, <2>1, <2>2, <3>1, <3>2, DoneKeeps
    <2>6. CASE n # 0
      <3>1. /\ out' = out \o BytesFrom(position, n) /\ position' = position + n
            /\ command' = command /\ status' = status /\ want' = want /\ held' = held
            /\ buffer' = buffer /\ size' = size /\ declared' = declared
            /\ changes' = changes /\ faults' = faults
        BY <2>2, <2>6
      <3>2. /\ Copied' /\ out' \in Seq(Nat) /\ position' \in Nat
            /\ Len(out') = Len(out) + n
        BY <1>1, <2>3, <3>1, MoveKeeps
      <3>3. TypeOK'
        BY <1>1, <3>1, <3>2 DEF TypeOK
      <3>4. CreateInv'
        <4>1. changes = 0 => Len(out') <= declared
          BY <1>1, <1>2, <2>3, <2>4, <2>6, <3>2
        <4>2. want.off = 0 /\ (changes = 0 => size = declared)
          BY <1>1, <2>1 DEF CreateInv
        <4> QED
          BY <2>1, <3>1, <4>1, <4>2 DEF CreateInv
      <3>5. DumpInv'
        BY <2>1, <3>1 DEF DumpInv
      <3> QED
        BY <1>1, <3>1, <3>2, <3>3, <3>4, <3>5 DEF CliInv, ImageSize
    <2> QED
      BY <2>5, <2>6
  <1> QED
    BY <1>3, <1>4, <1>5 DEF Turn

LEMMA StepKeepsInv == CliInv /\ [Next]_vars => CliInv'
  <1> SUFFICES ASSUME CliInv, [Next]_vars PROVE CliInv'
    OBVIOUS
  <1>1. /\ faults \in Nat /\ changes \in Nat /\ TypeOK
    BY Types DEF CliInv
  <1>2. CASE Dump \/ Verify \/ Create
    BY <1>2, StartsKeep
  <1>3. CASE Turn
    BY <1>3, TurnKeeps
  <1>4. CASE ReadFails
    <2>1. /\ command \in {"dump", "verify"} /\ status = "running" /\ faults' = faults + 1
      BY <1>4 DEF ReadFails, Running
    <2>2. PICK s \in {"ok", "error"} : Done(s)
      BY <1>4 DEF ReadFails
    <2>3. faults' \in Nat /\ faults <= faults' /\ faults' # 0
      BY <1>1, <2>1
    <2>4. ~(command \in {"evf1", "evf2"})
      BY <2>1
    <2> QED
      BY <2>1, <2>2, <2>3, <2>4, DoneKeeps
  <1>5. CASE OtherFails
    <2>1. status = "running" /\ faults' = faults + 1 /\ Done("error")
      BY <1>5 DEF OtherFails, Running
    <2>2. faults' \in Nat /\ faults <= faults'
      BY <1>1, <2>1
    <2> QED
      BY <2>1, <2>2, DoneKeeps
  <1>6. CASE SourceChanges
    <2>1. /\ command \in {"evf1", "evf2"} /\ status = "running"
          /\ size' \in Nat /\ changes' = changes + 1
          /\ command' = command /\ status' = status /\ want' = want /\ held' = held
          /\ buffer' = buffer /\ position' = position /\ out' = out
          /\ declared' = declared /\ faults' = faults
      BY <1>6, CliAssumption DEF SourceChanges, Running
    <2>2. changes' \in Nat /\ changes' # 0
      BY <1>1, <2>1
    <2>3. TypeOK'
      BY <1>1, <2>1, <2>2 DEF TypeOK
    <2> QED
      BY <2>1, <2>2, <2>3 DEF CliInv, Copied, DumpInv, CreateInv, ImageSize
  <1>7. CASE UNCHANGED vars
    BY <1>7 DEF vars, CliInv, TypeOK, Copied, DumpInv, CreateInv, ImageSize
  <1> QED
    BY <1>2, <1>3, <1>4, <1>5, <1>6, <1>7 DEF Next

LEMMA AlwaysInv == Spec => []CliInv
  BY InitInv, StepKeepsInv, PTL DEF Spec

(***************************************************************************)
(* The theorems.                                                           *)
(***************************************************************************)

\* The types hold in every reachable state, whatever the image, the range, the
\* buffer and the failures are.
THEOREM TypeCorrect == Spec => []TypeOK
  <1>1. CliInv => TypeOK
    BY DEF CliInv
  <1> QED
    BY <1>1, AlwaysInv, PTL

\* dump never writes a byte outside the range it was asked for or out of its
\* place, and when it succeeds without a failed read it has written all of it:
\* whichever segment files are there, and whether reads count their sectors from
\* the start of the first one (evf2) or not (evf1).
THEOREM DumpCopies == Spec => []DumpCopiesTheRange
  <1>1. ASSUME CliInv PROVE DumpCopiesTheRange
    <2> SUFFICES ASSUME command = "dump" PROVE DumpCopiesTheRange
      BY DEF DumpCopiesTheRange
    <2>1. /\ out \in Seq(Nat) /\ want \in [off : Nat, len : Nat] /\ Copied /\ DumpInv
      BY <1>1, Types DEF CliInv
    <2>2. Len(out) \in Nat /\ want.off \in Nat /\ want.len \in Nat
      BY <2>1, LenProperties
    <2>3. IsPrefix(out, BytesFrom(want.off, want.len))
      <3>1. IsPrefix(BytesFrom(want.off, Len(out)), BytesFrom(want.off, want.len))
        BY <2>1, <2>2, BytesFromPrefix DEF DumpInv
      <3> QED
        BY <2>1, <3>1 DEF Copied
    <2>4. out # <<>> => Len(out) > 0
      BY <2>1, <2>2, EmptySeq
    <2> QED
      BY <2>1, <2>3, <2>4 DEF DumpInv, DumpCopiesTheRange
  <1> QED
    BY <1>1, AlwaysInv, PTL

\* create puts the bytes of the source into the image in their order without a
\* gap, and all of them when nothing changed or failed: the size it declared is
\* then the size stored.
THEOREM CreateStores == Spec => []CreateStoresTheSource
  <1>1. ASSUME CliInv PROVE CreateStoresTheSource
    BY <1>1 DEF CliInv, Copied, CreateInv, CreateStoresTheSource
  <1> QED
    BY <1>1, AlwaysInv, PTL
=============================================================================
