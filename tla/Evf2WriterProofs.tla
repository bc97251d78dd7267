-------------------------- MODULE Evf2WriterProofs --------------------------
(***************************************************************************)
(* Theorems about Evf2Writer, for every value of its constants: its types, *)
(* that it only appends, and that the chain of descriptors can always be   *)
(* continued; then what it does with the bytes it is given: it neither     *)
(* drops nor repeats one (NothingLost), and what it hashed can be found in *)
(* the file through the tables (IndexedDataIsHashed).  NothingLost is      *)
(* inductive together with WriterInv; the argument is that of              *)
(* Evf1WriterProofs.                                                       *)
(***************************************************************************)
EXTENDS Evf2Writer, EwfLemmas

Extents == [at : Nat, len : Nat, obj : Object]

Within(d, q) == \A e \in d : e.at + e.len <= q

\* The file d that ends at p became r, which ends at q: only more was added.
Grown(d, p, r, q) ==
    /\ r \in SUBSET Extents /\ q \in Nat
    /\ Within(d, p) => d \subseteq r /\ Within(r, q)

\* What the types need of the fixed sizes and of the sections' names.
LEMMA Sizes ==
    /\ FileHeaderSize \in Nat /\ HashDataSize \in Nat
    /\ DescriptorSize \in Nat /\ DescriptorSize > 0
  BY DEF FileHeaderSize, DescriptorSize, HashDataSize

LEMMA Names ==
    /\ "device" \in SectionTypes /\ "case" \in SectionTypes
    /\ "sectors" \in SectionTypes /\ "table" \in SectionTypes
    /\ "md5" \in SectionTypes /\ "sha1" \in SectionTypes
    /\ "done" \in SectionTypes
  BY DEF SectionTypes

(***************************************************************************)
(* The helpers grow the file.                                              *)
(***************************************************************************)
\* Storing an object at the end.
LEMMA PutGrows ==
    ASSUME NEW d \in SUBSET Extents, NEW p \in Nat, NEW n \in Nat,
           NEW o \in Object
    PROVE  /\ Grown(d, p, Put(d, p, n, o), p + n)
           /\ n > 0 => [at |-> p, len |-> n, obj |-> o] \in Put(d, p, n, o)
  <1>1. Put(d, p, n, o) \in SUBSET Extents /\ p + n \in Nat
    BY DEF Put, Extents
  <1>2. ASSUME Within(d, p)
        PROVE  d \subseteq Put(d, p, n, o) /\ Within(Put(d, p, n, o), p + n)
    BY <1>2 DEF Put, Within, Extents
  <1>3. n > 0 => [at |-> p, len |-> n, obj |-> o] \in Put(d, p, n, o)
    BY DEF Put
  <1> QED
    BY <1>1, <1>2, <1>3 DEF Grown

\* One growth after another.
LEMMA GrownTwice ==
    ASSUME NEW d, NEW p, NEW r, NEW q, NEW s, NEW t,
           Grown(d, p, r, q), Grown(r, q, s, t)
    PROVE  Grown(d, p, s, t)
  BY DEF Grown

\* A write that fails.
LEMMA TearGrows ==
    ASSUME NEW d \in SUBSET Extents, NEW p \in Nat, NEW k \in Nat
    PROVE  Grown(d, p, Tear(d, p, k), p + k)
  <1>1. Torn \in Object
    BY DEF Torn, Object
  <1> QED
    BY <1>1, PutGrows DEF Tear

LEMMA SectionType ==
    ASSUME NEW type \in SectionTypes, NEW size \in Nat, NEW previous \in Nat
    PROVE  /\ Section(type, size, previous) \in Object
           /\ Section(type, size, previous).kind = "section"
  BY DEF Section, Object

\* A section, and the descriptor that the next one will be linked to.
LEMMA PutSectionGrows ==
    ASSUME NEW d \in SUBSET Extents, NEW p \in Nat, NEW type \in SectionTypes,
           NEW n \in Nat, NEW previous \in Nat, NEW body \in Object
    PROVE  /\ Grown(d, p, PutSection(d, p, type, n, previous, body),
                    p + n + DescriptorSize)
           /\ Holds(PutSection(d, p, type, n, previous, body), p + n, "section")
  <1> DEFINE desc == Section(type, n, previous)
             mid == Put(d, p, n, body)
             new == [at |-> p + n, len |-> DescriptorSize, obj |-> desc]
  <1>1. desc \in Object /\ desc.kind = "section"
    BY SectionType
  <1>2. Grown(d, p, mid, p + n) /\ mid \in SUBSET Extents /\ p + n \in Nat
    BY PutGrows DEF Grown
  <1>3. PutSection(d, p, type, n, previous, body)
          = Put(mid, p + n, DescriptorSize, desc)
    BY DEF PutSection
  <1> HIDE DEF desc, mid
  <1>4. /\ Grown(mid, p + n, Put(mid, p + n, DescriptorSize, desc),
                 p + n + DescriptorSize)
        /\ new \in Put(mid, p + n, DescriptorSize, desc)
    BY <1>1, <1>2, Sizes, PutGrows
  <1>5. Grown(d, p, Put(mid, p + n, DescriptorSize, desc), p + n + DescriptorSize)
    BY <1>2, <1>4, GrownTwice
  <1>6. new.at = p + n /\ new.obj.kind = "section"
    BY <1>1
  <1> QED
    BY <1>3, <1>4, <1>5, <1>6 DEF Holds

LEMMA TearSectionGrows ==
    ASSUME NEW d \in SUBSET Extents, NEW p \in Nat, NEW n \in Nat,
           NEW body \in Object, NEW k \in Nat
    PROVE  Grown(d, p, TearSection(d, p, n, body, k), p + k)
  <1> DEFINE mid == Put(d, p, n, body)
             j == k - n
  <1>1. CASE k < n
    BY <1>1, TearGrows DEF TearSection
  <1>2. CASE ~(k < n)
    <2>1. j \in Nat /\ p + n \in Nat /\ p + n + j = p + k
      BY <1>2
    <2>2. Grown(d, p, mid, p + n) /\ mid \in SUBSET Extents
      BY PutGrows DEF Grown
    <2>3. TearSection(d, p, n, body, k) = Tear(mid, p + n, j)
      BY <1>2 DEF TearSection
    <2> HIDE DEF mid, j
    <2>4. Grown(mid, p + n, Tear(mid, p + n, j), p + n + j)
      BY <2>1, <2>2, TearGrows
    <2> QED
      BY <2>1, <2>2, <2>3, <2>4, GrownTwice
  <1> QED
    BY <1>1, <1>2

(***************************************************************************)
(* The inductive invariant.  Everything lies before pos, which is why a    *)
(* write meets nothing that is there; and Write takes a chunk from the     *)
(* front of buf only when there is one.                                    *)
(***************************************************************************)
FlushReady == pc = "flush" => ChunkSize <= Len(buf)

WriterInv == TypeOK /\ FlushReady /\ Within(disk, pos) /\ PreviousIsADescriptor

DeviceStep == Grown(disk, pos, disk', pos')

\* The file grew, and what is on record as the last descriptor is one.
LinkedStep == /\ DeviceStep /\ prev' \in Nat
              /\ hidden \/ prev' = 0 \/ Holds(disk', prev', "section")

(***************************************************************************)
(* The steps actions are made of.                                          *)
(***************************************************************************)
\* A file that grows still has its last descriptor.
LEMMA StaysLinked ==
    ASSUME WriterInv, DeviceStep, UNCHANGED prev
    PROVE  LinkedStep
  <1>1. disk \subseteq disk' /\ prev' \in Nat
    BY DEF WriterInv, DeviceStep, Grown, TypeOK
  <1>2. hidden \/ prev' = 0 \/ Holds(disk', prev', "section")
    BY <1>1 DEF WriterInv, PreviousIsADescriptor, Holds
  <1> QED
    BY <1>1, <1>2 DEF LinkedStep

LEMMA DeviceType ==
    ASSUME WriterInv
    PROVE  /\ disk \in SUBSET Extents /\ pos \in Nat /\ prev \in Nat
           /\ faults \in Nat /\ TypeOK
  BY DEF WriterInv, TypeOK, Extents

LEMMA AppendSectionStep ==
    ASSUME WriterInv, NEW type \in SectionTypes, NEW n \in Nat,
           NEW previous \in Nat, NEW body \in Object,
           AppendSection(type, n, previous, body)
    PROVE  LinkedStep
  <1>1. disk \in SUBSET Extents /\ pos \in Nat /\ prev \in Nat
    BY DeviceType
  <1>2. /\ disk' = PutSection(disk, pos, type, n, previous, body)
        /\ pos' = pos + n + DescriptorSize /\ prev' = pos + n
    BY DEF AppendSection
  <1>3. DeviceStep /\ Holds(disk', pos + n, "section")
    BY <1>1, <1>2, PutSectionGrows DEF DeviceStep
  <1>4. prev' \in Nat
    BY <1>1, <1>2
  <1> QED
    BY <1>2, <1>3, <1>4 DEF LinkedStep

LEMMA FailSectionStep ==
    ASSUME WriterInv, NEW n \in Nat, NEW body \in Object, FailSection(n, body)
    PROVE  LinkedStep /\ faults' \in Nat
  <1>1. disk \in SUBSET Extents /\ pos \in Nat /\ faults \in Nat
    BY DeviceType
  <1>2. PICK k \in TornLens : /\ Fault(k, n + DescriptorSize)
                              /\ disk' = TearSection(disk, pos, n, body, k)
                              /\ pos' = pos + k
    BY DEF FailSection
  <1>3. k \in Nat
    BY LengthAssumption
  <1>4. DeviceStep
    BY <1>1, <1>2, <1>3, TearSectionGrows DEF DeviceStep
  <1>5. UNCHANGED prev
    BY DEF FailSection
  <1>6. faults' \in Nat
    BY <1>1, <1>2 DEF Fault
  <1> QED
    BY <1>4, <1>5, <1>6, StaysLinked

\* A descriptor without data, as sectors and done have.
LEMMA DescriptorStep ==
    ASSUME WriterInv, NEW type \in SectionTypes, NEW size \in Nat,
           disk' = Put(disk, pos, DescriptorSize, Section(type, size, prev)),
           pos' = pos + DescriptorSize, prev' = pos
    PROVE  LinkedStep
  <1> DEFINE desc == Section(type, size, prev)
             new == [at |-> pos, len |-> DescriptorSize, obj |-> desc]
  <1>1. disk \in SUBSET Extents /\ pos \in Nat /\ prev \in Nat
    BY DeviceType
  <1>2. desc \in Object /\ desc.kind = "section"
    BY <1>1, SectionType
  <1> HIDE DEF desc
  <1>3. DeviceStep /\ new \in disk'
    BY <1>1, <1>2, Sizes, PutGrows DEF DeviceStep, desc
  <1>4. new.at = pos /\ new.obj.kind = "section"
    BY <1>2
  <1>5. Holds(disk', prev', "section")
    BY <1>3, <1>4 DEF Holds
  <1> QED
    BY <1>1, <1>3, <1>5 DEF LinkedStep

\* A torn write at the end of the file.
LEMMA TornTailStep ==
    ASSUME WriterInv, NEW k \in TornLens, NEW n, Fault(k, n),
           disk' = Tear(disk, pos, k), pos' = pos + k
    PROVE  DeviceStep /\ faults' \in Nat /\ pos' \in Nat
  <1>1. disk \in SUBSET Extents /\ pos \in Nat /\ faults \in Nat /\ k \in Nat
    BY DeviceType, LengthAssumption
  <1> QED
    BY <1>1, TearGrows DEF DeviceStep, Fault

(***************************************************************************)
(* Chunks and their tables.                                                *)
(***************************************************************************)
LEMMA AddTableEntryType ==
    ASSUME NEW ts \in Seq(TableType), ts # <<>>, NEW n \in Nat, NEW offset \in Nat,
           NEW size \in Nat, NEW packed \in BOOLEAN
    PROVE  LET r == AddTableEntry(ts, n, offset, size, packed)
           IN  r \in Seq(TableType) /\ r # <<>> /\ Len(ts) <= Len(r)
  <1> DEFINE m == Len(ts)
             last == ts[m]
             entry == [offset |-> offset, size |-> size, packed |-> packed]
             alone == [first |-> n, entries |-> <<entry>>]
             more == [last EXCEPT !.entries = Append(@, entry)]
  <1>1. m \in Nat \ {0} /\ DOMAIN ts = 1..m /\ last \in TableType
    BY LenProperties, EmptySeq, ElementOfSeq
  <1>2. entry \in Entry
    BY DEF Entry
  <1> HIDE DEF entry
  <1>3. alone \in TableType
    BY <1>2 DEF TableType
  <1>4. more \in TableType
    <2>1. Append(last.entries, entry) \in Seq(Entry)
      BY <1>1, <1>2, AppendProperties DEF TableType
    <2> QED
      BY <1>1, <2>1 DEF TableType
  <1>5. \A t \in TableType :
          /\ Append(ts, t) \in Seq(TableType) /\ Append(ts, t) # <<>>
          /\ Len(ts) <= Len(Append(ts, t))
    BY <1>1, AppendProperties
  <1>6. \A t \in TableType :
          /\ [ts EXCEPT ![m] = t] \in Seq(TableType) /\ [ts EXCEPT ![m] = t] # <<>>
          /\ Len(ts) <= Len([ts EXCEPT ![m] = t])
    BY <1>1, ExceptSeq, LenProperties, EmptySeq
  <1>7. AddTableEntry(ts, n, offset, size, packed)
          \in {Append(ts, alone), [ts EXCEPT ![m] = alone], [ts EXCEPT ![m] = more]}
    BY DEF AddTableEntry, entry
  <1> QED
    BY <1>3, <1>4, <1>5, <1>6, <1>7

\* Padding is bytes.
LEMMA PaddingType ==
    ASSUME NEW b \in Seq(Nat), NEW n \in Nat
    PROVE  Padding(b, n) \in Seq(Nat)
  <1> DEFINE m == IF Len(b) >= n THEN 0 ELSE n - Len(b)
  <1>1. m \in Nat
    BY LenProperties
  <1>2. [i \in 1..m |-> 0] \in Seq(Nat)
    BY <1>1
  <1> QED
    BY <1>2 DEF Padding

LEMMA MinType ==
    ASSUME NEW a \in Nat, NEW b \in Nat
    PROVE  Min({a, b}) \in Nat
  <1>1. \E x \in {a, b} : \A y \in {a, b} : x <= y
    OBVIOUS
  <1>2. Min({a, b}) \in {a, b}
    BY <1>1 DEF Min
  <1> QED
    BY <1>2

LEMMA PadTo16Type == \A n \in Nat : PadTo16(n) \in Nat
  BY DEF PadTo16

\* The variables writeData changes keep their types, and no table disappears.
ChunkStep == /\ DeviceStep
             /\ dataSize' \in Nat /\ padSize' \in Nat /\ chunkCount' \in Nat
             /\ faults' \in Nat /\ hashed' \in Seq(Nat)
             /\ tables' \in Seq(TableType) /\ tables' # <<>>
             /\ Len(tables) <= Len(tables')

LEMMA ChunkType ==
    ASSUME NEW data \in Seq(Nat), NEW c \in CompressedLens
    PROVE  /\ Chunk(data, c <= Len(data)) \in Object
           /\ (IF c <= Len(data) THEN c ELSE Len(data)) \in Nat
  <1>1. (c <= Len(data)) \in BOOLEAN
    OBVIOUS
  <1>2. \A packed \in BOOLEAN : Chunk(data, packed) \in Object
    BY DEF Chunk, Object
  <1>3. c \in Nat /\ Len(data) \in Nat
    BY LengthAssumption, LenProperties
  <1>4. (IF c <= Len(data) THEN c ELSE Len(data)) \in Nat
    BY <1>3
  <1> QED
    BY <1>1, <1>2, <1>4

LEMMA StoreChunkStep ==
    ASSUME WriterInv, NEW data \in Seq(Nat), StoreChunk(data)
    PROVE  ChunkStep
  <1>1. disk \in SUBSET Extents /\ pos \in Nat /\ TypeOK
    BY DeviceType
  <1>2. PICK c \in CompressedLens :
          LET packed == c <= Len(data)
              size == IF packed THEN c ELSE Len(data)
              pad == PadTo16(size)
          IN  /\ disk' = Put(Put(disk, pos, size, Chunk(data, packed)),
                             pos + size, pad, [kind |-> "pad"])
              /\ pos' = pos + size + pad
              /\ dataSize' = dataSize + size
              /\ padSize' = padSize + pad
              /\ tables' = AddTableEntry(tables, chunkCount, pos, size, packed)
    BY DEF StoreChunk
  <1> DEFINE packed == c <= Len(data)
             size == IF packed THEN c ELSE Len(data)
             pad == PadTo16(size)
             chunk == Chunk(data, packed)
             mid == Put(disk, pos, size, chunk)
  <1>3. packed \in BOOLEAN /\ size \in Nat /\ pad \in Nat /\ chunk \in Object
    BY ChunkType, PadTo16Type
  <1>4. /\ disk' = Put(mid, pos + size, pad, [kind |-> "pad"])
        /\ pos' = pos + size + pad
        /\ dataSize' = dataSize + size /\ padSize' = padSize + pad
        /\ tables' = AddTableEntry(tables, chunkCount, pos, size, packed)
    BY <1>2
  <1> HIDE DEF packed, size, pad, chunk
  <1>5. DeviceStep
    <2>1. [kind |-> "pad"] \in Object
      BY DEF Object
    <2>2. Grown(disk, pos, mid, pos + size) /\ mid \in SUBSET Extents
          /\ pos + size \in Nat
      BY <1>1, <1>3, PutGrows DEF Grown
    <2> HIDE DEF mid
    <2>3. Grown(mid, pos + size, Put(mid, pos + size, pad, [kind |-> "pad"]),
                pos + size + pad)
      BY <1>3, <2>1, <2>2, PutGrows
    <2> QED
      BY <1>4, <2>2, <2>3, GrownTwice DEF DeviceStep
  <1>6. /\ tables' \in Seq(TableType) /\ tables' # <<>>
        /\ Len(tables) <= Len(tables')
    BY <1>1, <1>3, <1>4, AddTableEntryType DEF TypeOK
  <1>7. dataSize' \in Nat /\ padSize' \in Nat
    BY <1>1, <1>3, <1>4 DEF TypeOK
  <1>8. chunkCount' \in Nat /\ hashed' \in Seq(Nat) /\ faults' \in Nat
    BY <1>1, ConcatProperties DEF StoreChunk, TypeOK
  <1> QED
    BY <1>5, <1>6, <1>7, <1>8 DEF ChunkStep

LEMMA LoseChunkStep ==
    ASSUME WriterInv, NEW data \in Seq(Nat), LoseChunk(data)
    PROVE  ChunkStep
  <1>1. disk \in SUBSET Extents /\ pos \in Nat /\ faults \in Nat /\ TypeOK
    BY DeviceType
  <1>2. PICK c \in CompressedLens, k \in TornLens :
          LET packed == c <= Len(data)
              size == IF packed THEN c ELSE Len(data)
          IN  /\ Fault(k, size + PadTo16(size))
              /\ disk' = TearSection(disk, pos, size, Chunk(data, packed), k)
              /\ pos' = pos + k
              /\ dataSize' = dataSize + Min({k, size})
    BY DEF LoseChunk
  <1> DEFINE packed == c <= Len(data)
             size == IF packed THEN c ELSE Len(data)
             chunk == Chunk(data, packed)
  <1>3. size \in Nat /\ chunk \in Object /\ k \in Nat
    BY ChunkType, LengthAssumption
  <1>4. /\ disk' = TearSection(disk, pos, size, chunk, k)
        /\ pos' = pos + k /\ dataSize' = dataSize + Min({k, size})
        /\ faults' = faults + 1
    BY <1>2 DEF Fault
  <1> HIDE DEF size, chunk
  <1>5. DeviceStep
    BY <1>1, <1>3, <1>4, TearSectionGrows DEF DeviceStep
  <1>6. dataSize' \in Nat /\ faults' \in Nat
    <2>1. Min({k, size}) \in Nat
      BY <1>3, MinType
    <2>2. \A m \in Nat : dataSize + m \in Nat
      BY <1>1 DEF TypeOK
    <2> QED
      BY <1>1, <1>4, <2>1, <2>2
  <1>7. UNCHANGED <<padSize, tables, chunkCount, hashed>>
    BY DEF LoseChunk
  <1> QED
    BY <1>1, <1>5, <1>6, <1>7, LenProperties DEF ChunkStep, TypeOK

(***************************************************************************)
(* The invariant is inductive.                                             *)
(***************************************************************************)
\* A step keeps the invariant, and everything that is in the file.
Kept == WriterInv' /\ disk \subseteq disk'

Places == StartPc \cup ClosePc \cup {"open", "flush", "failed"}

\* What every action that adds no chunk does to the variables.
LEMMA QuietStep ==
    ASSUME WriterInv, DeviceStep, prev' \in Nat, PreviousIsADescriptor',
           hidden' \in BOOLEAN, UNCHANGED chunks,
           buf' \in Seq(Nat), stream' \in Seq(Nat), declared' \in Nat,
           pc' \in Places, tbl' \in 1..Len(tables), result' \in Results,
           closes' \in Nat, faults' \in Nat,
           pc' # "flush" \/ ChunkSize <= Len(buf')
    PROVE  Kept
  <1>1. /\ disk \subseteq disk' /\ Within(disk', pos')
        /\ disk' \in SUBSET Extents /\ pos' \in Nat
    BY DEF WriterInv, DeviceStep, Grown
  <1>2. TypeOK'
    BY <1>1 DEF WriterInv, TypeOK, chunks, Extents, Places
  <1> QED
    BY <1>1, <1>2 DEF WriterInv, FlushReady, Kept

\* The same when it ends in a place where nothing is left to flush.
LEMMA LinkedStepType ==
    ASSUME WriterInv, LinkedStep, UNCHANGED <<hidden, chunks, buf, stream>>,
           declared' \in Nat, pc' \in Places \ {"flush"},
           tbl' \in 1..Len(tables), result' \in Results,
           closes' \in Nat, faults' \in Nat
    PROVE  Kept
  <1>1. PreviousIsADescriptor' /\ DeviceStep /\ prev' \in Nat
    BY DEF LinkedStep, PreviousIsADescriptor
  <1>2. /\ hidden' \in BOOLEAN /\ buf' \in Seq(Nat) /\ stream' \in Seq(Nat)
        /\ UNCHANGED chunks
    BY DEF WriterInv, TypeOK
  <1>3. pc' \in Places /\ pc' # "flush"
    OBVIOUS
  <1> QED
    BY <1>1, <1>2, <1>3, QuietStep

\* The actions that may add a chunk.
LEMMA ChunkStepType ==
    ASSUME WriterInv, ChunkStep, buf' \in Seq(Nat),
           UNCHANGED <<prev, declared, tbl, stream, hidden, closes>>,
           pc' \in Places, result' \in Results,
           pc' # "flush" \/ ChunkSize <= Len(buf')
    PROVE  Kept
  <1>1. DeviceStep
    BY DEF ChunkStep
  <1>2. /\ disk \subseteq disk' /\ Within(disk', pos')
        /\ disk' \in SUBSET Extents /\ pos' \in Nat
    BY <1>1 DEF WriterInv, DeviceStep, Grown
  <1>3. PreviousIsADescriptor'
    BY <1>1, StaysLinked DEF LinkedStep, PreviousIsADescriptor
  <1>4. tbl' \in 1..Len(tables')
    <2>1. Len(tables) \in Nat /\ Len(tables') \in Nat
      BY LenProperties DEF WriterInv, TypeOK, ChunkStep
    <2> QED
      BY <2>1 DEF WriterInv, TypeOK, ChunkStep
  <1>5. TypeOK'
    BY <1>2, <1>4 DEF WriterInv, TypeOK, ChunkStep, Extents, Places
  <1> QED
    BY <1>2, <1>3, <1>5 DEF WriterInv, FlushReady, Kept

\* A step of Start that appends a section.
LEMMA StartSectionType ==
    ASSUME WriterInv, NEW type \in SectionTypes, NEW n \in Nat,
           NEW previous \in Nat, NEW body \in Object,
           NEW from, NEW to \in {"case", "open"},
           StartStep(from, to, AppendSection(type, n, previous, body),
                     FailSection(n, body)),
           UNCHANGED declared
    PROVE  Kept
  <1>1. UNCHANGED <<hidden, chunks, buf, stream, tbl, closes, declared>>
    BY DEF StartStep
  <1>2. CASE /\ AppendSection(type, n, previous, body)
             /\ pc' = to /\ result' = "none" /\ UNCHANGED faults
    <2>1. LinkedStep
      BY <1>2, AppendSectionStep
    <2> QED
      BY <1>1, <1>2, <2>1, LinkedStepType
         DEF WriterInv, TypeOK, Places, StartPc, Results
  <1>3. CASE FailSection(n, body) /\ pc' = "failed" /\ result' = "startErr"
    <2>1. LinkedStep /\ faults' \in Nat
      BY <1>3, FailSectionStep
    <2> QED
      BY <1>1, <1>3, <2>1, LinkedStepType DEF WriterInv, TypeOK, Places, Results
  <1> QED
    BY <1>2, <1>3 DEF StartStep

\* A step of Close.
LEMMA CloseStepType ==
    ASSUME WriterInv, NEW from, NEW to \in ClosePc, NEW Step, NEW Failure,
           CloseStep(from, to, Step, Failure),
           Step => LinkedStep, Failure => LinkedStep /\ faults' \in Nat,
           UNCHANGED <<buf, chunks>>, tbl' \in 1..Len(tables)
    PROVE  Kept
  <1>1. UNCHANGED <<hidden, stream, closes, declared, buf, chunks>>
    BY DEF CloseStep
  <1>2. CASE Step /\ pc' = to /\ UNCHANGED <<result, faults>>
    BY <1>1, <1>2, LinkedStepType DEF WriterInv, TypeOK, Places, ClosePc
  <1>3. CASE Failure /\ pc' = "open" /\ result' = "closeErr"
    BY <1>1, <1>3, LinkedStepType DEF WriterInv, TypeOK, Places, Results
  <1> QED
    BY <1>2, <1>3 DEF CloseStep

\* What a table section holds.
LEMMA TableSection ==
    ASSUME WriterInv
    PROVE  TableDataSize(tables[tbl]) \in Nat /\ TableData(tables[tbl]) \in Object
  <1>1. tables[tbl] \in TableType
    BY ElementOfSeq DEF WriterInv, TypeOK
  <1>2. Len(tables[tbl].entries) \in Nat
    BY <1>1, LenProperties DEF TableType
  <1> QED
    BY <1>1, <1>2 DEF TableDataSize, TableData, TableType, Object

\* The MD5 and SHA1 sections: what every one of its three outcomes leaves.
LEMMA CloseHashType ==
    ASSUME WriterInv, NEW type \in {"md5", "sha1"}, NEW from,
           NEW to \in {"closeSHA1", "closeDone"}, CloseHash(type, from, to)
    PROVE  Kept
  <1> DEFINE body == [kind |-> type, sum |-> hashed]
  <1>1. /\ disk \in SUBSET Extents /\ pos \in Nat /\ prev \in Nat
        /\ faults \in Nat /\ TypeOK
    BY DeviceType
  <1>2. body \in Object /\ type \in SectionTypes /\ HashDataSize \in Nat
    BY <1>1, Names, Sizes DEF Object, TypeOK
  <1>3. UNCHANGED <<buf, chunks, declared, tbl, stream, closes>>
    BY DEF CloseHash
  <1>4. CASE /\ AppendSection(type, HashDataSize, prev, body)
             /\ pc' = to /\ UNCHANGED <<result, hidden, faults>>
    <2>1. LinkedStep
      BY <1>1, <1>2, <1>4, AppendSectionStep
    <2> QED
      BY <1>1, <1>3, <1>4, <2>1, LinkedStepType DEF TypeOK, Places, ClosePc
  <1>5. CASE SwallowedFault /\ pc' = to /\ UNCHANGED result
    <2>1. PICK k \in TornLens : /\ Fault(k, HashDataSize)
                                /\ disk' = Tear(disk, pos, k)
                                /\ pos' = pos + k /\ prev' = pos + k
      BY <1>5 DEF SwallowedFault
    <2>2. DeviceStep /\ faults' \in Nat /\ pos' \in Nat
      BY <2>1, TornTailStep
    <2>3. hidden' \in BOOLEAN /\ PreviousIsADescriptor'
      BY <1>5 DEF SwallowedFault, PreviousIsADescriptor
    <2>4. pc' \in Places /\ pc' # "flush"
      BY <1>5 DEF Places, ClosePc
    <2> QED
      BY <1>1, <1>3, <1>5, <2>1, <2>2, <2>3, <2>4, QuietStep DEF TypeOK
  <1>6. CASE /\ \E k \in TornLens :
                   /\ k >= HashDataSize /\ Fault(k, HashDataSize + DescriptorSize)
                   /\ disk' = TearSection(disk, pos, HashDataSize, body, k)
                   /\ pos' = pos + k
                   /\ UNCHANGED prev
             /\ pc' = "open" /\ result' = "closeErr" /\ UNCHANGED hidden
    <2>1. FailSection(HashDataSize, body)
      BY <1>6 DEF FailSection
    <2>2. LinkedStep /\ faults' \in Nat
      BY <1>2, <2>1, FailSectionStep
    <2> QED
      BY <1>1, <1>3, <1>6, <2>2, LinkedStepType DEF TypeOK, Places, Results
  <1> QED
    BY <1>4, <1>5, <1>6 DEF CloseHash

LEMMA InvInit == Init => WriterInv
  <1> SUFFICES ASSUME Init
               PROVE  WriterInv
    OBVIOUS
  <1>1. NewTable \in TableType
    BY EmptySeq DEF NewTable, TableType
  <1>2. <<NewTable>> \in Seq(TableType) /\ <<NewTable>> # <<>> /\ Len(<<NewTable>>) = 1
    BY <1>1
  <1>3. TypeOK
    <2>1. tbl \in 1..Len(tables) /\ tables \in Seq(TableType) /\ tables # <<>>
      BY <1>2 DEF Init
    <2> QED
      BY <2>1, EmptySeq DEF Init, TypeOK, StartPc, Results
  <1> QED
    BY <1>3 DEF Init, WriterInv, FlushReady, Within, PreviousIsADescriptor

LEMMA InvStep == WriterInv /\ [Next]_vars => Kept
  <1> SUFFICES ASSUME WriterInv, [Next]_vars
               PROVE  Kept
    OBVIOUS
  <1>1. /\ disk \in SUBSET Extents /\ pos \in Nat /\ prev \in Nat
        /\ faults \in Nat /\ TypeOK
    BY DeviceType
  <1>2. /\ tbl \in 1..Len(tables) /\ 1 \in 1..Len(tables) /\ Len(tables) \in Nat
        /\ buf \in Seq(Nat) /\ stream \in Seq(Nat) /\ Len(buf) \in Nat
        /\ ChunkSize \in Nat \ {0}
    BY <1>1, EmptySeq, LenProperties, ChunkSizeAssumption DEF TypeOK
  <1>3. CASE StartFileHeader
    <2>1. UNCHANGED <<hidden, chunks, buf, stream, tbl, closes, prev>>
      BY <1>3 DEF StartFileHeader, StartStep
    <2>2. \A totalSize \in TotalSizes :
            (totalSize + ChunkSize - 1) \div ChunkSize \in Nat
      <3>1. \A totalSize \in TotalSizes : totalSize + ChunkSize - 1 \in Nat
        BY <1>2, ClientAssumption
      <3>2. \A a \in Nat : \A b \in Nat \ {0} : a \div b \in Nat
        OBVIOUS
      <3> QED
        BY <1>2, <3>1, <3>2
    <2>3. CASE /\ disk' = Put(disk, pos, FileHeaderSize, [kind |-> "file"])
               /\ pos' = pos + FileHeaderSize
               /\ \E totalSize \in TotalSizes :
                     declared' = (totalSize + ChunkSize - 1) \div ChunkSize
               /\ pc' = "device" /\ result' = "none" /\ UNCHANGED faults
      <3>1. [kind |-> "file"] \in Object
        BY DEF Object
      <3>2. LinkedStep
        BY <1>1, <2>1, <2>3, <3>1, Sizes, PutGrows, StaysLinked DEF DeviceStep
      <3>3. declared' \in Nat
        BY <2>2, <2>3
      <3> QED
        BY <1>1, <2>1, <2>3, <3>2, <3>3, LinkedStepType
           DEF TypeOK, Places, StartPc, Results
    <2>4. CASE /\ \E k \in TornLens : /\ Fault(k, FileHeaderSize)
                                      /\ disk' = Tear(disk, pos, k)
                                      /\ pos' = pos + k
               /\ UNCHANGED declared
               /\ pc' = "failed" /\ result' = "startErr"
      <3>1. DeviceStep /\ faults' \in Nat
        BY <2>4, TornTailStep
      <3>2. LinkedStep
        BY <2>1, <3>1, StaysLinked
      <3> QED
        BY <1>1, <2>1, <2>4, <3>1, <3>2, LinkedStepType
           DEF TypeOK, Places, Results
    <2> QED
      BY <1>3, <2>3, <2>4 DEF StartFileHeader, StartStep
  <1>4. CASE StartDevice
    <2>1. [kind |-> "device"] \in Object /\ 0 \in Nat
      BY DEF Object
    <2> QED
      BY <1>4, <2>1, Names, LengthAssumption, StartSectionType DEF StartDevice
  <1>5. CASE StartCase
    <2>1. CaseData(declared) \in Object
      BY <1>1 DEF CaseData, Object, TypeOK
    <2> QED
      BY <1>1, <1>5, <2>1, Names, LengthAssumption, StartSectionType DEF StartCase
  <1>6. CASE Write
    <2>1. PICK n \in 0..MaxWrite :
            /\ buf' = buf \o [i \in 1..n |-> Len(stream) + i]
            /\ stream' = stream \o [i \in 1..n |-> Len(stream) + i]
      BY <1>6 DEF Write
    <2>2. n \in Nat /\ Len(stream) \in Nat
      BY <1>2, BoundAssumption, LenProperties
    <2>3. [i \in 1..n |-> Len(stream) + i] \in Seq(Nat)
      BY <2>2
    <2>4. buf' \in Seq(Nat) /\ stream' \in Seq(Nat)
      BY <1>2, <2>1, <2>3, ConcatProperties
    <2>5. DeviceStep /\ prev' \in Nat /\ PreviousIsADescriptor'
      BY <1>1, <1>6 DEF Write, WriterInv, DeviceStep, Grown, PreviousIsADescriptor
    <2>6. pc' # "flush" \/ ChunkSize <= Len(buf')
      <3>1. Len(buf') \in Nat
        BY <2>4, LenProperties
      <3> QED
        BY <1>2, <1>6, <3>1 DEF Write
    <2>7. /\ UNCHANGED <<chunks, declared, tbl, hidden, closes, faults>>
          /\ pc' \in Places /\ result' \in Results
      BY <1>6 DEF Write, Places, Results
    <2> QED
      BY <1>1, <2>4, <2>5, <2>6, <2>7, QuietStep DEF TypeOK
  <1>7. CASE FlushChunk
    <2>1. UNCHANGED <<prev, declared, tbl, stream, hidden, closes>>
      BY <1>7 DEF FlushChunk
    <2>2. pc' \in {"open", "flush"} /\ result' \in Results
      BY <1>1, <1>7 DEF FlushChunk, TypeOK, Results
    <2>3. pc' = "flush" => ~(Len(buf') < ChunkSize)
      BY <1>7 DEF FlushChunk
    <2>4. ChunkStep /\ buf' \in Seq(Nat)
      <3>1. ChunkSize <= Len(buf)
        BY <1>7 DEF FlushChunk, WriterInv, FlushReady
      <3>2. \A i \in 1..Len(buf) : buf[i] \in Nat
        BY <1>2, ElementOfSeq
      <3>3. SubSeq(buf, 1, ChunkSize) \in Seq(Nat)
        BY <1>2, <3>1, <3>2, SubSeqProperties
      <3>4. CASE StoreChunk(SubSeq(buf, 1, ChunkSize)) /\ buf' = Unflushed(buf)
        <4>1. Unflushed(buf) \in Seq(Nat)
          BY <1>2, <3>1, <3>2, SubSeqProperties DEF Unflushed
        <4> QED
          BY <3>3, <3>4, <4>1, StoreChunkStep
      <3>5. CASE LoseChunk(SubSeq(buf, 1, ChunkSize)) /\ UNCHANGED buf
        BY <1>2, <3>3, <3>5, LoseChunkStep
      <3> QED
        BY <1>7, <3>4, <3>5 DEF FlushChunk
    <2>5. pc' # "flush" \/ ChunkSize <= Len(buf')
      <3>1. Len(buf') \in Nat
        BY <2>4, LenProperties
      <3> QED
        BY <1>2, <2>3, <3>1
    <2> QED
      BY <2>1, <2>2, <2>4, <2>5, ChunkStepType DEF Places
  <1>8. CASE BeginClose
    <2>1. /\ UNCHANGED <<disk, pos, chunks, prev, declared, tbl, hidden, faults>>
          /\ closes' = closes + 1 /\ result' = "none"
          /\ pc' \in {"closeFlush", "closeSectors"}
      BY <1>8 DEF BeginClose
    <2>2. buf' \in Seq(Nat) /\ stream' \in Seq(Nat)
      <3>1. Padding(buf, ChunkSize) \in Seq(Nat)
        BY <1>2, PaddingType
      <3> QED
        BY <1>2, <1>8, <3>1, ConcatProperties DEF BeginClose
    <2>3. DeviceStep /\ prev' \in Nat /\ PreviousIsADescriptor'
      BY <1>1, <2>1 DEF WriterInv, DeviceStep, Grown, PreviousIsADescriptor
    <2>4. pc' \in Places /\ pc' # "flush" /\ result' \in Results
      BY <2>1 DEF Places, ClosePc, Results
    <2> QED
      BY <1>1, <2>1, <2>2, <2>3, <2>4, QuietStep DEF TypeOK
  <1>9. CASE CloseFlush
    <2>1. ChunkStep /\ buf' \in Seq(Nat)
      <3>1. CASE StoreChunk(buf) /\ buf' = <<>>
        BY <1>2, <3>1, StoreChunkStep, EmptySeq
      <3>2. CASE LoseChunk(buf) /\ UNCHANGED buf
        BY <1>2, <3>2, LoseChunkStep
      <3> QED
        BY <1>9, <3>1, <3>2 DEF CloseFlush, CloseStep
    <2>2. /\ UNCHANGED <<prev, declared, tbl, stream, hidden, closes>>
          /\ pc' \in {"closeSectors", "open"} /\ result' \in {result, "closeErr"}
      BY <1>9 DEF CloseFlush, CloseStep
    <2>3. pc' \in Places /\ pc' # "flush" /\ result' \in Results
      BY <1>1, <2>2 DEF Places, ClosePc, TypeOK, Results
    <2> QED
      BY <2>1, <2>2, <2>3, ChunkStepType
  <1>10. CASE CloseSectors
    <2> DEFINE size == dataSize + padSize
               desc == Section("sectors", size, prev)
               Step == /\ disk' = Put(disk, pos, DescriptorSize, desc)
                       /\ pos' = pos + DescriptorSize
                       /\ prev' = pos
               Failure == FailSection(0, desc)
    <2>1. size \in Nat
      BY <1>1 DEF TypeOK
    <2>2. CloseStep("closeSectors", "closeTable", Step, Failure)
          /\ tbl' = 1 /\ UNCHANGED <<buf, chunks>>
      BY <1>10 DEF CloseSectors
    <2>3. desc \in Object
      BY <1>1, <2>1, Names, SectionType
    <2>4. Step => LinkedStep
      BY <2>1, Names, DescriptorStep
    <2>5. Failure => LinkedStep /\ faults' \in Nat
      BY <2>3, FailSectionStep
    <2> HIDE DEF Step, Failure
    <2> QED
      BY <1>2, <2>2, <2>4, <2>5, CloseStepType DEF ClosePc
  <1>11. CASE CloseTable
    <2> DEFINE n == TableDataSize(tables[tbl])
               body == TableData(tables[tbl])
               Step == AppendSection("table", n, prev, body)
               Failure == FailSection(n, body)
    <2>1. n \in Nat /\ body \in Object
      BY TableSection
    <2>2. AfterTable \in ClosePc /\ NextTable \in 1..Len(tables)
      BY <1>2 DEF AfterTable, NextTable, ClosePc
    <2>3. CloseStep("closeTable", AfterTable, Step, Failure)
          /\ tbl' = NextTable /\ UNCHANGED <<buf, chunks>>
      BY <1>11 DEF CloseTable
    <2>4. Step => LinkedStep
      BY <1>1, <2>1, Names, AppendSectionStep
    <2>5. Failure => LinkedStep /\ faults' \in Nat
      BY <2>1, FailSectionStep
    <2> HIDE DEF Step, Failure
    <2> QED
      BY <2>2, <2>3, <2>4, <2>5, CloseStepType
  <1>12. CASE CloseMD5
    BY <1>12, CloseHashType DEF CloseMD5
  <1>13. CASE CloseSHA1
    BY <1>13, CloseHashType DEF CloseSHA1
  <1>14. CASE CloseDone
    <2> DEFINE desc == Section("done", 0, prev)
    <2>1. /\ UNCHANGED <<buf, chunks, declared, tbl, stream, hidden, closes>>
          /\ pc' = "open"
      BY <1>14 DEF CloseDone
    <2>2. CASE /\ disk' = Put(disk, pos, DescriptorSize, desc)
               /\ pos' = pos + DescriptorSize
               /\ prev' = pos
               /\ result' = "closed" /\ UNCHANGED faults
      <3>1. LinkedStep
        BY <2>2, Names, DescriptorStep
      <3> QED
        BY <1>1, <1>2, <2>1, <2>2, <3>1, LinkedStepType
           DEF TypeOK, Places, Results
    <2>3. CASE FailSection(0, desc) /\ result' = "closeErr"
      <3>1. desc \in Object
        BY <1>1, Names, SectionType
      <3>2. LinkedStep /\ faults' \in Nat
        BY <2>3, <3>1, FailSectionStep
      <3> QED
        BY <1>1, <1>2, <2>1, <2>3, <3>2, LinkedStepType
           DEF TypeOK, Places, Results
    <2> QED
      BY <1>14, <2>2, <2>3 DEF CloseDone
  <1>15. CASE UNCHANGED vars
    <2>1. WriterInv'
      BY <1>15 DEF vars, chunks, WriterInv, TypeOK, FlushReady, Within,
                   PreviousIsADescriptor
    <2> QED
      BY <1>15, <2>1 DEF vars, Kept
  <1> QED
    BY <1>3, <1>4, <1>5, <1>6, <1>7, <1>8, <1>9, <1>10, <1>11, <1>12, <1>13,
       <1>14, <1>15 DEF Next

LEMMA Invariant == Spec => []WriterInv
  <1>1. WriterInv /\ [Next]_vars => WriterInv'
    BY InvStep DEF Kept
  <1> QED
    BY <1>1, InvInit, PTL DEF Spec

\* Every variable keeps its type, and the loop of Close never indexes a table
\* that is not there.
THEOREM TypeCorrect == Spec => []TypeOK
  <1>1. WriterInv => TypeOK
    BY DEF WriterInv
  <1> QED
    BY <1>1, Invariant, PTL

\* No step of Start, Write or Close, failing or not, writes a byte of the file
\* a second time: what was stored before a fault is still there after it.
THEOREM Appends == Spec => AppendOnly
  <1>1. WriterInv /\ [Next]_vars => [disk \subseteq disk']_vars
    BY InvStep DEF Kept
  <1> QED
    BY <1>1, Invariant, PTL DEF Spec, AppendOnly

\* After any faults that were reported the last descriptor on record is in the
\* file, so a Close that is retried continues the chain.
THEOREM ChainKept == Spec => []PreviousIsADescriptor
  <1>1. WriterInv => PreviousIsADescriptor
    BY DEF WriterInv
  <1> QED
    BY <1>1, Invariant, PTL

DataInv == WriterInv /\ NothingLost

\* Bytes added to the end of buf and of the stream.
LEMMA AcceptBytes ==
    ASSUME DataInv, NEW p \in Seq(Nat), UNCHANGED hashed,
           buf' = buf \o p, stream' = stream \o p
    PROVE  NothingLost'
  <1>1. hashed \in Seq(Nat) /\ buf \in Seq(Nat) /\ hashed \o buf = stream
    BY DEF DataInv, WriterInv, TypeOK, NothingLost
  <1>2. hashed \o (buf \o p) = (hashed \o buf) \o p
    BY <1>1, Associative, Zenon
  <1> QED
    BY <1>1, <1>2 DEF NothingLost

\* A chunk moved from the front of buf to the hashers.
LEMMA MoveChunk ==
    ASSUME DataInv, pc = "flush", UNCHANGED stream,
           hashed' = hashed \o SubSeq(buf, 1, ChunkSize),
           buf' = Unflushed(buf)
    PROVE  NothingLost'
  <1>1. hashed \in Seq(Nat) /\ buf \in Seq(Nat) /\ hashed \o buf = stream
    BY DEF DataInv, WriterInv, TypeOK, NothingLost
  <1>2. Len(buf) \in Nat /\ ChunkSize \in Nat \ {0} /\ ChunkSize <= Len(buf)
    BY <1>1, LenProperties, ChunkSizeAssumption DEF DataInv, WriterInv, FlushReady
  <1> DEFINE front == SubSeq(buf, 1, ChunkSize)
             rest == SubSeq(buf, ChunkSize + 1, Len(buf))
  <1>3. front \in Seq(Nat) /\ rest \in Seq(Nat)
    <2>1. \A i \in 1..Len(buf) : buf[i] \in Nat
      BY <1>1, ElementOfSeq
    <2> QED
      BY <1>2, <2>1, SubSeqProperties
  <1>4. front \o rest = buf
    <2>1. ChunkSize \in 0..Len(buf)
      BY <1>2
    <2> QED
      BY <1>1, <2>1, CutInTwo
  <1>5. (hashed \o front) \o rest = hashed \o (front \o rest)
    BY <1>1, <1>3, Associative, Zenon
  <1> QED
    BY <1>1, <1>4, <1>5 DEF NothingLost, Unflushed

LEMMA DataInit == Init => NothingLost
  BY EmptySeq, ConcatEmptySeq DEF Init, NothingLost

LEMMA DataStep == DataInv /\ [Next]_vars => NothingLost'
  <1> SUFFICES ASSUME DataInv, [Next]_vars
               PROVE  NothingLost'
    OBVIOUS
  <1> USE DEF chunks
  <1>1. hashed \in Seq(Nat) /\ buf \in Seq(Nat) /\ stream \in Seq(Nat)
        /\ hashed \o buf = stream
    BY DEF DataInv, WriterInv, TypeOK, NothingLost
  <1>2. CASE UNCHANGED <<hashed, buf, stream>>
    BY <1>2 DEF DataInv, NothingLost
  <1>3. CASE StartFileHeader \/ StartDevice \/ StartCase
    BY <1>2, <1>3 DEF StartFileHeader, StartDevice, StartCase, StartStep
  <1>4. CASE Write
    <2>1. PICK n \in 0..MaxWrite :
            /\ buf' = buf \o [i \in 1..n |-> Len(stream) + i]
            /\ stream' = stream \o [i \in 1..n |-> Len(stream) + i]
      BY <1>4 DEF Write
    <2>2. [i \in 1..n |-> Len(stream) + i] \in Seq(Nat)
      <3>1. n \in Nat /\ Len(stream) \in Nat
        BY <1>1, BoundAssumption, LenProperties
      <3> QED
        BY <3>1
    <2>3. UNCHANGED hashed
      BY <1>4 DEF Write
    <2> QED
      BY <2>1, <2>2, <2>3, AcceptBytes
  <1>5. CASE FlushChunk
    <2>1. CASE StoreChunk(SubSeq(buf, 1, ChunkSize)) /\ buf' = Unflushed(buf)
      <3>1. hashed' = hashed \o SubSeq(buf, 1, ChunkSize)
        BY <2>1 DEF StoreChunk
      <3>2. pc = "flush" /\ UNCHANGED stream
        BY <1>5 DEF FlushChunk
      <3> QED
        BY <2>1, <3>1, <3>2, MoveChunk
    <2>2. CASE LoseChunk(SubSeq(buf, 1, ChunkSize)) /\ UNCHANGED buf
      BY <1>2, <1>5, <2>2 DEF FlushChunk, LoseChunk
    <2> QED
      BY <1>5, <2>1, <2>2 DEF FlushChunk
  <1>6. CASE BeginClose
    <2>1. UNCHANGED hashed
      BY <1>6 DEF BeginClose
    <2>2. Padding(buf, ChunkSize) \in Seq(Nat)
      BY <1>1, ChunkSizeAssumption, PaddingType
    <2>3. \/ UNCHANGED <<buf, stream>>
          \/ /\ buf' = buf \o Padding(buf, ChunkSize)
             /\ stream' = stream \o Padding(buf, ChunkSize)
      BY <1>6 DEF BeginClose
    <2> QED
      BY <1>2, <2>1, <2>2, <2>3, AcceptBytes
  <1>7. CASE CloseFlush
    <2>1. UNCHANGED stream
      BY <1>7 DEF CloseFlush, CloseStep
    <2>2. CASE StoreChunk(buf) /\ buf' = <<>>
      <3>1. hashed' = hashed \o buf
        BY <2>2 DEF StoreChunk
      <3>2. hashed \o buf \in Seq(Nat)
        BY <1>1, ConcatProperties
      <3>3. (hashed \o buf) \o <<>> = hashed \o buf
        BY <3>2, ConcatEmptySeq
      <3> QED
        BY <1>1, <2>1, <2>2, <3>1, <3>3 DEF NothingLost
    <2>3. CASE LoseChunk(buf) /\ UNCHANGED buf
      BY <1>2, <2>1, <2>3 DEF LoseChunk
    <2> QED
      BY <1>7, <2>2, <2>3 DEF CloseFlush, CloseStep
  <1>8. CASE CloseSectors \/ CloseTable
    BY <1>2, <1>8 DEF CloseSectors, CloseTable, CloseStep
  <1>9. CASE CloseMD5 \/ CloseSHA1
    BY <1>2, <1>9 DEF CloseMD5, CloseSHA1, CloseHash
  <1>10. CASE CloseDone
    BY <1>2, <1>10 DEF CloseDone
  <1>11. CASE UNCHANGED vars
    BY <1>2, <1>11 DEF vars
  <1> QED
    BY <1>3, <1>4, <1>5, <1>6, <1>7, <1>8, <1>9, <1>10, <1>11 DEF Next

\* The bytes hashed and indexed, followed by the bytes buffered, are always
\* the bytes the client's writes were told are accepted, in order, whatever
\* failures and retries of Write and Close came before.
THEOREM DataKept == Spec => []NothingLost
  <1>1. Init => DataInv
    BY InvInit, DataInit DEF DataInv
  <1>2. DataInv /\ [Next]_vars => DataInv'
    BY InvStep, DataStep DEF DataInv, Kept
  <1>3. DataInv => NothingLost
    BY DEF DataInv
  <1> QED
    BY <1>1, <1>2, <1>3, PTL DEF Spec

(***************************************************************************)
(* IndexedDataIsHashed.  It is inductive together with WriterInv, by which *)
(* the file only grows; with Solid(disk), by which an offset leads to one  *)
(* object; with the last table ending at chunkCount, the number the next   *)
(* table starts from; and with Close never flushing an empty buffer, whose *)
(* chunk would be no extent of the file.                                   *)
(***************************************************************************)
LEMMA PutSectionSolid ==
    ASSUME NEW d, Solid(d), NEW p \in Nat, NEW type, NEW n \in Nat,
           NEW previous, NEW body
    PROVE  Solid(PutSection(d, p, type, n, previous, body))
  <1>1. Solid(Put(d, p, n, body)) /\ p + n \in Nat
    BY PutSolid
  <1> QED
    BY <1>1, Sizes, PutSolid DEF PutSection

LEMMA TearSectionSolid ==
    ASSUME NEW d, Solid(d), NEW p \in Nat, NEW n \in Nat, NEW body, NEW k \in Nat
    PROVE  Solid(TearSection(d, p, n, body, k))
  <1>1. Solid(Put(d, p, n, body)) /\ p + n \in Nat
    BY PutSolid
  <1>2. CASE k < n
    BY <1>2, TearSolid DEF TearSection
  <1>3. CASE ~(k < n)
    <2>1. k - n \in Nat
      BY <1>3
    <2> QED
      BY <1>1, <1>3, <2>1, TearSolid DEF TearSection
  <1> QED
    BY <1>2, <1>3

\* The two outcomes of writing a chunk.
LEMMA ChunkSolid ==
    ASSUME WriterInv, Solid(disk), NEW data \in Seq(Nat),
           StoreChunk(data) \/ LoseChunk(data)
    PROVE  Solid(disk')
  <1>1. pos \in Nat
    BY DEF WriterInv, TypeOK
  <1>2. CASE StoreChunk(data)
    <2>1. PICK c \in CompressedLens :
            LET packed == c <= Len(data)
                size == IF packed THEN c ELSE Len(data)
            IN  disk' = Put(Put(disk, pos, size, Chunk(data, packed)),
                            pos + size, PadTo16(size), [kind |-> "pad"])
      BY <1>2 DEF StoreChunk
    <2> DEFINE packed == c <= Len(data)
               size == IF packed THEN c ELSE Len(data)
    <2>2. size \in Nat /\ PadTo16(size) \in Nat
      BY ChunkType, PadTo16Type
    <2>3. disk' = Put(Put(disk, pos, size, Chunk(data, packed)),
                      pos + size, PadTo16(size), [kind |-> "pad"])
      BY <2>1
    <2> HIDE DEF packed, size
    <2>4. Solid(Put(disk, pos, size, Chunk(data, packed))) /\ pos + size \in Nat
      BY <1>1, <2>2, PutSolid
    <2> QED
      BY <2>2, <2>3, <2>4, PutSolid
  <1>3. CASE LoseChunk(data)
    <2>1. PICK c \in CompressedLens, k \in TornLens :
            LET packed == c <= Len(data)
                size == IF packed THEN c ELSE Len(data)
            IN  disk' = TearSection(disk, pos, size, Chunk(data, packed), k)
      BY <1>3 DEF LoseChunk
    <2> DEFINE packed == c <= Len(data)
               size == IF packed THEN c ELSE Len(data)
    <2>2. size \in Nat /\ k \in Nat
      BY ChunkType, LengthAssumption
    <2>3. disk' = TearSection(disk, pos, size, Chunk(data, packed), k)
      BY <2>1
    <2> HIDE DEF packed, size
    <2> QED
      BY <1>1, <2>2, <2>3, TearSectionSolid
  <1> QED
    BY <1>2, <1>3

LEMMA FlushedType ==
    ASSUME WriterInv
    PROVE  /\ buf \in Seq(Nat)
           /\ pc = "flush" => SubSeq(buf, 1, ChunkSize) \in Seq(Nat)
                              /\ Len(SubSeq(buf, 1, ChunkSize)) = ChunkSize
  <1>1. buf \in Seq(Nat)
    BY DEF WriterInv, TypeOK
  <1>2. \A i \in 1..Len(buf) : buf[i] \in Nat
    BY <1>1, ElementOfSeq
  <1>3. Len(buf) \in Nat /\ ChunkSize \in Nat \ {0}
    BY <1>1, LenProperties, ChunkSizeAssumption
  <1>4. pc = "flush" => ChunkSize <= Len(buf)
    BY DEF WriterInv, FlushReady
  <1> QED
    BY <1>1, <1>2, <1>3, <1>4, SubSeqProperties

\* Every write of dest leaves the file solid.
LEMMA SolidStep ==
    ASSUME WriterInv, Solid(disk), [Next]_vars
    PROVE  Solid(disk')
  <1>1. pos \in Nat /\ tbl \in 1..Len(tables)
    BY DEF WriterInv, TypeOK
  <1> USE <1>1, Sizes, PutSolid, TearSolid, LengthAssumption
  <1>2. ASSUME NEW type, NEW n \in Nat, NEW previous, NEW body,
               AppendSection(type, n, previous, body) \/ FailSection(n, body)
        PROVE  Solid(disk')
    BY <1>2, PutSectionSolid, TearSectionSolid DEF AppendSection, FailSection
  <1>3. CASE StartFileHeader
    BY <1>3 DEF StartFileHeader, StartStep
  <1>4. CASE StartDevice
    BY <1>2, <1>4 DEF StartDevice, StartStep
  <1>5. CASE StartCase
    BY <1>2, <1>5 DEF StartCase, StartStep
  <1>6. CASE Write \/ BeginClose
    BY <1>6 DEF Write, BeginClose
  <1>7. CASE FlushChunk
    BY <1>7, FlushedType, ChunkSolid DEF FlushChunk
  <1>8. CASE CloseFlush
    BY <1>8, FlushedType, ChunkSolid DEF CloseFlush, CloseStep
  <1>9. CASE CloseSectors
    <2> DEFINE desc == Section("sectors", dataSize + padSize, prev)
    <2>1. disk' = Put(disk, pos, DescriptorSize, desc) \/ FailSection(0, desc)
      BY <1>9 DEF CloseSectors, CloseStep
    <2> HIDE DEF desc
    <2> QED
      BY <1>2, <2>1
  <1>10. CASE CloseTable
    <2>1. TableDataSize(tables[tbl]) \in Nat
      BY TableSection
    <2> QED
      BY <1>2, <1>10, <2>1 DEF CloseTable, CloseStep
  <1>11. ASSUME NEW type, NEW from, NEW to, CloseHash(type, from, to)
         PROVE  Solid(disk')
    <2> DEFINE body == [kind |-> type, sum |-> hashed]
    <2>1. \/ AppendSection(type, HashDataSize, prev, body)
          \/ \E k \in TornLens : disk' = Tear(disk, pos, k)
          \/ \E k \in TornLens :
               disk' = TearSection(disk, pos, HashDataSize, body, k)
      BY <1>11 DEF CloseHash, SwallowedFault
    <2> HIDE DEF body
    <2>2. \A k \in TornLens : Solid(TearSection(disk, pos, HashDataSize, body, k))
      BY TearSectionSolid
    <2> QED
      BY <1>2, <2>1, <2>2
  <1>12. CASE CloseMD5 \/ CloseSHA1
    BY <1>11, <1>12 DEF CloseMD5, CloseSHA1
  <1>13. CASE CloseDone
    <2> DEFINE desc == Section("done", 0, prev)
    <2>1. disk' = Put(disk, pos, DescriptorSize, desc) \/ FailSection(0, desc)
      BY <1>13 DEF CloseDone
    <2> HIDE DEF desc
    <2> QED
      BY <1>2, <2>1
  <1>14. CASE UNCHANGED vars
    BY <1>14 DEF vars
  <1> QED
    BY <1>3, <1>4, <1>5, <1>6, <1>7, <1>8, <1>9, <1>10, <1>12, <1>13, <1>14
       DEF Next

(***************************************************************************)
(* The index: the entries of all tables, in order, and how the tables are  *)
(* numbered.                                                               *)
(***************************************************************************)
EntryLists(ts) == [i \in DOMAIN ts |-> ts[i].entries]

Entries == FlattenSeq(EntryLists(tables))

OffsetsOf(es) == [i \in DOMAIN es |-> es[i].offset]

\* An entry tells the truth about the chunk it leads to.
EntryFits(d, e) ==
    LenAt(d, e.offset) = e.size /\ ObjAt(d, e.offset).packed = e.packed

After(t) == t.first + Len(t.entries)

\* The tables follow each other with no gap, and count comes after the last.
Consecutive(ts) ==
    /\ ts[1].first = 0
    /\ \A i \in DOMAIN ts : /\ Len(ts[i].entries) <= MaxTableLength
                            /\ i < Len(ts) => ts[i + 1].first = After(ts[i])
Numbered(ts, count) == Consecutive(ts) /\ After(ts[Len(ts)]) = count

LEMMA EntryListsType ==
    ASSUME NEW ts \in Seq(TableType)
    PROVE  /\ EntryLists(ts) \in Seq(Seq(Entry))
           /\ Len(EntryLists(ts)) = Len(ts)
           /\ \A i \in 1..Len(ts) : EntryLists(ts)[i] = ts[i].entries
  <1>1. PICK n \in Nat : Len(ts) = n /\ DOMAIN ts = 1..n
    BY LenProperties
  <1>2. \A i \in 1..n : ts[i] \in TableType
    BY <1>1, ElementOfSeq
  <1>3. \A i \in 1..n : ts[i].entries \in Seq(Entry)
    BY <1>2 DEF TableType
  <1> QED
    BY <1>1, <1>3 DEF EntryLists

LEMMA OffsetsOfType ==
    ASSUME NEW es \in Seq(Entry)
    PROVE  /\ OffsetsOf(es) \in Seq(Nat)
           /\ Len(OffsetsOf(es)) = Len(es)
           /\ DOMAIN OffsetsOf(es) = DOMAIN es
           /\ \A i \in 1..Len(es) : OffsetsOf(es)[i] = es[i].offset
  <1>1. PICK n \in Nat : Len(es) = n /\ DOMAIN es = 1..n
    BY LenProperties
  <1>2. \A i \in 1..n : es[i] \in Entry
    BY <1>1, ElementOfSeq
  <1>3. \A i \in 1..n : es[i].offset \in Nat
    BY <1>2 DEF Entry
  <1> QED
    BY <1>1, <1>3 DEF OffsetsOf

LEMMA OffsetsOfAppend ==
    ASSUME NEW es \in Seq(Entry), NEW e \in Entry
    PROVE  OffsetsOf(Append(es, e)) = Append(OffsetsOf(es), e.offset)
  <1> DEFINE r == Append(es, e)
             l == OffsetsOf(r)
             a == Append(OffsetsOf(es), e.offset)
  <1>1. PICK n \in Nat : Len(es) = n
    BY LenProperties
  <1>2. /\ r \in Seq(Entry) /\ Len(r) = n + 1 /\ r[n + 1] = e
        /\ \A i \in 1..n : r[i] = es[i]
    BY <1>1, AppendProperties
  <1> HIDE DEF r
  <1>3. /\ OffsetsOf(es) \in Seq(Nat) /\ Len(OffsetsOf(es)) = n
        /\ \A i \in 1..n : OffsetsOf(es)[i] = es[i].offset
    BY <1>1, OffsetsOfType
  <1>4. /\ l \in Seq(Nat) /\ Len(l) = n + 1
        /\ \A i \in 1..(n + 1) : l[i] = r[i].offset
    BY <1>2, OffsetsOfType
  <1>5. e.offset \in Nat
    BY DEF Entry
  <1>6. /\ a \in Seq(Nat) /\ Len(a) = n + 1 /\ a[n + 1] = e.offset
        /\ \A i \in 1..n : a[i] = OffsetsOf(es)[i]
    BY <1>3, <1>5, AppendProperties
  <1> HIDE DEF l, a
  <1>7. \A i \in 1..(n + 1) : l[i] = a[i]
    <2>1. l[n + 1] = a[n + 1]
      <3>1. n + 1 \in 1..(n + 1)
        OBVIOUS
      <3>2. l[n + 1] = r[n + 1].offset
        BY <1>4, <3>1, Zenon
      <3> QED
        BY <1>2, <1>6, <3>2, Zenon
    <2>2. ASSUME NEW i \in 1..n
          PROVE  l[i] = a[i]
      <3>1. i \in 1..(n + 1)
        OBVIOUS
      <3>2. l[i] = r[i].offset /\ r[i] = es[i]
        BY <1>2, <1>4, <3>1, Zenon
      <3>3. a[i] = es[i].offset
        BY <1>3, <1>6, Zenon
      <3> QED
        BY <3>2, <3>3
    <2>3. \A i \in 1..(n + 1) : i \in 1..n \/ i = n + 1
      OBVIOUS
    <2> QED
      BY <2>1, <2>2, <2>3
  <1>8. l = a
    BY <1>4, <1>6, <1>7, SeqEqual
  <1> QED
    BY <1>8 DEF l, a, r

LEMMA EntriesType ==
    ASSUME NEW ts \in Seq(TableType)
    PROVE  FlattenSeq(EntryLists(ts)) \in Seq(Entry)
  BY EntryListsType, FlattenType

LEMMA IndexedIs ==
    ASSUME TypeOK
    PROVE  IndexedDataIsHashed <=>
             /\ Indexed(disk, OffsetsOf(Entries), chunkCount, hashed)
             /\ \A i \in DOMAIN Entries : EntryFits(disk, Entries[i])
             /\ Consecutive(tables)
  <1>1. Entries \in Seq(Entry)
    BY EntriesType DEF Entries, TypeOK
  <1>2. /\ Len(OffsetsOf(Entries)) = Len(Entries)
        /\ DOMAIN OffsetsOf(Entries) = DOMAIN Entries
        /\ \A i \in DOMAIN Entries : OffsetsOf(Entries)[i] = Entries[i].offset
    BY <1>1, OffsetsOfType, LenProperties
  <1>3. FlattenSeq([i \in DOMAIN tables |-> tables[i].entries]) = Entries
    BY DEF Entries, EntryLists
  <1>4. DataAt(disk, OffsetsOf(Entries))
          = [i \in DOMAIN Entries |-> ObjAt(disk, Entries[i].offset).data]
    BY <1>2 DEF DataAt
  <1>5. IndexedDataIsHashed <=>
          /\ Len(Entries) = chunkCount
          /\ Consecutive(tables)
          /\ \A i \in DOMAIN Entries : /\ Holds(disk, Entries[i].offset, "chunk")
                                       /\ EntryFits(disk, Entries[i])
          /\ FlattenSeq([i \in DOMAIN Entries |->
                           ObjAt(disk, Entries[i].offset).data]) = hashed
    BY <1>3 DEF IndexedDataIsHashed, Consecutive, After, EntryFits
  <1> HIDE DEF Entries
  <1> QED
    BY <1>2, <1>4, <1>5 DEF Indexed

\* A table more, or another last table.
LEMMA EntryListsAppend ==
    ASSUME NEW ts \in Seq(TableType), NEW t \in TableType
    PROVE  EntryLists(Append(ts, t)) = Append(EntryLists(ts), t.entries)
  <1> DEFINE r == Append(ts, t)
             l == EntryLists(r)
             a == Append(EntryLists(ts), t.entries)
  <1>1. PICK n \in Nat : Len(ts) = n
    BY LenProperties
  <1>2. /\ r \in Seq(TableType) /\ Len(r) = n + 1 /\ r[n + 1] = t
        /\ \A i \in 1..n : r[i] = ts[i]
    BY <1>1, AppendProperties
  <1> HIDE DEF r
  <1>3. /\ EntryLists(ts) \in Seq(Seq(Entry)) /\ Len(EntryLists(ts)) = n
        /\ \A i \in 1..n : EntryLists(ts)[i] = ts[i].entries
    BY <1>1, EntryListsType
  <1>4. /\ l \in Seq(Seq(Entry)) /\ Len(l) = n + 1
        /\ \A i \in 1..(n + 1) : l[i] = r[i].entries
    BY <1>2, EntryListsType
  <1>5. t.entries \in Seq(Entry)
    BY DEF TableType
  <1>6. /\ a \in Seq(Seq(Entry)) /\ Len(a) = n + 1 /\ a[n + 1] = t.entries
        /\ \A i \in 1..n : a[i] = EntryLists(ts)[i]
    BY <1>3, <1>5, AppendProperties
  <1> HIDE DEF l, a
  <1>7. \A i \in 1..(n + 1) : l[i] = a[i]
    <2>1. l[n + 1] = a[n + 1]
      <3>1. n + 1 \in 1..(n + 1)
        OBVIOUS
      <3>2. l[n + 1] = r[n + 1].entries
        BY <1>4, <3>1, Zenon
      <3> QED
        BY <1>2, <1>6, <3>2, Zenon
    <2>2. ASSUME NEW i \in 1..n
          PROVE  l[i] = a[i]
      <3>1. i \in 1..(n + 1)
        OBVIOUS
      <3>2. l[i] = r[i].entries /\ r[i] = ts[i]
        BY <1>2, <1>4, <3>1, Zenon
      <3>3. a[i] = ts[i].entries
        BY <1>3, <1>6, Zenon
      <3> QED
        BY <3>2, <3>3
    <2>3. \A i \in 1..(n + 1) : i \in 1..n \/ i = n + 1
      OBVIOUS
    <2> QED
      BY <2>1, <2>2, <2>3
  <1>8. l = a
    BY <1>4, <1>6, <1>7, SeqEqual
  <1> QED
    BY <1>8 DEF l, a, r

LEMMA EntryListsLast ==
    ASSUME NEW ts \in Seq(TableType), ts # <<>>, NEW t \in TableType
    PROVE  EntryLists(WithLast(ts, t)) = WithLast(EntryLists(ts), t.entries)
  <1>1. PICK f \in Seq(TableType), u \in TableType : ts = Append(f, u)
    BY SequenceEmptyOrAppend
  <1>2. WithLast(ts, t) = Append(f, t)
    BY <1>1, LastOfAppend
  <1>3. /\ EntryLists(ts) = Append(EntryLists(f), u.entries)
        /\ EntryLists(Append(f, t)) = Append(EntryLists(f), t.entries)
    BY <1>1, EntryListsAppend
  <1>4. /\ EntryLists(f) \in Seq(Seq(Entry))
        /\ u.entries \in Seq(Entry) /\ t.entries \in Seq(Entry)
    BY EntryListsType DEF TableType
  <1>5. WithLast(Append(EntryLists(f), u.entries), t.entries)
          = Append(EntryLists(f), t.entries)
    BY <1>4, LastOfAppend
  <1> QED
    BY <1>2, <1>3, <1>5

\* The numbering after a new table, and after one more entry in the last.
LEMMA NumberedAppend ==
    ASSUME NEW ts \in Seq(TableType), ts # <<>>, NEW count \in Nat,
           Numbered(ts, count), NEW t \in TableType,
           t.first = count, Len(t.entries) = 1
    PROVE  Numbered(Append(ts, t), count + 1)
  <1> DEFINE r == Append(ts, t)
  <1>1. PICK n \in Nat \ {0} : Len(ts) = n /\ DOMAIN ts = 1..n
    BY LenProperties, EmptySeq
  <1>2. /\ r \in Seq(TableType) /\ Len(r) = n + 1 /\ r[n + 1] = t
        /\ \A i \in 1..n : r[i] = ts[i]
    BY <1>1, AppendProperties
  <1>3. DOMAIN r = 1..(n + 1)
    BY <1>2, LenProperties
  <1> HIDE DEF r
  <1>4. /\ ts[1].first = 0 /\ After(ts[n]) = count
        /\ \A i \in 1..n : /\ Len(ts[i].entries) <= MaxTableLength
                           /\ i < n => ts[i + 1].first = After(ts[i])
    BY <1>1 DEF Numbered, Consecutive
  <1>5. r[1].first = 0
    BY <1>2, <1>4
  <1>6. After(r[Len(r)]) = count + 1
    BY <1>2 DEF After
  <1>7. ASSUME NEW i \in 1..(n + 1)
        PROVE  /\ Len(r[i].entries) <= MaxTableLength
               /\ i < n + 1 => r[i + 1].first = After(r[i])
    <2>1. CASE i = n + 1
      <3>1. r[i] = t /\ ~(i < n + 1) /\ 1 <= MaxTableLength
        BY <1>2, <2>1, TableAssumption
      <3> QED
        BY <3>1
    <2>2. CASE i = n
      <3>1. n \in 1..n /\ r[n] = ts[n] /\ r[n + 1].first = count
        BY <1>2
      <3> QED
        BY <1>4, <2>2, <3>1
    <2>3. CASE i < n
      <3>1. i \in 1..n /\ i + 1 \in 1..n
        BY <2>3
      <3> QED
        BY <1>2, <1>4, <2>3, <3>1
    <2> QED
      BY <2>1, <2>2, <2>3
  <1> QED
    BY <1>2, <1>3, <1>5, <1>6, <1>7 DEF Numbered, Consecutive, r

LEMMA NumberedLast ==
    ASSUME NEW ts \in Seq(TableType), ts # <<>>, NEW count \in Nat,
           Numbered(ts, count), NEW t \in TableType,
           t.first = ts[Len(ts)].first,
           Len(t.entries) = Len(ts[Len(ts)].entries) + 1,
           Len(ts[Len(ts)].entries) < MaxTableLength
    PROVE  Numbered(WithLast(ts, t), count + 1)
  <1> DEFINE r == WithLast(ts, t)
  <1>1. PICK n \in Nat \ {0} : Len(ts) = n /\ DOMAIN ts = 1..n
    BY LenProperties, EmptySeq
  <1>2. /\ r \in Seq(TableType) /\ Len(r) = n
        /\ \A i \in 1..n : r[i] = IF i = n THEN t ELSE ts[i]
    BY <1>1, ExceptSeq DEF WithLast
  <1>3. DOMAIN r = 1..n
    BY <1>2, LenProperties
  <1> HIDE DEF r
  <1>4. /\ ts[1].first = 0 /\ After(ts[n]) = count
        /\ \A i \in 1..n : /\ Len(ts[i].entries) <= MaxTableLength
                           /\ i < n => ts[i + 1].first = After(ts[i])
    BY <1>1 DEF Numbered, Consecutive
  <1>5. r[1].first = 0
    BY <1>1, <1>2, <1>4
  <1>6. After(r[Len(r)]) = count + 1
    <2>1. ts[n] \in TableType
      BY <1>1, ElementOfSeq
    <2>2. ts[n].first \in Nat /\ Len(ts[n].entries) \in Nat
      BY <2>1, LenProperties DEF TableType
    <2>3. After(t) = ts[n].first + (Len(ts[n].entries) + 1)
      BY <1>1 DEF After
    <2>4. After(ts[n]) = ts[n].first + Len(ts[n].entries)
      BY DEF After
    <2>5. After(t) = After(ts[n]) + 1
      BY <2>2, <2>3, <2>4
    <2> QED
      BY <1>2, <1>4, <2>5
  <1>7. ASSUME NEW i \in 1..n
        PROVE  /\ Len(r[i].entries) <= MaxTableLength
               /\ i < n => r[i + 1].first = After(r[i])
    <2>1. CASE i = n
      <3>1. Len(ts[n].entries) \in Nat
        BY <1>1, ElementOfSeq, LenProperties DEF TableType
      <3> QED
        BY <1>1, <1>2, <2>1, <3>1, TableAssumption
    <2>2. CASE i < n
      <3>1. i + 1 \in 1..n /\ i # n
        BY <2>2
      <3>2. r[i] = ts[i] /\ r[i + 1].first = ts[i + 1].first
        BY <1>1, <1>2, <3>1
      <3> QED
        BY <1>4, <2>2, <3>2
    <2> QED
      BY <2>1, <2>2
  <1> QED
    BY <1>2, <1>3, <1>5, <1>6, <1>7 DEF Numbered, Consecutive, r

\* addTableEntry, in each of its cases: one entry more at the end of the index,
\* and one number more in the tables.
LEMMA AddTableEntryIndexes ==
    ASSUME NEW ts \in Seq(TableType), ts # <<>>, NEW count \in Nat, NEW offset \in Nat,
           NEW size \in Nat, NEW packed \in BOOLEAN, Numbered(ts, count)
    PROVE  LET r == AddTableEntry(ts, count, offset, size, packed)
               entry == [offset |-> offset, size |-> size, packed |-> packed]
           IN  /\ Numbered(r, count + 1)
               /\ FlattenSeq(EntryLists(r)) = Append(FlattenSeq(EntryLists(ts)), entry)
  <1> DEFINE r == AddTableEntry(ts, count, offset, size, packed)
             last == ts[Len(ts)]
             entry == [offset |-> offset, size |-> size, packed |-> packed]
             alone == [first |-> count, entries |-> <<entry>>]
             more == [last EXCEPT !.entries = Append(@, entry)]
             es == EntryLists(ts)
  <1>1. PICK n \in Nat \ {0} : Len(ts) = n /\ DOMAIN ts = 1..n
    BY LenProperties, EmptySeq
  <1>2. /\ last \in TableType /\ last.first \in Nat
        /\ last.entries \in Seq(Entry) /\ Len(last.entries) \in Nat
    <2>1. last \in TableType
      BY <1>1, ElementOfSeq
    <2>2. last.first \in Nat /\ last.entries \in Seq(Entry)
      BY <2>1 DEF TableType
    <2> QED
      BY <2>1, <2>2, LenProperties
  <1>3. last.first + Len(last.entries) = count
    BY DEF Numbered, After
  <1>4. entry \in Entry
    BY DEF Entry
  <1>5. \/ r = Append(ts, alone)
        \/ r = WithLast(ts, alone) /\ Len(last.entries) = 0
        \/ r = WithLast(ts, more) /\ Len(last.entries) < MaxTableLength
    BY <1>2, TableAssumption DEF AddTableEntry, WithLast
  <1> HIDE DEF entry, r
  <1>6. alone \in TableType /\ alone.first = count /\ alone.entries = <<entry>>
        /\ Len(<<entry>>) = 1
    BY <1>4 DEF TableType
  <1>7. /\ more \in TableType /\ more.first = last.first
        /\ more.entries = Append(last.entries, entry)
        /\ Len(more.entries) = Len(last.entries) + 1
    <2>1. Append(last.entries, entry) \in Seq(Entry)
          /\ Len(Append(last.entries, entry)) = Len(last.entries) + 1
      BY <1>2, <1>4, AppendProperties
    <2> QED
      BY <1>2, <2>1 DEF TableType
  <1>8. /\ es \in Seq(Seq(Entry)) /\ es # <<>> /\ es[Len(es)] = last.entries
    <2>1. es \in Seq(Seq(Entry)) /\ Len(es) = n /\ es[n] = ts[n].entries
      BY <1>1, EntryListsType
    <2> QED
      BY <1>1, <2>1, EmptySeq
  <1> HIDE DEF es, last, alone, more
  <1>9. CASE r = Append(ts, alone)
    <2>1. EntryLists(r) = Append(es, <<entry>>)
      BY <1>6, <1>9, EntryListsAppend DEF es
    <2>2. <<entry>> \in Seq(Entry) /\ FlattenSeq(es) \in Seq(Entry)
      BY <1>4, <1>8, FlattenType
    <2>3. FlattenSeq(Append(es, <<entry>>)) = FlattenSeq(es) \o <<entry>>
      BY <1>8, <2>2, FlattenAppend
    <2>4. Append(FlattenSeq(es), entry) = FlattenSeq(es) \o <<entry>>
      BY <1>4, <2>2, AppendIsConcat
    <2>5. Numbered(r, count + 1)
      BY <1>6, <1>9, NumberedAppend
    <2> QED
      BY <2>1, <2>3, <2>4, <2>5 DEF r, es, entry
  <1>10. ASSUME NEW t \in TableType, r = WithLast(ts, t),
                t.first = last.first, t.entries = Append(last.entries, entry),
                Len(t.entries) = Len(last.entries) + 1,
                Len(last.entries) < MaxTableLength
         PROVE  /\ Numbered(r, count + 1)
                /\ FlattenSeq(EntryLists(r)) = Append(FlattenSeq(es), entry)
    <2>1. EntryLists(r) = WithLast(es, Append(es[Len(es)], entry))
      BY <1>8, <1>10, EntryListsLast DEF es
    <2>2. FlattenSeq(WithLast(es, Append(es[Len(es)], entry)))
            = Append(FlattenSeq(es), entry)
      BY <1>4, <1>8, FlattenLast
    <2>3. Numbered(r, count + 1)
      BY <1>10, NumberedLast DEF last
    <2> QED
      BY <2>1, <2>2, <2>3, Zenon
  <1>11. CASE r = WithLast(ts, alone) /\ Len(last.entries) = 0
    <2>1. last.entries = <<>>
      BY <1>2, <1>11, EmptySeq
    <2>2. Append(<<>>, entry) = <<entry>>
      BY <1>4
    <2>3. alone.first = last.first /\ 0 < MaxTableLength
      BY <1>2, <1>3, <1>6, <1>11, TableAssumption
    <2>4. /\ alone.entries = Append(last.entries, entry)
          /\ Len(alone.entries) = Len(last.entries) + 1
      BY <1>6, <1>11, <2>1, <2>2
    <2> QED
      BY <1>6, <1>10, <1>11, <2>3, <2>4 DEF r, es, entry
  <1>12. CASE r = WithLast(ts, more) /\ Len(last.entries) < MaxTableLength
    BY <1>7, <1>10, <1>12 DEF r, es, entry
  <1> QED
    BY <1>5, <1>9, <1>11, <1>12

LEMMA ChunkBytes == TypeOK' => BytesInChunks(disk')
  <1> SUFFICES ASSUME TypeOK', NEW e \in disk', e.obj.kind = "chunk"
               PROVE  e.obj.data \in Seq(Nat)
    BY DEF BytesInChunks, ChunkExtents
  <1>1. e.obj \in Object
    BY DEF TypeOK
  <1> QED
    BY <1>1 DEF Object

\* What Close's last chunk is cut from is not empty.
PadReady == pc = "closeFlush" => Len(buf) > 0

IndexInv ==
    /\ WriterInv /\ Solid(disk) /\ PadReady
    /\ Indexed(disk, OffsetsOf(Entries), chunkCount, hashed)
    /\ \A i \in DOMAIN Entries : EntryFits(disk, Entries[i])
    /\ Numbered(tables, chunkCount)

LEMMA IndexInit == Init => IndexInv
  <1> SUFFICES ASSUME Init
               PROVE  IndexInv
    OBVIOUS
  <1>1. /\ disk = {} /\ tables = <<NewTable>>
        /\ chunkCount = 0 /\ hashed = <<>> /\ pc = "new"
    BY DEF Init
  <1>2. EntryLists(tables) = Append(<<>>, <<>>)
    BY <1>1 DEF EntryLists, NewTable
  <1>3. <<>> \in Seq(Nat) /\ <<>> \in Seq(Seq(Nat))
    BY EmptySeq
  <1>4. FlattenSeq(Append(<<>>, <<>>)) = <<>> \o <<>>
    <2>1. FlattenSeq(Append(<<>>, <<>>)) = FlattenSeq(<<>>) \o <<>>
      BY <1>3, FlattenAppend
    <2> QED
      BY <2>1, FlattenEmpty
  <1>5. Entries = <<>>
    BY <1>2, <1>3, <1>4, ConcatEmptySeq DEF Entries
  <1>6. OffsetsOf(<<>>) = <<>> /\ DataAt(disk, <<>>) = <<>>
    BY DEF OffsetsOf, DataAt
  <1>7. Indexed(disk, <<>>, 0, <<>>)
    BY <1>6, FlattenEmpty DEF Indexed
  <1>8. Numbered(<<NewTable>>, 0)
    <2>1. NewTable.first = 0 /\ Len(NewTable.entries) = 0
      BY DEF NewTable
    <2>2. 0 <= MaxTableLength
      BY TableAssumption
    <2> QED
      BY <2>1, <2>2 DEF Numbered, Consecutive, After
  <1> QED
    BY <1>1, <1>5, <1>6, <1>7, <1>8, InvInit DEF IndexInv, Solid, PadReady

\* Every step that leaves the tables, the count and the hashers alone.
LEMMA IndexUnchanged ==
    ASSUME IndexInv, WriterInv', Solid(disk'), disk \subseteq disk', PadReady',
           UNCHANGED <<tables, chunkCount, hashed>>
    PROVE  IndexInv'
  <1>1. /\ Indexed(disk, OffsetsOf(Entries), chunkCount, hashed) /\ Solid(disk)
        /\ \A i \in DOMAIN Entries : EntryFits(disk, Entries[i])
        /\ TypeOK
    BY DEF IndexInv, WriterInv
  <1>2. ChunkExtents(disk) \subseteq ChunkExtents(disk')
    BY DEF ChunkExtents
  <1>3. Indexed(disk', OffsetsOf(Entries), chunkCount, hashed)
    BY <1>1, <1>2, IndexKept
  <1>4. UNCHANGED Entries
    BY DEF Entries
  <1>5. Indexed(disk', OffsetsOf(Entries'), chunkCount', hashed')
    BY <1>3, <1>4
  <1>6. Entries \in Seq(Entry)
    BY <1>1, EntriesType DEF Entries, TypeOK
  <1>7. \A i \in DOMAIN Entries : Holds(disk, Entries[i].offset, "chunk")
    BY <1>1, <1>6, OffsetsOfType, LenProperties DEF Indexed
  <1>8. \A i \in DOMAIN Entries : EntryFits(disk', Entries[i])
    BY <1>1, <1>2, <1>7, ChunkAtKept DEF EntryFits
  <1>9. Numbered(tables', chunkCount')
    BY DEF IndexInv
  <1> QED
    BY <1>4, <1>5, <1>8, <1>9 DEF IndexInv

\* A chunk that is stored.
LEMMA StoreChunkIndexes ==
    ASSUME IndexInv, WriterInv', Solid(disk'), disk \subseteq disk', PadReady',
           NEW data \in Seq(Nat), Len(data) > 0, StoreChunk(data)
    PROVE  IndexInv'
  <1>1. /\ pos \in Nat /\ chunkCount \in Nat /\ hashed \in Seq(Nat)
        /\ tables \in Seq(TableType) /\ tables # <<>> /\ TypeOK
        /\ Numbered(tables, chunkCount)
    BY DEF IndexInv, WriterInv, TypeOK
  <1>2. PICK c \in CompressedLens :
          LET packed == c <= Len(data)
              size == IF packed THEN c ELSE Len(data)
              pad == PadTo16(size)
          IN  /\ disk' = Put(Put(disk, pos, size, Chunk(data, packed)),
                             pos + size, pad, [kind |-> "pad"])
              /\ tables' = AddTableEntry(tables, chunkCount, pos, size, packed)
    BY DEF StoreChunk
  <1> DEFINE packed == c <= Len(data)
             size == IF packed THEN c ELSE Len(data)
             chunk == [at |-> pos, len |-> size, obj |-> Chunk(data, packed)]
             mid == Put(disk, pos, size, Chunk(data, packed))
             entry == [offset |-> pos, size |-> size, packed |-> packed]
  <1>3. size \in Nat \ {0} /\ packed \in BOOLEAN
    BY LengthAssumption, LenProperties
  <1>4. /\ disk' = Put(mid, pos + size, PadTo16(size), [kind |-> "pad"])
        /\ tables' = AddTableEntry(tables, chunkCount, pos, size, packed)
    BY <1>2
  <1>5. chunk \in disk'
    <2>1. chunk \in mid /\ chunk.at + chunk.len <= pos + size
      BY <1>1, <1>3 DEF Put
    <2> HIDE DEF chunk, mid
    <2> QED
      BY <1>4, <2>1 DEF Put
  <1> HIDE DEF packed, size, mid
  <1>6. Chunk(data, packed).kind = "chunk" /\ Chunk(data, packed).data = data
        /\ Chunk(data, packed).packed = packed
    BY DEF Chunk
  <1>7. /\ Holds(disk', pos, "chunk")
        /\ ObjAt(disk', pos) = Chunk(data, packed) /\ LenAt(disk', pos) = size
    BY <1>5, <1>6, ChunkAtStored
  <1>8. /\ Numbered(tables', chunkCount + 1)
        /\ Entries' = Append(Entries, entry)
        /\ Entries \in Seq(Entry) /\ entry \in Entry
    <2>1. /\ Numbered(tables', chunkCount + 1)
          /\ FlattenSeq(EntryLists(tables')) = Append(FlattenSeq(EntryLists(tables)), entry)
      BY <1>1, <1>3, <1>4, AddTableEntryIndexes
    <2>2. FlattenSeq(EntryLists(tables)) \in Seq(Entry)
      BY <1>1, EntriesType
    <2>3. entry \in Entry
      BY <1>1, <1>3 DEF Entry
    <2> QED
      BY <2>1, <2>2, <2>3 DEF Entries
  <1>9. entry.offset = pos /\ entry.size = size /\ entry.packed = packed
    OBVIOUS
  <1> HIDE DEF entry
  <1>10. OffsetsOf(Entries') = Append(OffsetsOf(Entries), pos)
    BY <1>8, <1>9, OffsetsOfAppend
  <1>11. /\ Indexed(disk, OffsetsOf(Entries), chunkCount, hashed) /\ Solid(disk)
         /\ BytesInChunks(disk') /\ ChunkExtents(disk) \subseteq ChunkExtents(disk')
         /\ OffsetsOf(Entries) \in Seq(Nat)
    BY <1>8, ChunkBytes, OffsetsOfType DEF IndexInv, WriterInv, ChunkExtents
  <1>12. Indexed(disk', Append(OffsetsOf(Entries), pos), chunkCount + 1, hashed \o data)
    BY <1>1, <1>6, <1>7, <1>11, IndexGrows
  <1>13. chunkCount' = chunkCount + 1 /\ hashed' = hashed \o data
    BY DEF StoreChunk
  <1>14. Indexed(disk', OffsetsOf(Entries'), chunkCount', hashed')
    BY <1>10, <1>12, <1>13
  <1>15. \A i \in DOMAIN Entries' : EntryFits(disk', Entries'[i])
    <2>1. PICK n \in Nat : Len(Entries) = n /\ DOMAIN Entries = 1..n
      BY <1>8, LenProperties
    <2>2. /\ Entries' \in Seq(Entry) /\ Len(Entries') = n + 1
          /\ Entries'[n + 1] = entry
          /\ \A i \in 1..n : Entries'[i] = Entries[i]
      BY <1>8, <2>1, AppendProperties
    <2>3. DOMAIN Entries' = 1..(n + 1)
      BY <2>2, LenProperties
    <2>4. EntryFits(disk', entry)
      BY <1>6, <1>7, <1>9 DEF EntryFits
    <2>5. \A i \in 1..n : Holds(disk, Entries[i].offset, "chunk")
                          /\ EntryFits(disk, Entries[i])
      BY <1>8, <1>11, <2>1, OffsetsOfType DEF Indexed, IndexInv
    <2>6. \A i \in 1..n : EntryFits(disk', Entries[i])
      BY <1>11, <2>5, ChunkAtKept DEF EntryFits
    <2>7. \A i \in 1..(n + 1) : i \in 1..n \/ i = n + 1
      OBVIOUS
    <2>8. \A i \in 1..(n + 1) : EntryFits(disk', Entries'[i])
      BY <2>2, <2>4, <2>6, <2>7, Zenon
    <2> QED
      BY <2>3, <2>8, Zenon
  <1> QED
    BY <1>8, <1>13, <1>14, <1>15 DEF IndexInv

LEMMA IndexStep == IndexInv /\ [Next]_vars => IndexInv'
  <1> SUFFICES ASSUME IndexInv, [Next]_vars
               PROVE  IndexInv'
    OBVIOUS
  <1> USE DEF chunks
  <1>1. WriterInv /\ Solid(disk) /\ PadReady
    BY DEF IndexInv
  <1>2. WriterInv' /\ Solid(disk') /\ disk \subseteq disk'
    <2>1. disk' = disk => disk \subseteq disk'
      OBVIOUS
    <2> QED
      BY <1>1, <2>1, InvStep, SolidStep DEF Kept, vars
  <1>3. CASE UNCHANGED <<tables, chunkCount, hashed>> /\ PadReady'
    BY <1>2, <1>3, IndexUnchanged
  <1>4. CASE StartFileHeader \/ StartDevice \/ StartCase
    BY <1>3, <1>4 DEF StartFileHeader, StartDevice, StartCase, StartStep, PadReady
  <1>5. CASE Write
    BY <1>3, <1>5 DEF Write, PadReady
  <1>6. CASE FlushChunk
    <2>1. /\ SubSeq(buf, 1, ChunkSize) \in Seq(Nat)
          /\ Len(SubSeq(buf, 1, ChunkSize)) > 0
      BY <1>1, <1>6, FlushedType, ChunkSizeAssumption DEF FlushChunk
    <2>2. PadReady'
      BY <1>6 DEF FlushChunk, PadReady
    <2>3. CASE StoreChunk(SubSeq(buf, 1, ChunkSize))
      BY <1>2, <2>1, <2>2, <2>3, StoreChunkIndexes
    <2>4. CASE LoseChunk(SubSeq(buf, 1, ChunkSize))
      BY <1>3, <2>2, <2>4 DEF LoseChunk
    <2> QED
      BY <1>6, <2>3, <2>4 DEF FlushChunk
  <1>7. CASE BeginClose
    <2>1. PadReady'
      <3>1. CASE Len(buf) > 0
        <4>1. buf \in Seq(Nat) /\ Padding(buf, ChunkSize) \in Seq(Nat)
          BY <1>1, PaddingType, ChunkSizeAssumption DEF WriterInv, TypeOK
        <4>2. Len(buf \o Padding(buf, ChunkSize))
                = Len(buf) + Len(Padding(buf, ChunkSize))
          BY <4>1, ConcatProperties
        <4>3. Len(buf) \in Nat /\ Len(Padding(buf, ChunkSize)) \in Nat
          BY <4>1, LenProperties
        <4>4. buf' = buf \o Padding(buf, ChunkSize)
          BY <1>7, <3>1 DEF BeginClose
        <4> QED
          BY <3>1, <4>2, <4>3, <4>4 DEF PadReady
      <3>2. CASE ~(Len(buf) > 0)
        BY <1>7, <3>2 DEF BeginClose, PadReady
      <3> QED
        BY <3>1, <3>2
    <2> QED
      BY <1>3, <1>7, <2>1 DEF BeginClose
  <1>8. CASE CloseFlush
    <2>1. buf \in Seq(Nat) /\ Len(buf) > 0
      BY <1>1, <1>8 DEF CloseFlush, CloseStep, WriterInv, TypeOK, PadReady
    <2>2. PadReady'
      BY <1>8 DEF CloseFlush, CloseStep, PadReady
    <2>3. CASE StoreChunk(buf)
      BY <1>2, <2>1, <2>2, <2>3, StoreChunkIndexes
    <2>4. CASE LoseChunk(buf)
      BY <1>3, <2>2, <2>4 DEF LoseChunk
    <2> QED
      BY <1>8, <2>3, <2>4 DEF CloseFlush, CloseStep
  <1>9. CASE CloseSectors \/ CloseTable
    BY <1>3, <1>9 DEF CloseSectors, CloseTable, CloseStep, PadReady, AfterTable
  <1>10. CASE CloseMD5 \/ CloseSHA1
    BY <1>3, <1>10 DEF CloseMD5, CloseSHA1, CloseHash, PadReady
  <1>11. CASE CloseDone
    BY <1>3, <1>11 DEF CloseDone, PadReady
  <1>12. CASE UNCHANGED vars
    BY <1>1, <1>3, <1>12 DEF vars, PadReady
  <1> QED
    BY <1>4, <1>5, <1>6, <1>7, <1>8, <1>9, <1>10, <1>11, <1>12 DEF Next

\* At every moment, whatever was torn or retried, each entry of the tables
\* leads to an intact chunk of the size it gives, the tables number the chunks
\* with no gap, and the data of these chunks, in order, is the data the hashers
\* consumed.
THEOREM IndexMatchesHashes == Spec => []IndexedDataIsHashed
  <1>1. IndexInv => IndexedDataIsHashed
    BY IndexedIs DEF IndexInv, WriterInv, Numbered
  <1> QED
    BY <1>1, IndexInit, IndexStep, PTL DEF Spec
=============================================================================
