------------------------- MODULE Evf1WriterProofs -------------------------
(***************************************************************************)
(* Theorems about Evf1Writer, for every value of its constants.            *)
(***************************************************************************)
EXTENDS Evf1Writer, EwfLemmas

Extents == [at : Nat, len : Nat, obj : Object]

\* What the types need of the fixed sizes and of the sections' names.
LEMMA Sizes ==
    /\ FileHeaderSize \in Nat /\ DescriptorSize \in Nat
    /\ VolumeDataSize \in Nat /\ DigestSize \in Nat /\ HashSize \in Nat
    /\ DataSectionSize \in Nat
  BY DEF FileHeaderSize, DescriptorSize, VolumeDataSize, DigestSize, HashSize,
         DataSectionSize

LEMMA Names ==
    /\ "header" \in SectionTypes /\ "volume" \in SectionTypes
    /\ "sectors" \in SectionTypes /\ "table" \in SectionTypes
    /\ "table2" \in SectionTypes /\ "digest" \in SectionTypes
    /\ "hash" \in SectionTypes /\ "data" \in SectionTypes
    /\ "done" \in SectionTypes
  BY DEF SectionTypes

(***************************************************************************)
(* Types of the helpers.                                                   *)
(***************************************************************************)
\* Storing an object keeps the file a set of extents.
LEMMA PutType ==
    ASSUME NEW d \in SUBSET Extents, NEW p \in Nat, NEW n \in Nat,
           NEW o \in Object
    PROVE  Put(d, p, n, o) \in SUBSET Extents
  BY DEF Put, Extents

\* So does a write that fails.
LEMMA TearType ==
    ASSUME NEW d \in SUBSET Extents, NEW p \in Nat, NEW k \in Nat
    PROVE  Tear(d, p, k) \in SUBSET Extents
  <1>1. Torn \in Object
    BY DEF Torn, Object
  <1> QED
    BY <1>1, PutType DEF Tear

LEMMA SectionType ==
    ASSUME NEW type \in SectionTypes, NEW size \in Nat, NEW next \in Nat
    PROVE  Section(type, size, next) \in Object
  BY DEF Section, Object

\* And so does a section, written whole or torn.
LEMMA PutSectionType ==
    ASSUME NEW d \in SUBSET Extents, NEW p \in Nat, NEW type \in SectionTypes,
           NEW n \in Nat, NEW body \in Object
    PROVE  PutSection(d, p, type, n, body) \in SUBSET Extents
  <1>1. /\ n + DescriptorSize \in Nat /\ p + n + DescriptorSize \in Nat
        /\ p + DescriptorSize \in Nat /\ DescriptorSize \in Nat
    BY Sizes
  <1>2. Section(type, n + DescriptorSize, p + n + DescriptorSize) \in Object
    BY <1>1, SectionType
  <1>3. Put(d, p, DescriptorSize,
            Section(type, n + DescriptorSize, p + n + DescriptorSize))
          \in SUBSET Extents
    BY <1>1, <1>2, PutType
  <1> QED
    BY <1>1, <1>3, PutType DEF PutSection

LEMMA TearSectionType ==
    ASSUME NEW d \in SUBSET Extents, NEW p \in Nat, NEW type \in SectionTypes,
           NEW n \in Nat, NEW k \in Nat
    PROVE  TearSection(d, p, type, n, k) \in SUBSET Extents
  <1>1. /\ n + DescriptorSize \in Nat /\ p + n + DescriptorSize \in Nat
        /\ p + DescriptorSize \in Nat /\ DescriptorSize \in Nat
    BY Sizes
  <1>2. Section(type, n + DescriptorSize, p + n + DescriptorSize) \in Object
    BY <1>1, SectionType
  <1>3. Put(d, p, DescriptorSize,
            Section(type, n + DescriptorSize, p + n + DescriptorSize))
          \in SUBSET Extents
    BY <1>1, <1>2, PutType
  <1>4. CASE k < DescriptorSize
    BY <1>4, TearType DEF TearSection
  <1>5. CASE ~(k < DescriptorSize)
    <2>1. k - DescriptorSize \in Nat
      BY <1>1, <1>5
    <2> QED
      BY <1>1, <1>3, <1>5, <2>1, TearType DEF TearSection
  <1> QED
    BY <1>4, <1>5

(***************************************************************************)
(* The tables.  An entry is the offset of a chunk relative to the base of  *)
(* its table, so it is a natural number only because no base lies past the *)
(* end of the file; and Write takes a chunk from the front of buf only     *)
(* when there is one.  BasesWithin and FlushReady make TypeOK inductive.   *)
(***************************************************************************)
BasesWithin == \A i \in DOMAIN tables : tables[i].base <= pos

FlushReady == pc = "flush" => ChunkSize <= Len(buf)

TypeInv == TypeOK /\ BasesWithin /\ FlushReady

LEMMA AddTableEntryType ==
    ASSUME NEW ts \in Seq(TableType), ts # <<>>, NEW p \in Nat,
           \A i \in DOMAIN ts : ts[i].base <= p
    PROVE  LET r == AddTableEntry(ts, p)
           IN  /\ r \in Seq(TableType) /\ r # <<>>
               /\ Len(ts) <= Len(r)
               /\ \A i \in DOMAIN r : r[i].base <= p
  <1> DEFINE n == Len(ts)
             last == ts[n]
             first == [base |-> p, entries |-> <<0>>]
             more == [last EXCEPT !.entries = Append(@, p - last.base)]
  <1>1. n \in Nat \ {0} /\ DOMAIN ts = 1..n /\ last \in TableType
    BY LenProperties, EmptySeq, ElementOfSeq
  <1>2. first \in TableType /\ first.base <= p
    BY DEF TableType
  <1>3. p - last.base \in Nat /\ last.base <= p
    BY <1>1 DEF TableType
  <1>4. more \in TableType /\ more.base <= p
    <2>1. Append(last.entries, p - last.base) \in Seq(Nat)
      BY <1>1, <1>3, AppendProperties DEF TableType
    <2> QED
      BY <1>1, <1>3, <2>1 DEF TableType
  <1>5. \A t \in TableType : t.base <= p =>
          /\ Append(ts, t) \in Seq(TableType) /\ Append(ts, t) # <<>>
          /\ Len(ts) <= Len(Append(ts, t))
          /\ \A i \in DOMAIN Append(ts, t) : Append(ts, t)[i].base <= p
    BY <1>1, AppendProperties, LenProperties
  <1>6. \A t \in TableType : t.base <= p =>
          /\ [ts EXCEPT ![n] = t] \in Seq(TableType) /\ [ts EXCEPT ![n] = t] # <<>>
          /\ Len(ts) <= Len([ts EXCEPT ![n] = t])
          /\ \A i \in DOMAIN [ts EXCEPT ![n] = t] : [ts EXCEPT ![n] = t][i].base <= p
    BY <1>1, ExceptSeq, LenProperties, EmptySeq
  <1>7. AddTableEntry(ts, p) \in {Append(ts, first), [ts EXCEPT ![n] = first],
                                  [ts EXCEPT ![n] = more]}
    BY DEF AddTableEntry
  <1> QED
    BY <1>2, <1>4, <1>5, <1>6, <1>7

\* Padding makes a buffer at least one chunk long, and no longer.
LEMMA PaddingType ==
    ASSUME NEW b \in Seq(Nat), NEW n \in Nat
    PROVE  /\ Padding(b, n) \in Seq(Nat)
           /\ Len(b \o Padding(b, n)) = IF Len(b) >= n THEN Len(b) ELSE n
  <1>1. Len(b) \in Nat
    BY LenProperties
  <1> DEFINE m == IF Len(b) >= n THEN 0 ELSE n - Len(b)
  <1>2. m \in Nat
    BY <1>1
  <1>3. /\ [i \in 1..m |-> 0] \in Seq(Nat)
        /\ Len([i \in 1..m |-> 0]) = m
    BY <1>2
  <1> QED
    BY <1>1, <1>2, <1>3, ConcatProperties DEF Padding

(***************************************************************************)
(* Types of the steps actions are made of.  A successful write and a       *)
(* failed one both leave the file a set of extents, and its position is    *)
(* never moved back.                                                       *)
(***************************************************************************)
DeviceStep == /\ disk' \in SUBSET Extents
              /\ pos' \in Nat /\ pos <= pos'

LEMMA AppendSectionType ==
    ASSUME TypeOK, NEW type \in SectionTypes, NEW n \in Nat, NEW body \in Object,
           AppendSection(type, n, body)
    PROVE  DeviceStep
  <1>1. disk \in SUBSET Extents /\ pos \in Nat
    BY DEF TypeOK, Extents
  <1>2. PutSection(disk, pos, type, n, body) \in SUBSET Extents
    BY <1>1, PutSectionType
  <1>3. disk' = PutSection(disk, pos, type, n, body) /\ pos' = pos + DescriptorSize + n
    BY DEF AppendSection
  <1>4. pos' \in Nat /\ pos <= pos'
    BY <1>1, <1>3, Sizes
  <1> QED
    BY <1>2, <1>3, <1>4 DEF DeviceStep

LEMMA FailSectionType ==
    ASSUME TypeOK, NEW type \in SectionTypes, NEW n \in Nat, FailSection(type, n)
    PROVE  DeviceStep /\ faults' \in Nat
  <1>1. disk \in SUBSET Extents /\ pos \in Nat /\ faults \in Nat
    BY DEF TypeOK, Extents
  <1>2. PICK k \in TornLens : /\ Fault(k, DescriptorSize + n)
                              /\ disk' = TearSection(disk, pos, type, n, k)
                              /\ pos' = pos + k
    BY DEF FailSection
  <1>3. k \in Nat
    BY LengthAssumption
  <1>4. TearSection(disk, pos, type, n, k) \in SUBSET Extents
    BY <1>1, <1>3, TearSectionType
  <1>5. pos' \in Nat /\ pos <= pos' /\ faults' \in Nat
    BY <1>1, <1>2, <1>3 DEF Fault
  <1> QED
    BY <1>2, <1>4, <1>5 DEF DeviceStep

\* A torn write at the end of the file.
LEMMA TornTailType ==
    ASSUME TypeOK, NEW k \in TornLens, NEW n, Fault(k, n),
           disk' = Tear(disk, pos, k), pos' = pos + k
    PROVE  DeviceStep /\ faults' \in Nat
  <1>1. disk \in SUBSET Extents /\ pos \in Nat /\ faults \in Nat /\ k \in Nat
    BY LengthAssumption DEF TypeOK, Extents
  <1>2. Tear(disk, pos, k) \in SUBSET Extents
    BY <1>1, TearType
  <1> QED
    BY <1>1, <1>2 DEF DeviceStep, Fault

LEMMA RewriteType ==
    ASSUME TypeOK, NEW p \in Nat, NEW n \in Nat, NEW obj \in Object,
           Rewrite(p, n, obj)
    PROVE  DeviceStep
  <1>1. disk \in SUBSET Extents /\ pos \in Nat
    BY DEF TypeOK, Extents
  <1> QED
    BY <1>1, PutType DEF Rewrite, DeviceStep

LEMMA FailRewriteType ==
    ASSUME TypeOK, NEW p \in Nat, NEW n \in Nat, NEW obj \in Object,
           FailRewrite(p, n, obj)
    PROVE  DeviceStep /\ faults' \in Nat
  <1>1. disk \in SUBSET Extents /\ pos \in Nat /\ faults \in Nat
    BY DEF TypeOK, Extents
  <1>2. Tear(disk, p, n) \in SUBSET Extents /\ Put(disk, p, n, obj) \in SUBSET Extents
    BY <1>1, PutType, TearType
  <1> QED
    BY <1>1, <1>2 DEF FailRewrite, DeviceStep, Fault

\* The variables writeData changes keep their types, and no table disappears.
ChunkStep == /\ DeviceStep
             /\ dataSize' \in Nat /\ chunkCount' \in Nat /\ faults' \in Nat
             /\ hashed' \in Seq(Nat)
             /\ tables' \in Seq(TableType) /\ tables' # <<>>
             /\ Len(tables) <= Len(tables')
             /\ BasesWithin'

LEMMA StoreChunkType ==
    ASSUME TypeInv, NEW data \in Seq(Nat), StoreChunk(data)
    PROVE  ChunkStep
  <1>1. PICK c \in CompressedLens :
          /\ disk' = Put(disk, pos, c, Chunk(data))
          /\ pos' = pos + c
          /\ dataSize' = dataSize + c
          /\ tables' = AddTableEntry(tables, pos)
          /\ chunkCount' = chunkCount + 1
          /\ hashed' = hashed \o data
          /\ UNCHANGED faults
    BY DEF StoreChunk
  <1>2. c \in Nat
    BY LengthAssumption
  <1>3. DeviceStep
    <2>1. Chunk(data) \in Object
      BY DEF Chunk, Object
    <2>2. disk \in SUBSET Extents /\ pos \in Nat
      BY DEF TypeInv, TypeOK, Extents
    <2> QED
      BY <1>1, <1>2, <2>1, <2>2, PutType DEF DeviceStep
  <1>4. /\ tables' \in Seq(TableType) /\ tables' # <<>>
        /\ Len(tables) <= Len(tables')
        /\ \A i \in DOMAIN tables' : tables'[i].base <= pos
    <2>1. /\ tables \in Seq(TableType) /\ tables # <<>> /\ pos \in Nat
          /\ \A i \in DOMAIN tables : tables[i].base <= pos
      BY DEF TypeInv, TypeOK, BasesWithin
    <2> QED
      BY <1>1, <2>1, AddTableEntryType
  <1>5. BasesWithin'
    <2> SUFFICES ASSUME NEW i \in DOMAIN tables'
                 PROVE  tables'[i].base <= pos'
      BY DEF BasesWithin
    <2>1. tables'[i] \in TableType
      BY <1>4, LenProperties, ElementOfSeq
    <2>2. tables'[i].base \in Nat /\ pos \in Nat
      BY <2>1 DEF TableType, TypeInv, TypeOK
    <2> QED
      BY <1>1, <1>2, <1>4, <2>2
  <1> QED
    BY <1>1, <1>2, <1>3, <1>4, <1>5, ConcatProperties
       DEF ChunkStep, TypeInv, TypeOK

\* Moving the end of the file forward leaves every base within it.
LEMMA BasesStay ==
    ASSUME TypeInv, DeviceStep, UNCHANGED tables
    PROVE  BasesWithin'
  <1> SUFFICES ASSUME NEW i \in DOMAIN tables
               PROVE  tables[i].base <= pos'
    BY DEF BasesWithin
  <1>1. tables[i] \in TableType
    BY LenProperties, ElementOfSeq DEF TypeInv, TypeOK
  <1>2. tables[i].base \in Nat /\ tables[i].base <= pos /\ pos \in Nat
    BY <1>1 DEF TableType, TypeInv, TypeOK, BasesWithin
  <1> QED
    BY <1>2 DEF DeviceStep

LEMMA LoseChunkType ==
    ASSUME TypeInv, LoseChunk
    PROVE  ChunkStep
  <1>1. PICK c \in CompressedLens, k \in TornLens :
          /\ Fault(k, c)
          /\ disk' = Tear(disk, pos, k)
          /\ pos' = pos + k
          /\ dataSize' = dataSize + k
          /\ UNCHANGED <<tables, chunkCount, hashed>>
    BY DEF LoseChunk
  <1>2. DeviceStep /\ faults' \in Nat /\ k \in Nat
    BY <1>1, TornTailType, LengthAssumption DEF TypeInv
  <1>3. BasesWithin'
    BY <1>1, <1>2, BasesStay
  <1> QED
    BY <1>1, <1>2, <1>3 DEF ChunkStep, TypeInv, TypeOK

(***************************************************************************)
(* The type invariant is inductive.                                        *)
(***************************************************************************)
\* What every action that adds no chunk does to the variables of TypeInv.
LEMMA QuietStep ==
    ASSUME TypeInv, DeviceStep, UNCHANGED chunks,
           buf' \in Seq(Nat), stream' \in Seq(Nat),
           volPos' \in Nat, sectorsPos' \in Nat,
           pc' \in StartPc \cup ClosePc \cup {"open", "flush", "failed"},
           tbl' \in 1..Len(tables), result' \in Results,
           closes' \in Nat, faults' \in Nat,
           pc' # "flush" \/ ChunkSize <= Len(buf')
    PROVE  TypeInv'
  <1>1. BasesWithin'
    BY BasesStay DEF chunks
  <1>2. disk' \subseteq [at : Nat, len : Nat, obj : Object]
    BY DEF DeviceStep, Extents
  <1> QED
    BY <1>1, <1>2 DEF TypeInv, TypeOK, FlushReady, DeviceStep, chunks

\* The same for the actions that may add one.
LEMMA ChunkStepType ==
    ASSUME TypeInv, ChunkStep,
           buf' \in Seq(Nat), stream' \in Seq(Nat),
           UNCHANGED <<places, tbl, closes>>,
           pc' \in StartPc \cup ClosePc \cup {"open", "flush", "failed"},
           result' \in Results,
           pc' # "flush" \/ ChunkSize <= Len(buf')
    PROVE  TypeInv'
  <1>1. disk' \subseteq [at : Nat, len : Nat, obj : Object]
    BY DEF ChunkStep, DeviceStep, Extents
  <1>2. tbl' \in 1..Len(tables')
    <2>1. Len(tables) \in Nat /\ Len(tables') \in Nat
      BY LenProperties DEF TypeInv, TypeOK, ChunkStep
    <2> QED
      BY <2>1 DEF TypeInv, TypeOK, ChunkStep
  <1> QED
    BY <1>1, <1>2 DEF TypeInv, TypeOK, FlushReady, ChunkStep, DeviceStep, places

\* A step of Close that appends a section.
LEMMA CloseSectionType ==
    ASSUME TypeInv, NEW type \in SectionTypes, NEW n \in Nat, NEW body \in Object,
           NEW from, NEW to \in ClosePc \cup {"open"},
           CloseStep(from, to, AppendSection(type, n, body),
                     FailSection(type, n)),
           UNCHANGED <<buf, chunks>>, tbl' \in 1..Len(tables)
    PROVE  TypeInv'
  <1>1. TypeOK /\ TypeInv
    BY DEF TypeInv
  <1>2. UNCHANGED <<places, stream, closes, buf, chunks>>
    BY DEF CloseStep
  <1>3. CASE AppendSection(type, n, body) /\ pc' = to /\ UNCHANGED <<result, faults>>
    <2>1. DeviceStep
      BY <1>1, <1>3, AppendSectionType
    <2> QED
      BY <1>1, <1>2, <1>3, <2>1, QuietStep DEF places, TypeOK, ClosePc
  <1>4. CASE FailSection(type, n) /\ pc' = "open" /\ result' = "closeErr"
    <2>1. DeviceStep /\ faults' \in Nat
      BY <1>1, <1>4, FailSectionType
    <2> QED
      BY <1>1, <1>2, <1>4, <2>1, QuietStep
         DEF places, TypeOK, Results
  <1> QED
    BY <1>3, <1>4 DEF CloseStep

\* A step of Close that rewrites a place.
LEMMA CloseRewriteType ==
    ASSUME TypeInv, NEW p \in Nat, NEW n \in Nat, NEW obj \in Object,
           NEW from, NEW to \in ClosePc,
           CloseStep(from, to, Rewrite(p, n, obj), FailRewrite(p, n, obj)),
           UNCHANGED <<buf, chunks>>, tbl' \in 1..Len(tables)
    PROVE  TypeInv'
  <1>1. TypeOK /\ TypeInv
    BY DEF TypeInv
  <1>2. UNCHANGED <<places, stream, closes, buf, chunks>>
    BY DEF CloseStep
  <1>3. CASE Rewrite(p, n, obj) /\ pc' = to /\ UNCHANGED <<result, faults>>
    <2>1. DeviceStep
      BY <1>1, <1>3, RewriteType
    <2> QED
      BY <1>1, <1>2, <1>3, <2>1, QuietStep DEF places, TypeOK, ClosePc
  <1>4. CASE FailRewrite(p, n, obj) /\ pc' = "open" /\ result' = "closeErr"
    <2>1. DeviceStep /\ faults' \in Nat
      BY <1>1, <1>4, FailRewriteType
    <2> QED
      BY <1>1, <1>2, <1>4, <2>1, QuietStep
         DEF places, TypeOK, Results
  <1> QED
    BY <1>3, <1>4 DEF CloseStep

\* The table Close's loop encodes.
LEMMA TableSection ==
    ASSUME TypeOK
    PROVE  /\ TableDataSize(tables[tbl]) \in Nat
           /\ TableData(tables[tbl]) \in Object
  <1>1. tables[tbl] \in TableType
    BY ElementOfSeq DEF TypeOK
  <1>2. Len(tables[tbl].entries) \in Nat
    BY <1>1, LenProperties DEF TableType
  <1>3. TableDataSize(tables[tbl]) \in Nat
    BY <1>2 DEF TableDataSize
  <1>4. TableData(tables[tbl]) \in Object
    BY <1>1 DEF TableData, TableType, Object
  <1> QED
    BY <1>3, <1>4

LEMMA TypeInit == Init => TypeInv
  <1> SUFFICES ASSUME Init PROVE TypeInv
    OBVIOUS
  <1>1. <<>> \in Seq(Nat) /\ NewTable \in TableType
    BY DEF NewTable, TableType
  <1>2. <<NewTable>> \in Seq(TableType) /\ Len(<<NewTable>>) = 1
    BY <1>1
  <1>3. TypeOK
    BY <1>1, <1>2 DEF Init, TypeOK, StartPc, Results
  <1>4. BasesWithin
    BY DEF Init, BasesWithin, NewTable
  <1>5. FlushReady
    BY DEF Init, FlushReady
  <1> QED
    BY <1>3, <1>4, <1>5 DEF TypeInv

\* Every action keeps the type invariant.
LEMMA TypeStep == TypeInv /\ [Next]_vars => TypeInv'
  <1> SUFFICES ASSUME TypeInv, [Next]_vars
               PROVE  TypeInv'
    OBVIOUS
  <1> USE DEF StartPc, ClosePc, Results
  <1>1. TypeOK /\ TypeInv
    BY DEF TypeInv
  <1>2. disk \in SUBSET Extents /\ pos \in Nat
    BY <1>1 DEF TypeOK, Extents
  <1> USE Sizes, Names
  <1>3. CASE StartFileHeader
    <2>1. StartUnchanged /\ UNCHANGED places
      BY <1>3 DEF StartFileHeader, StartFails
    <2>2. CASE /\ disk' = Put(disk, pos, FileHeaderSize, [kind |-> "file"])
               /\ pos' = pos + FileHeaderSize /\ pc' = "header"
               /\ result' = "none" /\ UNCHANGED faults
      <3>1. [kind |-> "file"] \in Object
        BY DEF Object
      <3>2. DeviceStep
        BY <1>2, <2>2, <3>1, PutType DEF DeviceStep
      <3> QED
        BY <1>1, <2>1, <2>2, <3>2, QuietStep DEF StartUnchanged, places, TypeOK
    <2>3. CASE /\ \E k \in TornLens : /\ Fault(k, FileHeaderSize)
                                      /\ disk' = Tear(disk, pos, k)
                                      /\ pos' = pos + k
               /\ StartFails
      <3>1. DeviceStep /\ faults' \in Nat
        BY <1>1, <2>3, TornTailType
      <3> QED
        BY <1>1, <2>1, <2>3, <3>1, QuietStep
           DEF StartFails, StartUnchanged, places, TypeOK
    <2> QED
      BY <1>3, <2>2, <2>3 DEF StartFileHeader
  <1>4. CASE StartHeader
    <2> DEFINE second == pos + DescriptorSize + HeaderLen
               text == [kind |-> "header"]
               once == PutSection(disk, pos, "header", HeaderLen, text)
    <2>1. StartUnchanged /\ UNCHANGED places
      BY <1>4 DEF StartHeader, StartFails
    <2>2. text \in Object /\ HeaderLen \in Nat /\ second \in Nat /\ pos <= second
      BY <1>2, LengthAssumption DEF Object
    <2> HIDE DEF second, text, once
    <2>3. once \in SUBSET Extents
      BY <1>2, <2>2, PutSectionType DEF once
    <2>4. CASE /\ disk' = PutSection(once, second, "header", HeaderLen, text)
               /\ pos' = second + DescriptorSize + HeaderLen /\ pc' = "volume"
               /\ UNCHANGED <<result, faults>>
      <3>1. PutSection(once, second, "header", HeaderLen, text) \in SUBSET Extents
        BY <2>2, <2>3, PutSectionType
      <3>2. pos' \in Nat /\ pos <= pos'
        BY <1>2, <2>2, <2>4
      <3>3. DeviceStep
        BY <2>4, <3>1, <3>2 DEF DeviceStep
      <3> QED
        BY <1>1, <2>1, <2>4, <3>3, QuietStep DEF StartUnchanged, places, TypeOK
    <2>5. CASE FailSection("header", HeaderLen) /\ StartFails
      <3>1. DeviceStep /\ faults' \in Nat
        BY <1>1, <2>2, <2>5, FailSectionType
      <3> QED
        BY <1>1, <2>1, <2>5, <3>1, QuietStep
           DEF StartFails, StartUnchanged, places, TypeOK
    <2>6. CASE /\ \E k \in TornLens :
                     /\ Fault(k, DescriptorSize + HeaderLen)
                     /\ disk' = TearSection(once, second, "header", HeaderLen, k)
                     /\ pos' = second + k
               /\ StartFails
      <3>1. PICK k \in TornLens :
              /\ Fault(k, DescriptorSize + HeaderLen)
              /\ disk' = TearSection(once, second, "header", HeaderLen, k)
              /\ pos' = second + k
        BY <2>6
      <3>2. k \in Nat
        BY LengthAssumption
      <3>3. TearSection(once, second, "header", HeaderLen, k) \in SUBSET Extents
        BY <2>2, <2>3, <3>2, TearSectionType
      <3>4. pos' \in Nat /\ pos <= pos' /\ faults' \in Nat
        BY <1>1, <1>2, <2>2, <3>1, <3>2 DEF Fault, TypeOK
      <3>5. DeviceStep
        BY <3>1, <3>3, <3>4 DEF DeviceStep
      <3> QED
        BY <1>1, <2>1, <2>6, <3>4, <3>5, QuietStep
           DEF StartFails, StartUnchanged, places, TypeOK
    <2> QED
      BY <1>4, <2>4, <2>5, <2>6 DEF StartHeader, second, text, once
  <1>5. CASE StartVolume
    <2>1. StartUnchanged /\ UNCHANGED sectorsPos
      BY <1>5 DEF StartVolume, StartFails
    <2>2. CASE /\ AppendSection("volume", VolumeDataSize, VolumeData(chunkCount))
               /\ volPos' = pos + DescriptorSize
               /\ pc' = "sectors"
               /\ UNCHANGED <<result, faults>>
      <3>1. VolumeData(chunkCount) \in Object
        BY <1>1 DEF VolumeData, Object, TypeOK
      <3>2. DeviceStep
        BY <1>1, <2>2, <3>1, AppendSectionType
      <3>3. volPos' \in Nat
        BY <1>2, <2>2
      <3> QED
        BY <1>1, <2>1, <2>2, <3>2, <3>3, QuietStep DEF StartUnchanged, TypeOK
    <2>3. CASE /\ \E k \in TornLens :
                     /\ Fault(k, DescriptorSize + VolumeDataSize)
                     /\ disk' = TearSection(disk, pos, "volume", VolumeDataSize, k)
                     /\ IF k < DescriptorSize
                        THEN pos' = pos /\ volPos' = volPos
                        ELSE /\ volPos' = pos + DescriptorSize
                             /\ pos' = volPos' + VolumeDataSize
               /\ StartFails
      <3>1. PICK k \in TornLens :
              /\ Fault(k, DescriptorSize + VolumeDataSize)
              /\ disk' = TearSection(disk, pos, "volume", VolumeDataSize, k)
              /\ IF k < DescriptorSize
                 THEN pos' = pos /\ volPos' = volPos
                 ELSE /\ volPos' = pos + DescriptorSize
                      /\ pos' = volPos' + VolumeDataSize
        BY <2>3
      <3>2. k \in Nat
        BY LengthAssumption
      <3>3. TearSection(disk, pos, "volume", VolumeDataSize, k) \in SUBSET Extents
        BY <1>2, <3>2, TearSectionType
      <3>4. pos' \in Nat /\ pos <= pos' /\ volPos' \in Nat
        BY <1>1, <1>2, <3>1 DEF TypeOK
      <3>5. faults' \in Nat
        BY <1>1, <3>1 DEF TypeOK, Fault
      <3>6. DeviceStep
        BY <3>1, <3>3, <3>4 DEF DeviceStep
      <3> QED
        BY <1>1, <2>1, <2>3, <3>4, <3>5, <3>6, QuietStep
           DEF StartFails, StartUnchanged, TypeOK
    <2> QED
      BY <1>5, <2>2, <2>3 DEF StartVolume
  <1>6. CASE StartSectors
    <2>1. StartUnchanged /\ UNCHANGED volPos /\ sectorsPos' = pos
      BY <1>6 DEF StartSectors, StartFails
    <2>2. CASE /\ disk' = Put(disk, pos, DescriptorSize,
                              Section("sectors", DescriptorSize, 0))
               /\ pos' = pos + DescriptorSize /\ pc' = "open"
               /\ UNCHANGED <<result, faults>>
      <3>1. Section("sectors", DescriptorSize, 0) \in Object
        BY SectionType
      <3>2. DeviceStep
        BY <1>2, <2>2, <3>1, PutType DEF DeviceStep
      <3> QED
        BY <1>1, <1>2, <2>1, <2>2, <3>2, QuietStep DEF StartUnchanged, TypeOK
    <2>3. CASE /\ \E k \in TornLens : /\ Fault(k, DescriptorSize)
                                      /\ disk' = Tear(disk, pos, k)
                                      /\ pos' = pos + k
               /\ StartFails
      <3>1. DeviceStep /\ faults' \in Nat
        BY <1>1, <2>3, TornTailType
      <3> QED
        BY <1>1, <1>2, <2>1, <2>3, <3>1, QuietStep
           DEF StartFails, StartUnchanged, TypeOK
    <2> QED
      BY <1>6, <2>2, <2>3 DEF StartSectors
  <1>20. CASE StartVolumeAgain
    <2>1. VolumeData(chunkCount) \in Object /\ volPos \in Nat
      BY <1>1 DEF VolumeData, Object, TypeOK
    <2>2. StartUnchanged /\ UNCHANGED places
      BY <1>20 DEF StartVolumeAgain, StartFails
    <2>3. CASE /\ Rewrite(volPos, VolumeDataSize, VolumeData(chunkCount))
               /\ pc' = "sectors" /\ UNCHANGED <<result, faults>>
      <3>1. DeviceStep
        BY <1>1, <2>1, <2>3, RewriteType
      <3> QED
        BY <1>1, <2>2, <2>3, <3>1, QuietStep DEF StartUnchanged, places, TypeOK
    <2>4. CASE /\ FailRewrite(volPos, VolumeDataSize, VolumeData(chunkCount))
               /\ StartFails
      <3>1. DeviceStep /\ faults' \in Nat
        BY <1>1, <2>1, <2>4, FailRewriteType
      <3> QED
        BY <1>1, <2>2, <2>4, <3>1, QuietStep
           DEF StartFails, StartUnchanged, places, TypeOK
    <2> QED
      BY <1>20, <2>3, <2>4 DEF StartVolumeAgain
  <1>21. CASE StartSectorsAgain
    <2> DEFINE desc == Section("sectors", DescriptorSize, 0)
    <2>1. desc \in Object /\ sectorsPos \in Nat
      BY <1>1, SectionType DEF TypeOK
    <2>2. StartUnchanged /\ UNCHANGED places
      BY <1>21 DEF StartSectorsAgain, StartFails
    <2> HIDE DEF desc
    <2>3. CASE /\ Rewrite(sectorsPos, DescriptorSize, desc)
               /\ pc' = "open" /\ UNCHANGED <<result, faults>>
      <3>1. DeviceStep
        BY <1>1, <2>1, <2>3, RewriteType
      <3> QED
        BY <1>1, <2>2, <2>3, <3>1, QuietStep DEF StartUnchanged, places, TypeOK
    <2>4. CASE FailRewrite(sectorsPos, DescriptorSize, desc) /\ StartFails
      <3>1. DeviceStep /\ faults' \in Nat
        BY <1>1, <2>1, <2>4, FailRewriteType
      <3> QED
        BY <1>1, <2>2, <2>4, <3>1, QuietStep
           DEF StartFails, StartUnchanged, places, TypeOK
    <2> QED
      BY <1>21, <2>3, <2>4 DEF StartSectorsAgain, desc
  <1>7. CASE Write
    <2>1. PICK n \in 0..MaxWrite :
            /\ buf' = buf \o [i \in 1..n |-> Len(stream) + i]
            /\ stream' = stream \o [i \in 1..n |-> Len(stream) + i]
      BY <1>7 DEF Write
    <2>2. n \in Nat /\ Len(stream) \in Nat
      BY <1>1, BoundAssumption, LenProperties DEF TypeOK
    <2>3. [i \in 1..n |-> Len(stream) + i] \in Seq(Nat)
      BY <2>2
    <2>4. buf' \in Seq(Nat) /\ stream' \in Seq(Nat)
      BY <1>1, <2>1, <2>3, ConcatProperties DEF TypeOK
    <2>5. DeviceStep
      BY <1>2, <1>7 DEF Write, device, DeviceStep
    <2>6. pc' # "flush" \/ ChunkSize <= Len(buf')
      <3>1. Len(buf') \in Nat /\ ChunkSize \in Nat
        BY <2>4, LenProperties, ChunkSizeAssumption
      <3> QED
        BY <1>7, <3>1 DEF Write
    <2> QED
      BY <1>1, <1>7, <2>4, <2>5, <2>6, QuietStep DEF Write, places, TypeOK
  <1>8. CASE FlushChunk
    <2>1. UNCHANGED <<places, tbl, stream, closes>>
      BY <1>8 DEF FlushChunk
    <2>2. pc' \in {"open", "flush"} /\ result' \in Results
      BY <1>1, <1>8 DEF FlushChunk, TypeOK
    <2>3. pc' = "flush" => ~(Len(buf') < ChunkSize)
      BY <1>8 DEF FlushChunk
    <2>4. ChunkStep /\ buf' \in Seq(Nat)
      <3>1. CASE StoreChunk(SubSeq(buf, 1, ChunkSize)) /\ buf' = Unflushed(buf)
        <4>1. Len(buf) \in Nat /\ ChunkSize \in Nat /\ ChunkSize <= Len(buf)
          BY <1>1, <1>8, LenProperties, ChunkSizeAssumption
             DEF FlushChunk, TypeInv, FlushReady, TypeOK
        <4>2. \A i \in 1..Len(buf) : buf[i] \in Nat
          BY <1>1, ElementOfSeq DEF TypeOK
        <4>3. SubSeq(buf, 1, ChunkSize) \in Seq(Nat)
          BY <4>1, <4>2, SubSeqProperties
        <4>4. Unflushed(buf) \in Seq(Nat)
          BY <4>1, <4>2, SubSeqProperties DEF Unflushed
        <4> QED
          BY <3>1, <4>3, <4>4, StoreChunkType
      <3>2. CASE LoseChunk /\ UNCHANGED buf
        BY <1>1, <3>2, LoseChunkType DEF TypeOK
      <3> QED
        BY <1>8, <3>1, <3>2 DEF FlushChunk
    <2> QED
      <3>1. Len(buf') \in Nat /\ ChunkSize \in Nat
        BY <2>4, LenProperties, ChunkSizeAssumption
      <3>2. pc' # "flush" \/ ChunkSize <= Len(buf')
        BY <2>3, <3>1
      <3>3. stream' \in Seq(Nat)
        BY <1>1, <2>1 DEF TypeOK
      <3> QED
        BY <1>1, <2>1, <2>2, <2>4, <3>2, <3>3, ChunkStepType
  <1>9. CASE BeginClose
    <2>1. CASE buf' = buf /\ stream' = stream
      <3>1. DeviceStep
        BY <1>2, <1>9 DEF BeginClose, device, DeviceStep
      <3> QED
        BY <1>1, <1>9, <2>1, <3>1, QuietStep DEF BeginClose, places, TypeOK
    <2>2. CASE /\ buf' = buf \o Padding(buf, ChunkSize)
               /\ stream' = stream \o Padding(buf, ChunkSize)
      <3>1. Padding(buf, ChunkSize) \in Seq(Nat)
        BY <1>1, ChunkSizeAssumption, PaddingType DEF TypeOK
      <3>2. buf' \in Seq(Nat) /\ stream' \in Seq(Nat)
        BY <1>1, <2>2, <3>1, ConcatProperties DEF TypeOK
      <3>3. DeviceStep
        BY <1>2, <1>9 DEF BeginClose, device, DeviceStep
      <3> QED
        BY <1>1, <1>9, <3>2, <3>3, QuietStep DEF BeginClose, places, TypeOK
    <2> QED
      BY <1>9, <2>1, <2>2 DEF BeginClose
  <1>10. CASE CloseFlush
    <2>1. ChunkStep /\ buf' \in Seq(Nat)
      <3>1. CASE StoreChunk(buf) /\ buf' = <<>>
        BY <1>1, <3>1, StoreChunkType, EmptySeq DEF TypeOK
      <3>2. CASE LoseChunk /\ UNCHANGED buf
        BY <1>1, <3>2, LoseChunkType DEF TypeOK
      <3> QED
        BY <1>10, <3>1, <3>2 DEF CloseFlush, CloseStep
    <2>2. /\ UNCHANGED <<places, tbl, stream, closes>>
          /\ pc' \in {"closeSectors", "open"} /\ result' \in {result, "closeErr"}
      BY <1>10 DEF CloseFlush, CloseStep
    <2> QED
      BY <1>1, <2>1, <2>2, ChunkStepType DEF TypeOK
  <1>11. CASE CloseSectors
    <2> DEFINE desc == Section("sectors", dataSize + DescriptorSize, pos)
    <2>1. dataSize + DescriptorSize \in Nat /\ sectorsPos \in Nat
      BY <1>1 DEF TypeOK
    <2>2. desc \in Object
      BY <1>2, <2>1, SectionType
    <2>3. /\ UNCHANGED <<buf, chunks>> /\ tbl' \in 1..Len(tables)
          /\ CloseStep("closeSectors", "closeVolume",
                       Rewrite(sectorsPos, DescriptorSize, desc),
                       FailRewrite(sectorsPos, DescriptorSize, desc))
      BY <1>1, <1>11 DEF CloseSectors, TypeOK
    <2> HIDE DEF desc
    <2> QED
      BY <2>1, <2>2, <2>3, CloseRewriteType
  <1>12. CASE CloseVolume
    <2>1. VolumeData(chunkCount) \in Object /\ volPos \in Nat
      BY <1>1 DEF VolumeData, Object, TypeOK
    <2>2. 1 \in 1..Len(tables)
      BY <1>1, EmptySeq DEF TypeOK
    <2> QED
      BY <1>12, <2>1, <2>2, CloseRewriteType DEF CloseVolume
  <1>13. CASE CloseTable
    <2>1. TableDataSize(tables[tbl]) \in Nat /\ TableData(tables[tbl]) \in Object
      BY <1>1, TableSection
    <2> QED
      BY <1>1, <1>13, <2>1, CloseSectionType DEF CloseTable, TypeOK
  <1>14. CASE CloseTable2
    <2>1. TableDataSize(tables[tbl]) \in Nat /\ TableData(tables[tbl]) \in Object
      BY <1>1, TableSection
    <2>2. AfterTable \in {"closeTable", "closeDigest"} /\ NextTable \in 1..Len(tables)
      <3>1. Len(tables) \in Nat
        BY <1>1, LenProperties DEF TypeOK
      <3> QED
        BY <1>1, <3>1 DEF AfterTable, NextTable, TypeOK
    <2> QED
      BY <1>1, <1>14, <2>1, <2>2, CloseSectionType DEF CloseTable2
  <1>15. CASE CloseDigest
    <2>1. [kind |-> "digest", sum |-> hashed] \in Object
      BY <1>1 DEF Object, TypeOK
    <2> QED
      BY <1>1, <1>15, <2>1, CloseSectionType DEF CloseDigest, TypeOK
  <1>16. CASE CloseHash
    <2>1. [kind |-> "hash", sum |-> hashed] \in Object
      BY <1>1 DEF Object, TypeOK
    <2> QED
      BY <1>1, <1>16, <2>1, CloseSectionType DEF CloseHash, TypeOK
  <1>17. CASE CloseData
    <2>1. [kind |-> "data", count |-> chunkCount] \in Object
      BY <1>1 DEF Object, TypeOK
    <2> QED
      BY <1>1, <1>17, <2>1, CloseSectionType DEF CloseData, TypeOK
  <1>18. CASE CloseDone
    <2>1. UNCHANGED <<buf, chunks, places, tbl, stream, closes>> /\ pc' = "open"
      BY <1>18 DEF CloseDone
    <2>2. CASE /\ disk' = Put(disk, pos, DescriptorSize,
                              Section("done", DescriptorSize, pos))
               /\ pos' = pos + DescriptorSize
               /\ result' = "closed" /\ UNCHANGED faults
      <3>1. Section("done", DescriptorSize, pos) \in Object
        BY <1>2, SectionType
      <3>2. DeviceStep
        BY <1>2, <2>2, <3>1, PutType DEF DeviceStep
      <3> QED
        BY <1>1, <2>1, <2>2, <3>2, QuietStep DEF places, TypeOK
    <2>3. CASE /\ \E k \in TornLens : /\ Fault(k, DescriptorSize)
                                      /\ disk' = Tear(disk, pos, k)
                                      /\ pos' = pos + k
               /\ result' = "closeErr"
      <3>1. DeviceStep /\ faults' \in Nat
        BY <1>1, <2>3, TornTailType
      <3> QED
        BY <1>1, <2>1, <2>3, <3>1, QuietStep DEF places, TypeOK
    <2> QED
      BY <1>18, <2>2, <2>3 DEF CloseDone
  <1>19. CASE UNCHANGED vars
    BY <1>19 DEF vars, device, chunks, places, ghosts, TypeInv, TypeOK,
                 BasesWithin, FlushReady
  <1> QED
    BY <1>3, <1>4, <1>5, <1>6, <1>7, <1>8, <1>9, <1>10, <1>11, <1>12, <1>13,
       <1>14, <1>15, <1>16, <1>17, <1>18, <1>19, <1>20, <1>21 DEF Next

\* Every variable keeps its type: in particular a table entry is never
\* negative, and the loop of Close never indexes a table that is not there.
THEOREM TypeCorrect == Spec => []TypeOK
  <1>1. TypeInv => TypeOK
    BY DEF TypeInv
  <1> QED
    BY <1>1, TypeInit, TypeStep, PTL DEF Spec

(***************************************************************************)
(* Where the writer puts the bytes it is given.  First how it lays out its *)
(* file and its tables: no chunk is ever overwritten, although Close       *)
(* rewrites two places of the file; none is longer or shorter than         *)
(* ChunkSize, if the client does not Close after a failed Write; and every *)
(* table fits the section that stores it.  Then what becomes of the bytes: *)
(* none is dropped or repeated (NothingLost), and what was hashed can be   *)
(* found in the file through the tables (IndexedDataIsHashed).             *)
(***************************************************************************)

Within(d, q) == \A e \in d : e.at + e.len <= q

\* A torn volume descriptor leaves pos where it was, at the bytes of it.
Nearly(d, q) == \A e \in d : e.at + e.len <= q \/ e.at = q

(***************************************************************************)
(* The places Close rewrites lie before every chunk, and everything else   *)
(* is written at the end of the file, past all of them.  A Start that      *)
(* failed may leave pos at the bytes of a torn descriptor, and places that *)
(* the next Start rewrites: those are behind pos by then, for the header   *)
(* it writes anew is longer than what the failure may have left undone.    *)
(***************************************************************************)
PlacesFit ==
    /\ volPos # 0 => volPos + VolumeDataSize <= pos
    /\ sectorsPos # 0 => volPos # 0
    /\ sectorsPos # 0 => volPos + VolumeDataSize <= sectorsPos
    /\ sectorsPos # 0 => sectorsPos <= pos

LayoutInv ==
    /\ Nearly(disk, pos)
    /\ pc \notin {"new", "failed"} => Within(disk, pos)
    /\ pc \in StartPc \cup {"failed"} => ChunkExtents(disk) = {} /\ PlacesFit
    /\ pc \in {"volume", "sectors"} =>
         (sectorsPos # 0 => sectorsPos + DescriptorSize <= pos)
    /\ pc = "sectors" => volPos # 0
    /\ pc \notin StartPc \cup {"failed"} =>
         /\ volPos + VolumeDataSize <= sectorsPos
         /\ sectorsPos + DescriptorSize <= pos
         /\ \A e \in ChunkExtents(disk) : sectorsPos + DescriptorSize <= e.at

SizeInv ==
    /\ FixedSizeChunks
    /\ pc = "closeFlush" => Len(buf) = ChunkSize
    /\ pc \in StartPc \cup ClosePc \cup {"failed"} => Len(buf) <= ChunkSize
    /\ pc = "open" /\ result # "writeErr" => Len(buf) <= ChunkSize

(***************************************************************************)
(* Writes of something that is not a chunk.  Appended(d, p, r, q): r is d  *)
(* with bytes added from p to q, and no chunk among them.                  *)
(***************************************************************************)
Appended(d, p, r, q) == Within(d, p) => Within(r, q) /\ ChunkExtents(r) = ChunkExtents(d)

LEMMA NotChunks ==
    /\ Torn.kind # "chunk"
    /\ \A type, size, next : Section(type, size, next).kind # "chunk"
    /\ \A n : VolumeData(n).kind # "chunk"
    /\ \A t : TableData(t).kind # "chunk"
  BY DEF Torn, Section, VolumeData, TableData

\* Storing an object that overlaps no chunk leaves the same chunks.
LEMMA PutChunks ==
    ASSUME NEW d \in SUBSET Extents, NEW p \in Nat, NEW n \in Nat, NEW o,
           o.kind # "chunk",
           \A e \in ChunkExtents(d) : e.at + e.len <= p \/ p + n <= e.at
    PROVE  ChunkExtents(Put(d, p, n, o)) = ChunkExtents(d)
  BY DEF Put, ChunkExtents, Extents

LEMMA PutWithin ==
    ASSUME NEW d \in SUBSET Extents, NEW p \in Nat, NEW n \in Nat, NEW o,
           NEW q \in Nat, Within(d, q), p + n <= q
    PROVE  Within(Put(d, p, n, o), q)
  BY DEF Put, Within, Extents

LEMMA WithinMore ==
    ASSUME NEW d \in SUBSET Extents, NEW p \in Nat, NEW q \in Nat, p <= q,
           Within(d, p)
    PROVE  Within(d, q)
  BY DEF Within, Extents

LEMMA WithinNearly ==
    ASSUME NEW d, NEW q, Within(d, q)
    PROVE  Nearly(d, q)
  BY DEF Within, Nearly

\* A write at the end replaces a torn descriptor that lies there.
LEMMA PutNearly ==
    ASSUME NEW d \in SUBSET Extents, NEW p \in Nat, NEW n \in Nat, NEW o,
           o.kind # "chunk", Nearly(d, p), ChunkExtents(d) = {}
    PROVE  /\ Nearly(Put(d, p, n, o), p + n)
           /\ n > 0 => Within(Put(d, p, n, o), p + n)
           /\ ChunkExtents(Put(d, p, n, o)) = {}
  BY DEF Put, Within, Nearly, Extents, ChunkExtents

LEMMA PutAppends ==
    ASSUME NEW d \in SUBSET Extents, NEW p \in Nat, NEW n \in Nat, NEW o,
           o.kind # "chunk"
    PROVE  Appended(d, p, Put(d, p, n, o), p + n)
  <1> SUFFICES ASSUME Within(d, p)
               PROVE  /\ Within(Put(d, p, n, o), p + n)
                      /\ ChunkExtents(Put(d, p, n, o)) = ChunkExtents(d)
    BY DEF Appended
  <1>1. p + n \in Nat /\ p <= p + n
    OBVIOUS
  <1>2. Within(d, p + n)
    BY <1>1, WithinMore
  <1>3. \A e \in ChunkExtents(d) : e.at + e.len <= p
    BY DEF ChunkExtents, Within
  <1> QED
    BY <1>1, <1>2, <1>3, PutWithin, PutChunks

LEMMA TearAppends ==
    ASSUME NEW d \in SUBSET Extents, NEW p \in Nat, NEW k \in Nat
    PROVE  Appended(d, p, Tear(d, p, k), p + k)
  BY PutAppends, NotChunks DEF Tear

LEMMA PutSectionAppends ==
    ASSUME NEW d \in SUBSET Extents, NEW p \in Nat, NEW type \in SectionTypes,
           NEW n \in Nat, NEW body, body.kind # "chunk"
    PROVE  Appended(d, p, PutSection(d, p, type, n, body), p + DescriptorSize + n)
  <1> DEFINE desc == Section(type, n + DescriptorSize, p + n + DescriptorSize)
             mid == Put(d, p, DescriptorSize, desc)
  <1>1. DescriptorSize \in Nat /\ p + DescriptorSize \in Nat
        /\ n + DescriptorSize \in Nat /\ p + n + DescriptorSize \in Nat
    BY Sizes
  <1>2. desc \in Object /\ desc.kind # "chunk"
    BY <1>1, SectionType, NotChunks
  <1> HIDE DEF desc
  <1>3. Appended(d, p, mid, p + DescriptorSize) /\ mid \in SUBSET Extents
    BY <1>1, <1>2, PutAppends, PutType
  <1> HIDE DEF mid
  <1>4. Appended(mid, p + DescriptorSize, Put(mid, p + DescriptorSize, n, body),
                 p + DescriptorSize + n)
    BY <1>1, <1>3, PutAppends
  <1>5. PutSection(d, p, type, n, body) = Put(mid, p + DescriptorSize, n, body)
    BY DEF PutSection, mid, desc
  <1> QED
    BY <1>3, <1>4, <1>5 DEF Appended

LEMMA TearSectionAppends ==
    ASSUME NEW d \in SUBSET Extents, NEW p \in Nat, NEW type \in SectionTypes,
           NEW n \in Nat, NEW k \in Nat
    PROVE  Appended(d, p, TearSection(d, p, type, n, k), p + k)
  <1> DEFINE desc == Section(type, n + DescriptorSize, p + n + DescriptorSize)
             mid == Put(d, p, DescriptorSize, desc)
             j == k - DescriptorSize
  <1>1. DescriptorSize \in Nat /\ p + DescriptorSize \in Nat
        /\ n + DescriptorSize \in Nat /\ p + n + DescriptorSize \in Nat
    BY Sizes
  <1>2. desc \in Object /\ desc.kind # "chunk"
    BY <1>1, SectionType, NotChunks
  <1> HIDE DEF desc
  <1>3. Appended(d, p, mid, p + DescriptorSize) /\ mid \in SUBSET Extents
    BY <1>1, <1>2, PutAppends, PutType
  <1> HIDE DEF mid
  <1>4. CASE k < DescriptorSize
    BY <1>4, TearAppends DEF TearSection
  <1>5. CASE ~(k < DescriptorSize)
    <2>1. j \in Nat /\ p + DescriptorSize + j = p + k
      BY <1>1, <1>5
    <2>2. Appended(mid, p + DescriptorSize, Tear(mid, p + DescriptorSize, j),
                   p + DescriptorSize + j)
      BY <1>1, <1>3, <2>1, TearAppends
    <2>3. TearSection(d, p, type, n, k) = Tear(mid, p + DescriptorSize, j)
      BY <1>5 DEF TearSection, mid, desc
    <2> QED
      BY <1>3, <2>1, <2>2, <2>3 DEF Appended
  <1> QED
    BY <1>4, <1>5

(***************************************************************************)
(* Steps of the writer.  EndStep: the file grew at its end, by no chunk.   *)
(* Running: the writer exists, and no call of Start is in progress.        *)
(***************************************************************************)
EndStep == Appended(disk, pos, disk', pos') /\ pos <= pos'

Running == pc \notin StartPc \cup {"failed"}

LEMMA AppendSectionEnds ==
    ASSUME TypeOK, NEW type \in SectionTypes, NEW n \in Nat, NEW body \in Object,
           body.kind # "chunk", AppendSection(type, n, body)
    PROVE  EndStep
  <1>1. disk \in SUBSET Extents /\ pos \in Nat
    BY DEF TypeOK, Extents
  <1>2. disk' = PutSection(disk, pos, type, n, body) /\ pos' = pos + DescriptorSize + n
    BY DEF AppendSection
  <1>3. pos <= pos'
    BY <1>1, <1>2, Sizes
  <1> QED
    BY <1>1, <1>2, <1>3, PutSectionAppends DEF EndStep

LEMMA FailSectionEnds ==
    ASSUME TypeOK, NEW type \in SectionTypes, NEW n \in Nat, FailSection(type, n)
    PROVE  EndStep
  <1>1. disk \in SUBSET Extents /\ pos \in Nat
    BY DEF TypeOK, Extents
  <1>2. PICK k \in TornLens : /\ disk' = TearSection(disk, pos, type, n, k)
                              /\ pos' = pos + k
    BY DEF FailSection
  <1>3. k \in Nat /\ pos <= pos'
    BY <1>1, <1>2, LengthAssumption
  <1> QED
    BY <1>1, <1>2, <1>3, TearSectionAppends DEF EndStep

LEMMA TornTailEnds ==
    ASSUME TypeOK, NEW k \in TornLens, disk' = Tear(disk, pos, k), pos' = pos + k
    PROVE  EndStep
  <1>1. disk \in SUBSET Extents /\ pos \in Nat /\ k \in Nat
    BY LengthAssumption DEF TypeOK, Extents
  <1>2. pos <= pos'
    BY <1>1
  <1> QED
    BY <1>1, <1>2, TearAppends DEF EndStep

LEMMA StoredAtEnd ==
    ASSUME TypeOK, NEW n \in Nat, NEW o, o.kind # "chunk",
           disk' = Put(disk, pos, n, o), pos' = pos + n
    PROVE  EndStep
  <1>1. disk \in SUBSET Extents /\ pos \in Nat
    BY DEF TypeOK, Extents
  <1>2. pos <= pos'
    BY <1>1
  <1> QED
    BY <1>1, <1>2, PutAppends DEF EndStep

\* A rewrite of a place that lies before every chunk, whole, torn or lost.
LEMMA RewriteEnds ==
    ASSUME TypeOK, NEW p \in Nat, NEW n \in Nat, NEW obj, obj.kind # "chunk",
           p + n <= pos, \A e \in ChunkExtents(disk) : p + n <= e.at,
           Rewrite(p, n, obj) \/ FailRewrite(p, n, obj)
    PROVE  EndStep
  <1>1. disk \in SUBSET Extents /\ pos \in Nat
    BY DEF TypeOK, Extents
  <1>2. disk' \in {disk, Put(disk, p, n, Torn), Put(disk, p, n, obj)} /\ pos' = pos
    BY DEF Rewrite, FailRewrite, Tear
  <1>3. \A o : o.kind # "chunk" => Appended(disk, pos, Put(disk, p, n, o), pos)
    BY <1>1, PutChunks, PutWithin DEF Appended
  <1>4. Appended(disk, pos, disk, pos)
    BY DEF Appended
  <1>5. Appended(disk, pos, disk', pos')
    BY <1>2, <1>3, <1>4, NotChunks
  <1> QED
    BY <1>1, <1>2, <1>5 DEF EndStep

\* Once the writer runs, such steps keep the layout, and the chunks.
LEMMA EndStepLayout ==
    ASSUME TypeInv, TypeInv', LayoutInv, EndStep, UNCHANGED places,
           Running, Running'
    PROVE  LayoutInv' /\ ChunkExtents(disk) \subseteq ChunkExtents(disk')
  <1>1. /\ Within(disk', pos') /\ Nearly(disk', pos')
        /\ ChunkExtents(disk') = ChunkExtents(disk)
    BY WithinNearly DEF EndStep, Appended, LayoutInv, Running, StartPc
  <1>2. /\ pos \in Nat /\ pos' \in Nat /\ pos <= pos'
        /\ sectorsPos + DescriptorSize \in Nat
    BY Sizes DEF TypeInv, TypeOK, EndStep
  <1>3. UNCHANGED <<volPos, sectorsPos>>
    BY DEF places
  <1>4. sectorsPos' + DescriptorSize <= pos'
    BY <1>2, <1>3 DEF LayoutInv, Running
  <1>5. pc' \notin StartPc \cup {"failed", "volume", "sectors"}
    BY DEF Running, StartPc
  <1> QED
    BY <1>1, <1>3, <1>4, <1>5 DEF LayoutInv, Running

\* So does a chunk that is stored at the end.
LEMMA StoreChunkLayout ==
    ASSUME TypeInv, TypeInv', LayoutInv, NEW data \in Seq(Nat),
           StoreChunk(data), UNCHANGED places, Running, Running'
    PROVE  LayoutInv' /\ ChunkExtents(disk) \subseteq ChunkExtents(disk')
  <1>1. disk \in SUBSET Extents /\ pos \in Nat /\ pos' \in Nat
    BY DEF TypeInv, TypeOK, Extents
  <1>2. PICK c \in CompressedLens : disk' = Put(disk, pos, c, Chunk(data))
                                    /\ pos' = pos + c
    BY DEF StoreChunk
  <1>3. c \in Nat /\ pos <= pos'
    BY <1>1, <1>2, LengthAssumption
  <1>4. Within(disk, pos)
    BY DEF LayoutInv, Running, StartPc
  <1>5. Within(disk', pos') /\ Nearly(disk', pos')
    BY <1>1, <1>2, <1>3, <1>4, WithinMore, PutWithin, WithinNearly
  <1>6. disk \subseteq disk' /\ \A e \in disk' \ disk : e.at = pos
    BY <1>1, <1>2, <1>4 DEF Put, Within, Extents
  <1>7. ChunkExtents(disk) \subseteq ChunkExtents(disk')
    BY <1>6 DEF ChunkExtents
  <1>8. UNCHANGED <<volPos, sectorsPos>> /\ sectorsPos + DescriptorSize \in Nat
    BY Sizes DEF places, TypeInv, TypeOK
  <1>9. sectorsPos + DescriptorSize <= pos
    BY DEF LayoutInv, Running
  <1>10. \A e \in ChunkExtents(disk') : sectorsPos + DescriptorSize <= e.at
    <2> SUFFICES ASSUME NEW e \in ChunkExtents(disk')
                 PROVE  sectorsPos + DescriptorSize <= e.at
      OBVIOUS
    <2>1. CASE e \in disk
      BY <2>1 DEF ChunkExtents, LayoutInv, Running
    <2>2. CASE e \notin disk
      BY <1>6, <1>9, <2>2 DEF ChunkExtents
    <2> QED
      BY <2>1, <2>2
  <1>11. sectorsPos' + DescriptorSize <= pos'
    BY <1>1, <1>3, <1>8, <1>9
  <1>12. pc' \notin StartPc \cup {"failed", "volume", "sectors"}
    BY DEF Running, StartPc
  <1> QED
    BY <1>5, <1>7, <1>8, <1>10, <1>11, <1>12 DEF LayoutInv, Running

\* And a chunk whose write failed.
LEMMA LoseChunkEnds ==
    ASSUME TypeOK, LoseChunk
    PROVE  EndStep
  <1>1. PICK k \in TornLens : disk' = Tear(disk, pos, k) /\ pos' = pos + k
    BY DEF LoseChunk
  <1> QED
    BY <1>1, TornTailEnds

\* A step of Close that appends a section.
LEMMA CloseSectionLayout ==
    ASSUME TypeInv, TypeInv', LayoutInv,
           NEW type \in SectionTypes, NEW n \in Nat, NEW body \in Object,
           body.kind # "chunk", NEW from \in ClosePc, NEW to \in ClosePc,
           CloseStep(from, to, AppendSection(type, n, body),
                     FailSection(type, n))
    PROVE  LayoutInv' /\ ChunkExtents(disk) \subseteq ChunkExtents(disk')
  <1>1. UNCHANGED places /\ Running /\ Running'
    BY DEF CloseStep, Running, StartPc, ClosePc
  <1>2. EndStep
    BY AppendSectionEnds, FailSectionEnds DEF CloseStep, TypeInv
  <1> QED
    BY <1>1, <1>2, EndStepLayout

\* A step of Close that rewrites one of the two places.
LEMMA CloseRewriteLayout ==
    ASSUME TypeInv, TypeInv', LayoutInv,
           NEW p \in Nat, NEW n \in Nat, NEW obj, obj.kind # "chunk",
           p + n <= sectorsPos + DescriptorSize,
           NEW from \in ClosePc, NEW to \in ClosePc,
           CloseStep(from, to, Rewrite(p, n, obj), FailRewrite(p, n, obj))
    PROVE  LayoutInv' /\ ChunkExtents(disk) \subseteq ChunkExtents(disk')
  <1>1. UNCHANGED places /\ Running /\ Running'
    BY DEF CloseStep, Running, StartPc, ClosePc
  <1>2. TypeOK /\ sectorsPos + DescriptorSize \in Nat /\ pos \in Nat
    <2>1. TypeOK
      BY DEF TypeInv
    <2>2. sectorsPos \in Nat /\ pos \in Nat
      BY <2>1 DEF TypeOK
    <2> QED
      BY <2>1, <2>2, Sizes
  <1>3. p + n <= pos
    BY <1>1, <1>2 DEF LayoutInv, Running
  <1>4. \A e \in ChunkExtents(disk) : p + n <= e.at
    <2> SUFFICES ASSUME NEW e \in ChunkExtents(disk) PROVE p + n <= e.at
      OBVIOUS
    <2>1. e.at \in Nat
      BY DEF ChunkExtents, TypeInv, TypeOK
    <2>2. sectorsPos + DescriptorSize <= e.at
      BY <1>1 DEF LayoutInv, Running
    <2> QED
      BY <1>2, <2>1, <2>2
  <1>5. EndStep
    BY <1>2, <1>3, <1>4, RewriteEnds DEF CloseStep
  <1> QED
    BY <1>1, <1>5, EndStepLayout

\* Start moves the end of the file forward, with the places behind it.
LEMMA PlacesStay ==
    ASSUME TypeOK, PlacesFit, UNCHANGED places, pos' \in Nat, pos <= pos'
    PROVE  PlacesFit'
  <1>1. volPos \in Nat /\ sectorsPos \in Nat /\ pos \in Nat
    BY DEF TypeOK
  <1> QED
    BY <1>1, Sizes DEF PlacesFit, places

\* What Start has written when a step of it fails.
LEMMA FailedLayout ==
    ASSUME pc' = "failed", Nearly(disk', pos'), ChunkExtents(disk') = {},
           PlacesFit'
    PROVE  LayoutInv'
  BY DEF LayoutInv, StartPc

LEMMA LayoutInit == Init => LayoutInv
  BY DEF Init, LayoutInv, Nearly, PlacesFit, ChunkExtents, StartPc

\* Every action keeps the layout, and every chunk.
LEMMA LayoutStep ==
    TypeInv /\ TypeInv' /\ LayoutInv /\ [Next]_vars
      => LayoutInv' /\ ChunkExtents(disk) \subseteq ChunkExtents(disk')
  <1> SUFFICES ASSUME TypeInv, TypeInv', LayoutInv, [Next]_vars
               PROVE  LayoutInv' /\ ChunkExtents(disk) \subseteq ChunkExtents(disk')
    OBVIOUS
  <1> USE Sizes, Names
  <1>1. TypeOK /\ pos \in Nat /\ disk \in SUBSET Extents
    BY DEF TypeInv, TypeOK, Extents
  <1>2. /\ disk' \in SUBSET Extents /\ pos' \in Nat
        /\ volPos \in Nat /\ sectorsPos \in Nat
    BY DEF TypeInv, TypeOK, Extents
  <1>17. ASSUME pc \in {"header", "volume", "sectors"}, EndStep
         PROVE  /\ Within(disk', pos') /\ Nearly(disk', pos') /\ pos <= pos'
                /\ ChunkExtents(disk) = {} /\ ChunkExtents(disk') = {}
    BY <1>17, WithinNearly DEF EndStep, Appended, LayoutInv, StartPc
  <1>18. ASSUME pc \in {"header", "volume", "sectors"}, EndStep, StartFails,
                UNCHANGED places
         PROVE  LayoutInv' /\ ChunkExtents(disk) \subseteq ChunkExtents(disk')
    <2>1. PlacesFit'
      BY <1>1, <1>2, <1>17, <1>18, PlacesStay DEF LayoutInv, StartPc
    <2> QED
      BY <1>17, <1>18, <2>1, FailedLayout DEF StartFails
  <1>3. CASE StartFileHeader
    <2>1. /\ Nearly(disk, pos) /\ ChunkExtents(disk) = {} /\ PlacesFit
          /\ UNCHANGED places
      BY <1>3 DEF StartFileHeader, LayoutInv, StartPc
    <2>2. CASE /\ disk' = Put(disk, pos, FileHeaderSize, [kind |-> "file"])
               /\ pos' = pos + FileHeaderSize /\ pc' = "header"
      <3>1. [kind |-> "file"].kind # "chunk" /\ FileHeaderSize > 0
        BY DEF FileHeaderSize
      <3>2. /\ Within(disk', pos') /\ Nearly(disk', pos')
            /\ ChunkExtents(disk') = {}
        BY <1>1, <2>1, <2>2, <3>1, PutNearly
      <3>3. PlacesFit'
        BY <1>1, <1>2, <2>1, <2>2, PlacesStay
      <3> QED
        BY <2>1, <2>2, <3>2, <3>3 DEF LayoutInv, StartPc
    <2>3. CASE /\ \E k \in TornLens : /\ Fault(k, FileHeaderSize)
                                      /\ disk' = Tear(disk, pos, k)
                                      /\ pos' = pos + k
               /\ StartFails
      <3>1. PICK k \in TornLens : disk' = Tear(disk, pos, k) /\ pos' = pos + k
        BY <2>3
      <3>2. k \in Nat /\ pos <= pos'
        BY <1>1, <3>1, LengthAssumption
      <3>3. Nearly(disk', pos') /\ ChunkExtents(disk') = {}
        BY <1>1, <2>1, <3>1, <3>2, NotChunks, PutNearly DEF Tear
      <3>4. PlacesFit'
        BY <1>1, <1>2, <2>1, <3>2, PlacesStay
      <3> QED
        BY <2>1, <2>3, <3>3, <3>4, FailedLayout DEF StartFails
    <2> QED
      BY <1>3, <2>2, <2>3 DEF StartFileHeader
  <1>4. CASE StartHeader
    <2> DEFINE second == pos + DescriptorSize + HeaderLen
               text == [kind |-> "header"]
               once == PutSection(disk, pos, "header", HeaderLen, text)
               both == PutSection(once, second, "header", HeaderLen, text)
    <2>1. /\ text \in Object /\ text.kind # "chunk"
          /\ HeaderLen \in Nat /\ second \in Nat /\ pos <= second
      BY <1>1, LengthAssumption DEF Object
    <2>2. pc = "header" /\ UNCHANGED places
      BY <1>4 DEF StartHeader
    <2>3. PlacesFit
      BY <2>2 DEF LayoutInv, StartPc
    <2>4. once \in SUBSET Extents /\ Appended(disk, pos, once, second)
      <3> HIDE DEF text
      <3> QED
        BY <1>1, <2>1, PutSectionType, PutSectionAppends
    <2>5. CASE /\ disk' = both /\ pc' = "volume"
               /\ pos' = second + DescriptorSize + HeaderLen
      <3>1. PlacesFit' /\ (sectorsPos' # 0 => sectorsPos' + DescriptorSize <= pos')
        <4>1. pos <= pos' /\ pos + DescriptorSize <= pos'
          BY <1>1, <2>1, <2>5
        <4>2. PlacesFit'
          BY <1>1, <1>2, <2>2, <2>3, <4>1, PlacesStay
        <4> QED
          BY <1>1, <1>2, <2>2, <2>3, <4>1, <4>2 DEF PlacesFit, places
      <3> HIDE DEF text, second, once
      <3>2. Appended(once, second, both, pos')
        BY <2>1, <2>4, <2>5, PutSectionAppends
      <3>3. EndStep
        BY <1>1, <2>1, <2>4, <2>5, <3>2, LengthAssumption
           DEF EndStep, Appended, second
      <3> QED
        BY <1>17, <2>2, <2>5, <3>1, <3>3 DEF LayoutInv, StartPc
    <2>6. CASE FailSection("header", HeaderLen) /\ StartFails
      BY <1>1, <1>18, <2>1, <2>2, <2>6, FailSectionEnds
    <2>7. CASE /\ \E k \in TornLens :
                     /\ Fault(k, DescriptorSize + HeaderLen)
                     /\ disk' = TearSection(once, second, "header", HeaderLen, k)
                     /\ pos' = second + k
               /\ StartFails
      <3>1. PICK k \in TornLens :
              /\ disk' = TearSection(once, second, "header", HeaderLen, k)
              /\ pos' = second + k
        BY <2>7
      <3>2. k \in Nat /\ pos <= pos'
        BY <1>1, <2>1, <3>1, LengthAssumption
      <3> HIDE DEF text, second, once
      <3>3. Appended(once, second, disk', pos')
        BY <2>1, <2>4, <3>1, <3>2, TearSectionAppends
      <3>4. EndStep
        BY <2>4, <3>2, <3>3 DEF EndStep, Appended
      <3> QED
        BY <1>18, <2>2, <2>7, <3>4
    <2> QED
      BY <1>4, <2>5, <2>6, <2>7 DEF StartHeader
  <1>5. CASE StartVolume
    <2>1. pc = "volume" /\ volPos = 0 /\ PlacesFit /\ UNCHANGED sectorsPos
      BY <1>5 DEF StartVolume, LayoutInv, StartPc
    <2>2. sectorsPos = 0
      BY <2>1 DEF PlacesFit
    <2>3. CASE /\ AppendSection("volume", VolumeDataSize, VolumeData(chunkCount))
               /\ volPos' = pos + DescriptorSize
               /\ pc' = "sectors"
      <3>1. VolumeData(chunkCount) \in Object /\ VolumeData(chunkCount).kind # "chunk"
        BY <1>1, NotChunks DEF VolumeData, Object, TypeOK
      <3>2. EndStep
        BY <1>1, <2>3, <3>1, AppendSectionEnds
      <3>3. volPos' + VolumeDataSize <= pos' /\ volPos' # 0
        BY <1>1, <2>3 DEF AppendSection, DescriptorSize
      <3> QED
        BY <1>17, <2>1, <2>2, <2>3, <3>2, <3>3 DEF LayoutInv, PlacesFit, StartPc
    <2>4. CASE /\ \E k \in TornLens :
                     /\ Fault(k, DescriptorSize + VolumeDataSize)
                     /\ disk' = TearSection(disk, pos, "volume", VolumeDataSize, k)
                     /\ IF k < DescriptorSize
                        THEN pos' = pos /\ volPos' = volPos
                        ELSE /\ volPos' = pos + DescriptorSize
                             /\ pos' = volPos' + VolumeDataSize
               /\ StartFails
      <3>1. PICK k \in TornLens :
              /\ Fault(k, DescriptorSize + VolumeDataSize)
              /\ disk' = TearSection(disk, pos, "volume", VolumeDataSize, k)
              /\ IF k < DescriptorSize
                 THEN pos' = pos /\ volPos' = volPos
                 ELSE /\ volPos' = pos + DescriptorSize
                      /\ pos' = volPos' + VolumeDataSize
        BY <2>4
      <3>2. k \in Nat /\ pos + k \in Nat /\ k < DescriptorSize + VolumeDataSize
        BY <1>1, <3>1, LengthAssumption DEF Fault
      <3>3. Within(disk, pos) /\ ChunkExtents(disk) = {}
        BY <2>1 DEF LayoutInv, StartPc
      <3>4. Within(disk', pos + k) /\ ChunkExtents(disk') = {}
        BY <1>1, <3>1, <3>2, <3>3, TearSectionAppends DEF Appended
      <3>5. Nearly(disk', pos') /\ PlacesFit'
        <4>1. CASE k < DescriptorSize
          <5>1. disk' = Tear(disk, pos, k) /\ pos' = pos /\ volPos' = 0
            BY <2>1, <3>1, <4>1 DEF TearSection
          <5>2. Nearly(disk', pos)
            BY <3>3, <5>1 DEF Tear, Put, Within, Nearly
          <5> QED
            BY <2>1, <2>2, <5>1, <5>2 DEF PlacesFit
        <4>2. CASE ~(k < DescriptorSize)
          <5>1. volPos' = pos + DescriptorSize /\ pos' = volPos' + VolumeDataSize
            BY <3>1, <4>2
          <5>2. pos + k <= pos' /\ volPos' + VolumeDataSize <= pos'
            BY <1>1, <1>2, <3>2, <5>1
          <5>3. Nearly(disk', pos')
            BY <1>2, <3>2, <3>4, <5>2, WithinMore, WithinNearly
          <5> QED
            BY <2>1, <2>2, <5>2, <5>3 DEF PlacesFit
        <4> QED
          BY <4>1, <4>2
      <3> QED
        BY <2>4, <3>3, <3>4, <3>5, FailedLayout DEF StartFails
    <2> QED
      BY <1>5, <2>3, <2>4 DEF StartVolume
  <1>19. CASE StartVolumeAgain
    <2>1. /\ pc = "volume" /\ volPos # 0 /\ PlacesFit /\ UNCHANGED places
          /\ ChunkExtents(disk) = {}
      BY <1>19 DEF StartVolumeAgain, LayoutInv, StartPc
    <2>2. EndStep
      <3>1. volPos + VolumeDataSize <= pos /\ VolumeData(chunkCount).kind # "chunk"
        BY <2>1, NotChunks DEF PlacesFit
      <3>2. \/ Rewrite(volPos, VolumeDataSize, VolumeData(chunkCount))
            \/ FailRewrite(volPos, VolumeDataSize, VolumeData(chunkCount))
        BY <1>19 DEF StartVolumeAgain
      <3> QED
        BY <1>1, <1>2, <2>1, <3>1, <3>2, RewriteEnds
    <2>3. CASE pc' = "sectors" /\ UNCHANGED pos
      <3>1. PlacesFit' /\ volPos' # 0
        BY <1>1, <1>2, <2>1, <2>3, PlacesStay DEF places
      <3> QED
        BY <1>17, <2>1, <2>2, <2>3, <3>1 DEF LayoutInv, places, StartPc
    <2>4. CASE StartFails
      BY <1>18, <2>1, <2>2, <2>4
    <2> QED
      BY <1>19, <2>3, <2>4 DEF StartVolumeAgain, Rewrite
  <1>6. CASE StartSectors
    <2>1. /\ pc = "sectors" /\ volPos # 0 /\ PlacesFit
          /\ sectorsPos' = pos /\ UNCHANGED volPos
      BY <1>6 DEF StartSectors, LayoutInv, StartPc
    <2>2. volPos' + VolumeDataSize <= sectorsPos'
      BY <2>1 DEF PlacesFit
    <2>3. CASE /\ disk' = Put(disk, pos, DescriptorSize,
                              Section("sectors", DescriptorSize, 0))
               /\ pos' = pos + DescriptorSize /\ pc' = "open"
      <3>1. EndStep
        BY <1>1, <2>3, NotChunks, StoredAtEnd
      <3>2. sectorsPos' + DescriptorSize <= pos'
        BY <1>1, <2>1, <2>3
      <3> QED
        BY <1>17, <2>1, <2>2, <2>3, <3>1, <3>2 DEF LayoutInv, StartPc
    <2>4. CASE /\ \E k \in TornLens : /\ Fault(k, DescriptorSize)
                                      /\ disk' = Tear(disk, pos, k)
                                      /\ pos' = pos + k
               /\ StartFails
      <3>1. EndStep
        BY <1>1, <2>4, TornTailEnds
      <3>2. pos <= pos' /\ Nearly(disk', pos') /\ ChunkExtents(disk') = {}
            /\ ChunkExtents(disk) = {}
        BY <1>17, <2>1, <3>1
      <3>3. PlacesFit'
        BY <1>1, <1>2, <2>1, <2>2, <3>2, Sizes DEF PlacesFit
      <3> QED
        BY <2>4, <3>2, <3>3, FailedLayout DEF StartFails
    <2> QED
      BY <1>6, <2>3, <2>4 DEF StartSectors
  <1>20. CASE StartSectorsAgain
    <2> DEFINE desc == Section("sectors", DescriptorSize, 0)
    <2>1. /\ pc = "sectors" /\ sectorsPos # 0 /\ PlacesFit /\ UNCHANGED places
          /\ ChunkExtents(disk) = {} /\ sectorsPos + DescriptorSize <= pos
      BY <1>20 DEF StartSectorsAgain, LayoutInv, StartPc
    <2>2. desc.kind # "chunk"
      BY NotChunks
    <2>3. Rewrite(sectorsPos, DescriptorSize, desc)
            \/ FailRewrite(sectorsPos, DescriptorSize, desc)
      BY <1>20 DEF StartSectorsAgain
    <2> HIDE DEF desc
    <2>4. EndStep
      BY <1>1, <1>2, <2>1, <2>2, <2>3, RewriteEnds
    <2>5. CASE pc' = "open" /\ UNCHANGED pos
      BY <1>17, <2>1, <2>4, <2>5 DEF LayoutInv, PlacesFit, places, StartPc
    <2>6. CASE StartFails
      BY <1>18, <2>1, <2>4, <2>6
    <2> QED
      BY <1>20, <2>5, <2>6 DEF StartSectorsAgain, Rewrite
  <1>7. CASE Write \/ BeginClose
    <2>1. UNCHANGED <<disk, pos, volPos, sectorsPos>> /\ pc = "open"
          /\ pc' \in {"open", "flush", "closeFlush", "closeSectors"}
      BY <1>7 DEF Write, BeginClose, device, places
    <2> QED
      BY <2>1 DEF LayoutInv, StartPc
  <1>8. CASE FlushChunk
    <2>1. UNCHANGED places /\ Running /\ Running'
      BY <1>8 DEF FlushChunk, Running, StartPc
    <2>2. CASE StoreChunk(SubSeq(buf, 1, ChunkSize))
      <3>1. Len(buf) \in Nat /\ ChunkSize \in Nat /\ ChunkSize <= Len(buf)
        BY <1>1, <1>8, LenProperties, ChunkSizeAssumption
           DEF FlushChunk, TypeInv, FlushReady, TypeOK
      <3>2. \A i \in 1..Len(buf) : buf[i] \in Nat
        BY <1>1, ElementOfSeq DEF TypeOK
      <3>3. SubSeq(buf, 1, ChunkSize) \in Seq(Nat)
        BY <3>1, <3>2, SubSeqProperties
      <3> QED
        BY <2>1, <2>2, <3>3, StoreChunkLayout
    <2>3. CASE LoseChunk
      BY <1>1, <2>1, <2>3, LoseChunkEnds, EndStepLayout
    <2> QED
      BY <1>8, <2>2, <2>3 DEF FlushChunk
  <1>9. CASE CloseFlush
    <2>1. UNCHANGED places /\ Running /\ Running'
      BY <1>9 DEF CloseFlush, CloseStep, Running, StartPc
    <2>2. CASE StoreChunk(buf)
      BY <1>1, <2>1, <2>2, StoreChunkLayout DEF TypeOK
    <2>3. CASE LoseChunk
      BY <1>1, <2>1, <2>3, LoseChunkEnds, EndStepLayout
    <2> QED
      BY <1>9, <2>2, <2>3 DEF CloseFlush, CloseStep
  <1>10. CASE CloseSectors
    <2> DEFINE desc == Section("sectors", dataSize + DescriptorSize, pos)
    <2>1. desc.kind # "chunk"
      BY NotChunks
    <2>2. /\ sectorsPos \in Nat
          /\ sectorsPos + DescriptorSize <= sectorsPos + DescriptorSize
      BY <1>1 DEF TypeOK
    <2>3. CloseStep("closeSectors", "closeVolume",
                    Rewrite(sectorsPos, DescriptorSize, desc),
                    FailRewrite(sectorsPos, DescriptorSize, desc))
      BY <1>10 DEF CloseSectors
    <2>4. "closeSectors" \in ClosePc /\ "closeVolume" \in ClosePc
      BY DEF ClosePc
    <2> HIDE DEF desc
    <2> QED
      BY <2>1, <2>2, <2>3, <2>4, CloseRewriteLayout
  <1>11. CASE CloseVolume
    <2>1. VolumeData(chunkCount).kind # "chunk"
      BY NotChunks
    <2>2. /\ volPos \in Nat
          /\ volPos + VolumeDataSize <= sectorsPos + DescriptorSize
      BY <1>1, <1>11 DEF CloseVolume, CloseStep, LayoutInv, StartPc, TypeOK
    <2>3. "closeVolume" \in ClosePc /\ "closeTable" \in ClosePc
      BY DEF ClosePc
    <2> QED
      BY <1>11, <2>1, <2>2, <2>3, CloseRewriteLayout DEF CloseVolume
  <1>12. CASE CloseTable \/ CloseTable2
    <2>1. TableDataSize(tables[tbl]) \in Nat /\ TableData(tables[tbl]) \in Object
      BY <1>1, TableSection
    <2>2. TableData(tables[tbl]).kind # "chunk"
      BY NotChunks
    <2>3. "closeTable" \in ClosePc /\ "closeTable2" \in ClosePc /\ AfterTable \in ClosePc
      BY DEF ClosePc, AfterTable
    <2> QED
      BY <1>12, <2>1, <2>2, <2>3, CloseSectionLayout DEF CloseTable, CloseTable2
  <1>13. CASE CloseDigest \/ CloseHash
    <2>1. \A kind \in {"digest", "hash"} :
            [kind |-> kind, sum |-> hashed] \in Object
      BY <1>1 DEF Object, TypeOK
    <2>2. "closeDigest" \in ClosePc /\ "closeHash" \in ClosePc /\ "closeData" \in ClosePc
      BY DEF ClosePc
    <2> QED
      BY <1>13, <2>1, <2>2, CloseSectionLayout DEF CloseDigest, CloseHash
  <1>14. CASE CloseData
    <2>1. [kind |-> "data", count |-> chunkCount] \in Object
      BY <1>1 DEF Object, TypeOK
    <2>2. "closeData" \in ClosePc /\ "closeDone" \in ClosePc
      BY DEF ClosePc
    <2> QED
      BY <1>14, <2>1, <2>2, CloseSectionLayout DEF CloseData
  <1>15. CASE CloseDone
    <2>1. UNCHANGED places /\ Running /\ Running'
      BY <1>15 DEF CloseDone, Running, StartPc
    <2>2. EndStep
      BY <1>1, <1>15, StoredAtEnd, TornTailEnds, NotChunks DEF CloseDone
    <2> QED
      BY <2>1, <2>2, EndStepLayout
  <1>16. CASE UNCHANGED vars
    BY <1>16 DEF vars, device, places, LayoutInv, PlacesFit
  <1> QED
    BY <1>3, <1>4, <1>5, <1>6, <1>7, <1>8, <1>9, <1>10, <1>11, <1>12, <1>13,
       <1>14, <1>15, <1>16, <1>19, <1>20 DEF Next

\* A chunk that reached the file is never overwritten, torn or removed, by any
\* later write, failure or repeated Close.
THEOREM ChunksKept == Spec => ChunksAreKept
  <1> DEFINE Kept == \A e \in disk : e.obj.kind = "chunk" => e \in disk'
  <1>1. Init => TypeInv /\ LayoutInv
    BY TypeInit, LayoutInit
  <1>2. TypeInv /\ LayoutInv /\ [Next]_vars => (TypeInv /\ LayoutInv)'
    BY TypeStep, LayoutStep
  <1>3. TypeInv /\ LayoutInv /\ [Next]_vars => [Kept]_vars
    BY TypeStep, LayoutStep DEF ChunkExtents
  <1> QED
    BY <1>1, <1>2, <1>3, PTL DEF Spec, ChunksAreKept

(***************************************************************************)
(* Sizes of the chunks.                                                    *)
(***************************************************************************)
LEMMA NoNewChunk ==
    ASSUME NEW d, NEW p, NEW n, NEW k, NEW type
    PROVE  /\ \A o : o.kind # "chunk" => ChunkExtents(Put(d, p, n, o)) \subseteq ChunkExtents(d)
           /\ ChunkExtents(Tear(d, p, k)) \subseteq ChunkExtents(d)
           /\ \A body : body.kind # "chunk" =>
                ChunkExtents(PutSection(d, p, type, n, body)) \subseteq ChunkExtents(d)
           /\ ChunkExtents(TearSection(d, p, type, n, k)) \subseteq ChunkExtents(d)
  <1>1. \A c, q, m, o : o.kind # "chunk" =>
          ChunkExtents(Put(c, q, m, o)) \subseteq ChunkExtents(c)
    BY DEF Put, ChunkExtents
  <1>2. \A c, q, m : ChunkExtents(Tear(c, q, m)) \subseteq ChunkExtents(c)
    BY <1>1, NotChunks DEF Tear
  <1>3. ChunkExtents(Put(d, p, DescriptorSize,
                     Section(type, n + DescriptorSize, p + n + DescriptorSize)))
          \subseteq ChunkExtents(d)
    BY <1>1, NotChunks
  <1>4. \A body : body.kind # "chunk" =>
          ChunkExtents(PutSection(d, p, type, n, body)) \subseteq ChunkExtents(d)
    BY <1>1, <1>3 DEF PutSection
  <1>5. ChunkExtents(TearSection(d, p, type, n, k)) \subseteq ChunkExtents(d)
    BY <1>2, <1>3 DEF TearSection
  <1> QED
    BY <1>1, <1>2, <1>4, <1>5

\* Every action but the two that store a chunk.
LEMMA NoChunkStep ==
    ASSUME TypeInv, Next, ~FlushChunk, ~CloseFlush
    PROVE  ChunkExtents(disk') \subseteq ChunkExtents(disk)
  <1> USE NoNewChunk, NotChunks
  <1> DEFINE same == ChunkExtents(disk') \subseteq ChunkExtents(disk)
  <1>1. ASSUME NEW type, NEW n, NEW body, body.kind # "chunk",
               AppendSection(type, n, body) \/ FailSection(type, n)
        PROVE  same
    BY <1>1 DEF AppendSection, FailSection
  <1>2. ASSUME NEW p, NEW n, NEW obj, obj.kind # "chunk",
               Rewrite(p, n, obj) \/ FailRewrite(p, n, obj)
        PROVE  same
    BY <1>2 DEF Rewrite, FailRewrite
  <1>3. CASE StartFileHeader
    BY <1>3 DEF StartFileHeader
  <1>4. CASE StartHeader
    <2> DEFINE second == pos + DescriptorSize + HeaderLen
               text == [kind |-> "header"]
               once == PutSection(disk, pos, "header", HeaderLen, text)
    <2>1. text.kind # "chunk"
      OBVIOUS
    <2>2. \/ disk' = PutSection(once, second, "header", HeaderLen, text)
          \/ FailSection("header", HeaderLen)
          \/ \E k \in TornLens :
               disk' = TearSection(once, second, "header", HeaderLen, k)
      BY <1>4 DEF StartHeader
    <2> HIDE DEF text, second
    <2>3. ChunkExtents(once) \subseteq ChunkExtents(disk)
      BY <2>1
    <2> HIDE DEF once
    <2> QED
      BY <1>1, <2>1, <2>2, <2>3
  <1>5. CASE StartVolume
    BY <1>1, <1>5 DEF StartVolume
  <1>6. CASE StartSectors
    BY <1>6 DEF StartSectors
  <1>13. CASE StartVolumeAgain \/ StartSectorsAgain
    BY <1>2, <1>13 DEF StartVolumeAgain, StartSectorsAgain
  <1>7. CASE Write \/ BeginClose
    BY <1>7 DEF Write, BeginClose, device
  <1>8. CASE CloseSectors \/ CloseVolume
    BY <1>2, <1>8 DEF CloseSectors, CloseVolume, CloseStep
  <1>9. CASE CloseTable \/ CloseTable2
    BY <1>1, <1>9 DEF CloseTable, CloseTable2, CloseStep
  <1>10. CASE CloseDigest \/ CloseHash
    <2>1. \A kind \in {"digest", "hash"} :
            [kind |-> kind, sum |-> hashed].kind # "chunk"
      OBVIOUS
    <2> QED
      BY <1>1, <1>10, <2>1 DEF CloseDigest, CloseHash, CloseStep
  <1>12. CASE CloseData
    <2>1. [kind |-> "data", count |-> chunkCount].kind # "chunk"
      OBVIOUS
    <2> QED
      BY <1>1, <1>12, <2>1 DEF CloseData, CloseStep
  <1>11. CASE CloseDone
    BY <1>11 DEF CloseDone
  <1> QED
    BY <1>3, <1>4, <1>5, <1>6, <1>7, <1>8, <1>9, <1>10, <1>11, <1>12,
       <1>13 DEF Next

\* A stored chunk has the length of the data given to writeData.
LEMMA StoredSize ==
    ASSUME FixedSizeChunks, NEW data, Len(data) = ChunkSize,
           StoreChunk(data) \/ LoseChunk
    PROVE  FixedSizeChunks'
  <1>1. CASE LoseChunk
    <2>1. ChunkExtents(disk') \subseteq ChunkExtents(disk)
      BY <1>1, NoNewChunk DEF LoseChunk
    <2> QED
      BY <2>1 DEF FixedSizeChunks, ChunkExtents
  <1>2. CASE StoreChunk(data)
    BY <1>2 DEF StoreChunk, Chunk, Put, FixedSizeChunks
  <1> QED
    BY <1>1, <1>2

LEMMA SizeStep ==
    ASSUME Careful
    PROVE  TypeInv /\ TypeInv' /\ SizeInv /\ [Next]_vars => SizeInv'
  <1> SUFFICES ASSUME TypeInv, TypeInv', SizeInv, [Next]_vars
               PROVE  SizeInv'
    OBVIOUS
  <1>1. /\ buf \in Seq(Nat) /\ Len(buf) \in Nat /\ Len(buf') \in Nat
        /\ ChunkSize \in Nat \ {0}
    BY LenProperties, ChunkSizeAssumption DEF TypeInv, TypeOK
  <1>2. CASE Next /\ ~FlushChunk /\ ~CloseFlush
    <2>1. ChunkExtents(disk') \subseteq ChunkExtents(disk)
      BY <1>2, NoChunkStep
    <2>2. FixedSizeChunks'
      BY <2>1 DEF SizeInv, FixedSizeChunks, ChunkExtents
    <2>3. CASE \/ StartFileHeader \/ StartHeader \/ StartVolume \/ StartVolumeAgain
               \/ StartSectors \/ StartSectorsAgain
      <3>1. /\ UNCHANGED buf /\ pc \in StartPc \cup {"failed"}
            /\ pc' \in StartPc \cup {"failed", "open"}
        BY <2>3 DEF StartFileHeader, StartHeader, StartVolume, StartVolumeAgain,
                    StartSectors, StartSectorsAgain, StartFails, StartUnchanged,
                    StartPc
      <3> QED
        BY <1>1, <2>2, <3>1 DEF SizeInv, StartPc, ClosePc
    <2>4. CASE Write
      <3>1. IF Len(buf') < ChunkSize THEN pc' = "open" ELSE pc' = "flush"
        BY <2>4, Zenon DEF Write
      <3> QED
        BY <1>1, <2>2, <3>1 DEF SizeInv, StartPc, ClosePc
    <2>5. CASE BeginClose
      <3>0. Careful
        OBVIOUS
      <3>1. Len(buf) <= ChunkSize
        BY <2>5, <3>0 DEF BeginClose, SizeInv
      <3>2. Len(buf \o Padding(buf, ChunkSize)) = ChunkSize
        BY <1>1, <3>1, PaddingType
      <3>3. \/ pc' = "closeFlush" /\ buf' = buf \o Padding(buf, ChunkSize)
            \/ pc' = "closeSectors" /\ buf' = buf
        BY <2>5 DEF BeginClose
      <3> QED
        BY <1>1, <2>2, <3>1, <3>2, <3>3 DEF SizeInv, StartPc
    <2>6. CASE \/ CloseSectors \/ CloseVolume \/ CloseTable \/ CloseTable2
               \/ CloseDigest \/ CloseHash \/ CloseData \/ CloseDone
      <3>1. UNCHANGED buf /\ pc \in ClosePc /\ pc' # "closeFlush"
        BY <2>6 DEF CloseSectors, CloseVolume, CloseTable, CloseTable2,
                    CloseDigest, CloseHash, CloseData, CloseDone, CloseStep,
                    AfterTable, ClosePc
      <3> QED
        BY <1>1, <2>2, <3>1 DEF SizeInv, StartPc
    <2> QED
      BY <1>2, <2>3, <2>4, <2>5, <2>6 DEF Next
  <1>3. CASE FlushChunk
    <2>1. Len(SubSeq(buf, 1, ChunkSize)) = ChunkSize
      <3>1. ChunkSize <= Len(buf)
        BY <1>3 DEF FlushChunk, TypeInv, FlushReady
      <3>2. \A i \in 1..ChunkSize : buf[i] \in Nat
        BY <1>1, <3>1, ElementOfSeq
      <3> QED
        BY <1>1, <3>2, SubSeqProperties
    <2>2. FixedSizeChunks'
      BY <1>3, <2>1, StoredSize DEF FlushChunk, SizeInv
    <2>3. \/ pc' = "flush"
          \/ pc' = "open" /\ (result' = "writeErr" \/ Len(buf') < ChunkSize)
      BY <1>3 DEF FlushChunk
    <2> QED
      BY <1>1, <2>2, <2>3 DEF SizeInv, StartPc, ClosePc
  <1>4. CASE CloseFlush
    <2>1. Len(buf) = ChunkSize /\ FixedSizeChunks
      BY <1>4 DEF CloseFlush, CloseStep, SizeInv
    <2>2. FixedSizeChunks'
      BY <1>4, <2>1, StoredSize DEF CloseFlush, CloseStep
    <2>3. pc' \in {"open", "closeSectors"} /\ buf' \in {buf, <<>>}
      BY <1>4 DEF CloseFlush, CloseStep
    <2>4. Len(<<>>) = 0
      OBVIOUS
    <2>5. Len(buf') <= ChunkSize
      BY <1>1, <2>1, <2>3, <2>4
    <2> QED
      BY <2>2, <2>3, <2>5 DEF SizeInv, StartPc
  <1>5. CASE UNCHANGED vars
    BY <1>5 DEF vars, device, ghosts, SizeInv, FixedSizeChunks
  <1> QED
    BY <1>2, <1>3, <1>4, <1>5

LEMMA SizeInit == Init => SizeInv
  BY ChunkSizeAssumption DEF Init, SizeInv, FixedSizeChunks, StartPc, ClosePc

\* When the client does not Close after a failed Write, every chunk stored has
\* exactly ChunkSize bytes.
THEOREM FixedSize == ASSUME Careful PROVE Spec => []FixedSizeChunks
  <1>1. Init => TypeInv /\ SizeInv
    BY TypeInit, SizeInit
  <1>2. TypeInv /\ SizeInv /\ [Next]_vars => (TypeInv /\ SizeInv)'
    BY Careful, TypeStep, SizeStep
  <1>3. TypeInv /\ SizeInv => FixedSizeChunks
    BY DEF SizeInv
  <1> QED
    BY <1>1, <1>2, <1>3, PTL DEF Spec

(***************************************************************************)
(* TablesFit is inductive together with TypeInv.  TypeInv's part           *)
(* BasesWithin is needed: the first entry of an empty table moves its base *)
(* to the end of the file, and the base must not come closer to the table  *)
(* before, whose last entry would then not have been too far away.         *)
(***************************************************************************)
\* The parts of TablesFit: of one table, of one and the next, of all of them.
FitsSection(t) ==
    /\ Len(t.entries) <= MaxTableLength
    /\ \A j \in DOMAIN t.entries : t.entries[j] <= MaxRel

WasNeeded(t, u) ==
    Len(t.entries) = MaxTableLength \/ u.base - t.base > MaxRel

Fit(ts) ==
    /\ \A i \in DOMAIN ts : FitsSection(ts[i])
    /\ \A i \in DOMAIN ts : i < Len(ts) => WasNeeded(ts[i], ts[i + 1])

\* Fit of the writer's tables is the invariant.
LEMMA FitIsTablesFit == TablesFit <=> Fit(tables)
  BY DEF TablesFit, Fit, FitsSection, WasNeeded

\* A table of one entry, which is 0.
LEMMA FirstEntryFits == \A p \in Nat : FitsSection([base |-> p, entries |-> <<0>>])
  BY TableAssumption DEF FitsSection

\* One more entry in a table that is neither empty, nor full, nor too far away.
LEMMA MoreEntriesFit ==
    ASSUME NEW t \in TableType, FitsSection(t), NEW p \in Nat, t.base <= p,
           ~(Len(t.entries) >= MaxTableLength), p - t.base <= MaxRel
    PROVE  FitsSection([t EXCEPT !.entries = Append(@, p - t.base)])
  <1> DEFINE e == Append(t.entries, p - t.base)
  <1>1. t.entries \in Seq(Nat) /\ t.base \in Nat /\ p - t.base \in Nat
    BY DEF TableType
  <1>2. /\ Len(t.entries) \in Nat /\ DOMAIN t.entries = 1..Len(t.entries)
        /\ Len(e) = Len(t.entries) + 1 /\ DOMAIN e = 1..Len(e)
        /\ \A j \in 1..Len(t.entries) : e[j] = t.entries[j]
        /\ e[Len(t.entries) + 1] = p - t.base
    BY <1>1, AppendProperties, LenProperties
  <1>3. Len(e) <= MaxTableLength
    BY <1>2, TableAssumption
  <1>4. \A j \in DOMAIN e : e[j] <= MaxRel
    BY <1>2 DEF FitsSection
  <1>5. [t EXCEPT !.entries = e].entries = e
    BY DEF TableType
  <1> QED
    BY <1>3, <1>4, <1>5 DEF FitsSection

\* The same, of a sequence whose length has a name.
LEMMA FitTo ==
    ASSUME NEW r, NEW n \in Nat, DOMAIN r = 1..n, Len(r) = n,
           \A i \in 1..n : FitsSection(r[i]),
           \A i \in 1..n : i < n => WasNeeded(r[i], r[i + 1])
    PROVE  Fit(r)
  BY DEF Fit

\* And back, with a name for the length.
LEMMA FitParts ==
    ASSUME NEW ts \in Seq(TableType), ts # <<>>, Fit(ts)
    PROVE  \E n \in Nat \ {0} :
             /\ Len(ts) = n /\ DOMAIN ts = 1..n
             /\ \A i \in 1..n : ts[i] \in TableType /\ FitsSection(ts[i])
             /\ \A i \in 1..n : i < n => WasNeeded(ts[i], ts[i + 1])
  <1>1. Len(ts) \in Nat \ {0} /\ DOMAIN ts = 1..Len(ts)
    BY LenProperties, EmptySeq
  <1>2. \A i \in 1..Len(ts) : ts[i] \in TableType
    BY ElementOfSeq
  <1> QED
    BY <1>1, <1>2 DEF Fit

\* A table behind the last one, when the last one cannot take the entry.
LEMMA AppendFits ==
    ASSUME NEW ts \in Seq(TableType), ts # <<>>, Fit(ts),
           NEW t \in TableType, FitsSection(t), WasNeeded(ts[Len(ts)], t)
    PROVE  Fit(Append(ts, t))
  <1>1. PICK n \in Nat \ {0} :
          /\ Len(ts) = n /\ DOMAIN ts = 1..n
          /\ \A i \in 1..n : ts[i] \in TableType /\ FitsSection(ts[i])
          /\ \A i \in 1..n : i < n => WasNeeded(ts[i], ts[i + 1])
    BY FitParts
  <1> DEFINE r == Append(ts, t)
  <1>2. /\ r \in Seq(TableType) /\ Len(r) = n + 1 /\ r[n + 1] = t
        /\ \A i \in 1..n : r[i] = ts[i]
    BY <1>1, AppendProperties
  <1>3. DOMAIN r = 1..(n + 1)
    BY <1>2, LenProperties
  <1>4. WasNeeded(ts[n], t)
    BY <1>1
  <1> HIDE DEF r
  <1>5. ASSUME NEW i \in 1..(n + 1)
        PROVE  FitsSection(r[i])
    BY <1>1, <1>2
  <1>6. ASSUME NEW i \in 1..(n + 1), i < n + 1
        PROVE  WasNeeded(r[i], r[i + 1])
    <2>1. CASE i = n
      BY <1>2, <1>4, <2>1
    <2>2. CASE i < n
      BY <1>1, <1>2, <2>2
    <2> QED
      BY <1>6, <2>1, <2>2
  <1>7. n + 1 \in Nat
    OBVIOUS
  <1> QED
    BY <1>2, <1>3, <1>5, <1>6, <1>7, FitTo DEF r

\* Another last table, whose base is not before the base of the one it replaces.
LEMMA ReplaceFits ==
    ASSUME NEW ts \in Seq(TableType), ts # <<>>, Fit(ts),
           NEW t \in TableType, FitsSection(t), ts[Len(ts)].base <= t.base
    PROVE  Fit([ts EXCEPT ![Len(ts)] = t])
  <1>1. PICK n \in Nat \ {0} :
          /\ Len(ts) = n /\ DOMAIN ts = 1..n
          /\ \A i \in 1..n : ts[i] \in TableType /\ FitsSection(ts[i])
          /\ \A i \in 1..n : i < n => WasNeeded(ts[i], ts[i + 1])
    BY FitParts
  <1> DEFINE r == [ts EXCEPT ![n] = t]
  <1>2. /\ r \in Seq(TableType) /\ Len(r) = n
        /\ \A i \in 1..n : r[i] = IF i = n THEN t ELSE ts[i]
    BY <1>1, ExceptSeq
  <1>3. DOMAIN r = 1..n
    BY <1>2, LenProperties
  <1>4. ts[n].base <= t.base
    BY <1>1
  <1>5. r = [ts EXCEPT ![Len(ts)] = t]
    BY <1>1
  <1> HIDE DEF r
  <1>6. \A i \in 1..n : FitsSection(r[i])
    BY <1>1, <1>2
  <1>7. ASSUME NEW i \in 1..n, i < n
        PROVE  WasNeeded(r[i], r[i + 1])
    <2>1. WasNeeded(ts[i], ts[i + 1]) /\ r[i] = ts[i] /\ i + 1 \in 1..n
      BY <1>1, <1>2, <1>7
    <2>2. CASE i + 1 = n
      <3>1. ts[i].base \in Nat /\ ts[n].base \in Nat /\ t.base \in Nat
        BY <1>1 DEF TableType
      <3>2. ts[n].base - ts[i].base > MaxRel => t.base - ts[i].base > MaxRel
        BY <1>4, <3>1, TableAssumption
      <3>3. WasNeeded(ts[i], ts[n]) /\ r[i + 1] = t
        BY <1>2, <2>1, <2>2
      <3>4. WasNeeded(ts[i], t)
        BY <3>2, <3>3 DEF WasNeeded
      <3> QED
        BY <2>1, <3>3, <3>4
    <2>3. CASE i + 1 # n
      BY <1>2, <2>1, <2>3
    <2> QED
      BY <2>2, <2>3
  <1> QED
    BY <1>2, <1>3, <1>5, <1>6, <1>7, FitTo

\* addTableEntry keeps the tables fit for their sections.
LEMMA AddTableEntryFits ==
    ASSUME NEW ts \in Seq(TableType), ts # <<>>, NEW p \in Nat,
           \A i \in DOMAIN ts : ts[i].base <= p, Fit(ts)
    PROVE  Fit(AddTableEntry(ts, p))
  <1> DEFINE n == Len(ts)
             last == ts[n]
             first == [base |-> p, entries |-> <<0>>]
             more == [last EXCEPT !.entries = Append(@, p - last.base)]
  <1>1. n \in Nat \ {0} /\ n \in DOMAIN ts /\ last \in TableType /\ last.base <= p
    BY LenProperties, EmptySeq, ElementOfSeq
  <1>2. last.base \in Nat /\ last.entries \in Seq(Nat) /\ Len(last.entries) \in Nat
    BY <1>1, LenProperties DEF TableType
  <1>3. FitsSection(last)
    BY <1>1 DEF Fit
  <1>4. first \in TableType /\ first.base = p /\ FitsSection(first)
    BY FirstEntryFits DEF TableType
  <1>5. CASE Len(last.entries) >= MaxTableLength
    <2>1. WasNeeded(last, first)
      BY <1>2, <1>3, <1>5, TableAssumption DEF FitsSection, WasNeeded
    <2> QED
      BY <1>4, <1>5, <2>1, AppendFits DEF AddTableEntry
  <1>6. CASE Len(last.entries) > 0 /\ p - last.base > MaxRel
    <2>1. WasNeeded(last, first)
      BY <1>4, <1>6 DEF WasNeeded
    <2> QED
      BY <1>4, <1>6, <2>1, AppendFits DEF AddTableEntry
  <1>7. CASE /\ ~(Len(last.entries) >= MaxTableLength)
             /\ Len(last.entries) = 0
    <2>1. AddTableEntry(ts, p) = [ts EXCEPT ![n] = first]
      BY <1>7 DEF AddTableEntry
    <2> QED
      BY <1>1, <1>4, <2>1, ReplaceFits
  <1>8. CASE /\ ~(Len(last.entries) >= MaxTableLength)
             /\ Len(last.entries) > 0 /\ ~(p - last.base > MaxRel)
    <2>1. AddTableEntry(ts, p) = [ts EXCEPT ![n] = more]
      BY <1>8 DEF AddTableEntry
    <2>2. p - last.base <= MaxRel /\ p - last.base \in Nat
      BY <1>1, <1>2, <1>8, TableAssumption
    <2>3. FitsSection(more)
      BY <1>1, <1>3, <1>8, <2>2, MoreEntriesFit
    <2>4. more \in TableType /\ more.base = last.base
      BY <1>1, <1>2, <2>2, AppendProperties DEF TableType
    <2>5. last.base <= more.base
      BY <1>2, <2>4
    <2> QED
      BY <2>1, <2>3, <2>4, <2>5, ReplaceFits
  <1> QED
    BY <1>2, <1>5, <1>6, <1>7, <1>8

TablesInv == TypeInv /\ TablesFit

\* The one empty table a writer starts with.
LEMMA TablesInit == Init => TablesFit
  BY TableAssumption DEF Init, TablesFit, NewTable

\* A chunk stored at the end of the file.
LEMMA StoreKeepsFit ==
    ASSUME TablesInv, NEW data, StoreChunk(data)
    PROVE  TablesFit'
  <1>1. /\ tables \in Seq(TableType) /\ tables # <<>> /\ pos \in Nat
        /\ \A i \in DOMAIN tables : tables[i].base <= pos
    BY DEF TablesInv, TypeInv, TypeOK, BasesWithin
  <1>2. tables' = AddTableEntry(tables, pos)
    BY DEF StoreChunk
  <1>3. Fit(tables')
    BY <1>1, <1>2, FitIsTablesFit, AddTableEntryFits DEF TablesInv
  <1> QED
    BY <1>3 DEF TablesFit, Fit, FitsSection, WasNeeded

\* Only the two steps that store a chunk change the tables.
LEMMA TablesStep == TablesInv /\ [Next]_vars => TablesFit'
  <1> SUFFICES ASSUME TablesInv, [Next]_vars
               PROVE  TablesFit'
    OBVIOUS
  <1>1. CASE UNCHANGED tables
    BY <1>1 DEF TablesInv, TablesFit
  <1>2. CASE \/ StartFileHeader \/ StartHeader \/ StartVolume \/ StartVolumeAgain
             \/ StartSectors \/ StartSectorsAgain
    BY <1>1, <1>2 DEF StartFileHeader, StartHeader, StartVolume, StartVolumeAgain,
           StartSectors, StartSectorsAgain, StartFails, StartUnchanged, chunks
  <1>3. CASE Write \/ BeginClose
    BY <1>1, <1>3 DEF Write, BeginClose, chunks
  <1>4. CASE FlushChunk
    BY <1>1, <1>4, StoreKeepsFit DEF FlushChunk, LoseChunk
  <1>5. CASE CloseFlush
    BY <1>1, <1>5, StoreKeepsFit DEF CloseFlush, CloseStep, LoseChunk
  <1>6. CASE CloseSectors \/ CloseVolume \/ CloseTable \/ CloseTable2
    BY <1>1, <1>6 DEF CloseSectors, CloseVolume, CloseTable, CloseTable2, chunks
  <1>7. CASE CloseDigest \/ CloseHash \/ CloseData \/ CloseDone
    BY <1>1, <1>7 DEF CloseDigest, CloseHash, CloseData, CloseDone, chunks
  <1>8. CASE UNCHANGED vars
    BY <1>1, <1>8 DEF vars, chunks
  <1> QED
    BY <1>2, <1>3, <1>4, <1>5, <1>6, <1>7, <1>8 DEF Next

\* Whatever is written and whatever fails, each table fits its section (its
\* number of entries and their 31 bits), and addTableEntry opens a table only
\* when the one before is full or its base too far away.
THEOREM TablesAlwaysFit == Spec => []TablesFit
  <1>1. Init => TablesInv
    BY TypeInit, TablesInit DEF TablesInv
  <1>2. TablesInv /\ [Next]_vars => TablesInv'
    BY TypeStep, TablesStep DEF TablesInv
  <1>3. TablesInv => TablesFit
    BY DEF TablesInv
  <1> QED
    BY <1>1, <1>2, <1>3, PTL DEF Spec

(***************************************************************************)
(* NothingLost is inductive together with TypeInv.  TypeInv's part         *)
(* FlushReady is needed: the two pieces Write cuts from buf make up buf    *)
(* again only if there is a chunk to cut.                                  *)
(***************************************************************************)
DataInv == TypeInv /\ NothingLost

\* Bytes added to the end of buf and of the stream.
LEMMA AcceptBytes ==
    ASSUME DataInv, NEW p \in Seq(Nat), UNCHANGED hashed,
           buf' = buf \o p, stream' = stream \o p
    PROVE  NothingLost'
  <1>1. hashed \in Seq(Nat) /\ buf \in Seq(Nat) /\ hashed \o buf = stream
    BY DEF DataInv, TypeInv, TypeOK, NothingLost
  <1>2. hashed \o (buf \o p) = (hashed \o buf) \o p
    BY <1>1, Associative, Zenon
  <1> QED
    BY <1>1, <1>2 DEF NothingLost

\* A chunk moved from the front of buf to the hashers.
LEMMA MoveChunk ==
    ASSUME DataInv, pc = "flush", UNCHANGED stream,
           hashed' = hashed \o SubSeq(buf, 1, ChunkSize),
           buf' = Unflushed(buf)
    PROVE  NothingLost'
  <1>1. hashed \in Seq(Nat) /\ buf \in Seq(Nat) /\ hashed \o buf = stream
    BY DEF DataInv, TypeInv, TypeOK, NothingLost
  <1>2. Len(buf) \in Nat /\ ChunkSize \in Nat \ {0} /\ ChunkSize <= Len(buf)
    BY <1>1, LenProperties, ChunkSizeAssumption DEF DataInv, TypeInv, FlushReady
  <1> DEFINE front == SubSeq(buf, 1, ChunkSize)
             rest == SubSeq(buf, ChunkSize + 1, Len(buf))
  <1>3. front \in Seq(Nat) /\ rest \in Seq(Nat)
    <2>1. \A i \in 1..Len(buf) : buf[i] \in Nat
      BY <1>1, ElementOfSeq
    <2> QED
      BY <1>2, <2>1, SubSeqProperties
  <1>4. front \o rest = buf
    <2>1. ChunkSize \in 0..Len(buf)
      BY <1>2
    <2> QED
      BY <1>1, <2>1, CutInTwo
  <1>5. (hashed \o front) \o rest = hashed \o (front \o rest)
    BY <1>1, <1>3, Associative, Zenon
  <1> QED
    BY <1>1, <1>4, <1>5 DEF NothingLost, Unflushed

LEMMA DataInit == Init => NothingLost
  BY EmptySeq, ConcatEmptySeq DEF Init, NothingLost

LEMMA DataStep == DataInv /\ [Next]_vars => NothingLost'
  <1> SUFFICES ASSUME DataInv, [Next]_vars
               PROVE  NothingLost'
    OBVIOUS
  <1> USE DEF chunks
  <1>1. hashed \in Seq(Nat) /\ buf \in Seq(Nat) /\ stream \in Seq(Nat)
        /\ hashed \o buf = stream
    BY DEF DataInv, TypeInv, TypeOK, NothingLost
  <1>2. CASE UNCHANGED <<hashed, buf, stream>>
    BY <1>2 DEF DataInv, NothingLost
  <1>3. CASE \/ StartFileHeader \/ StartHeader \/ StartVolume \/ StartVolumeAgain
             \/ StartSectors \/ StartSectorsAgain
    BY <1>2, <1>3 DEF StartFileHeader, StartHeader, StartVolume, StartVolumeAgain,
           StartSectors, StartSectorsAgain, StartFails, StartUnchanged
  <1>4. CASE Write
    <2>1. PICK n \in 0..MaxWrite :
            /\ buf' = buf \o [i \in 1..n |-> Len(stream) + i]
            /\ stream' = stream \o [i \in 1..n |-> Len(stream) + i]
      BY <1>4 DEF Write
    <2>2. [i \in 1..n |-> Len(stream) + i] \in Seq(Nat)
      <3>1. n \in Nat /\ Len(stream) \in Nat
        BY <1>1, BoundAssumption, LenProperties
      <3> QED
        BY <3>1
    <2>3. UNCHANGED hashed
      BY <1>4 DEF Write
    <2> QED
      BY <2>1, <2>2, <2>3, AcceptBytes
  <1>5. CASE FlushChunk
    <2>1. CASE StoreChunk(SubSeq(buf, 1, ChunkSize)) /\ buf' = Unflushed(buf)
      <3>1. hashed' = hashed \o SubSeq(buf, 1, ChunkSize)
        BY <2>1 DEF StoreChunk
      <3>2. pc = "flush" /\ UNCHANGED stream
        BY <1>5 DEF FlushChunk
      <3> QED
        BY <2>1, <3>1, <3>2, MoveChunk
    <2>2. CASE LoseChunk /\ UNCHANGED buf
      BY <1>2, <1>5, <2>2 DEF FlushChunk, LoseChunk
    <2> QED
      BY <1>5, <2>1, <2>2 DEF FlushChunk
  <1>6. CASE BeginClose
    <2>1. UNCHANGED hashed
      BY <1>6 DEF BeginClose
    <2>2. Padding(buf, ChunkSize) \in Seq(Nat)
      BY <1>1, ChunkSizeAssumption, PaddingType
    <2>3. \/ UNCHANGED <<buf, stream>>
          \/ /\ buf' = buf \o Padding(buf, ChunkSize)
             /\ stream' = stream \o Padding(buf, ChunkSize)
      BY <1>6 DEF BeginClose
    <2> QED
      BY <1>2, <2>1, <2>2, <2>3, AcceptBytes
  <1>7. CASE CloseFlush
    <2>1. UNCHANGED stream
      BY <1>7 DEF CloseFlush, CloseStep
    <2>2. CASE StoreChunk(buf) /\ buf' = <<>>
      <3>1. hashed' = hashed \o buf
        BY <2>2 DEF StoreChunk
      <3>2. hashed \o buf \in Seq(Nat)
        BY <1>1, ConcatProperties
      <3>3. (hashed \o buf) \o <<>> = hashed \o buf
        BY <3>2, ConcatEmptySeq
      <3> QED
        BY <1>1, <2>1, <2>2, <3>1, <3>3 DEF NothingLost
    <2>3. CASE LoseChunk /\ UNCHANGED buf
      BY <1>2, <2>1, <2>3 DEF LoseChunk
    <2> QED
      BY <1>7, <2>2, <2>3 DEF CloseFlush, CloseStep
  <1>8. CASE CloseSectors \/ CloseVolume
    BY <1>2, <1>8 DEF CloseSectors, CloseVolume, CloseStep
  <1>9. CASE CloseTable \/ CloseTable2 \/ CloseDigest \/ CloseHash \/ CloseData
    BY <1>2, <1>9 DEF CloseTable, CloseTable2, CloseDigest, CloseHash,
                      CloseData, CloseStep
  <1>10. CASE CloseDone
    BY <1>2, <1>10 DEF CloseDone
  <1>11. CASE UNCHANGED vars
    BY <1>2, <1>11 DEF vars, ghosts
  <1> QED
    BY <1>3, <1>4, <1>5, <1>6, <1>7, <1>8, <1>9, <1>10, <1>11 DEF Next

\* The bytes hashed and indexed, followed by the bytes buffered, are always
\* the bytes the client's writes were told are accepted, in order, whatever
\* failures and retries of Write and Close came before.
THEOREM DataKept == Spec => []NothingLost
  <1>1. Init => DataInv
    BY TypeInit, DataInit DEF DataInv
  <1>2. DataInv /\ [Next]_vars => DataInv'
    BY TypeStep, DataStep DEF DataInv
  <1>3. DataInv => NothingLost
    BY DEF DataInv
  <1> QED
    BY <1>1, <1>2, <1>3, PTL DEF Spec

(***************************************************************************)
(* IndexedDataIsHashed.  It is inductive together with LayoutInv, by which *)
(* a chunk is never overwritten, with Solid(disk), by which an offset      *)
(* leads to one object, and with TypeInv, whose BasesWithin makes the      *)
(* entries of the tables natural numbers.                                  *)
(***************************************************************************)
LEMMA PutSectionSolid ==
    ASSUME NEW d, Solid(d), NEW p \in Nat,
           NEW type, NEW n \in Nat, NEW body
    PROVE  Solid(PutSection(d, p, type, n, body))
  <1> DEFINE desc == Section(type, n + DescriptorSize, p + n + DescriptorSize)
             mid == Put(d, p, DescriptorSize, desc)
  <1>1. DescriptorSize \in Nat /\ p + DescriptorSize \in Nat
        /\ n + DescriptorSize \in Nat /\ p + n + DescriptorSize \in Nat
    BY Sizes
  <1>2. Solid(mid)
    BY <1>1, PutSolid
  <1>3. PutSection(d, p, type, n, body) = Put(mid, p + DescriptorSize, n, body)
    BY DEF PutSection
  <1> HIDE DEF mid
  <1> QED
    BY <1>1, <1>2, <1>3, PutSolid

LEMMA TearSectionSolid ==
    ASSUME NEW d, Solid(d), NEW p \in Nat,
           NEW type, NEW n \in Nat, NEW k \in Nat
    PROVE  Solid(TearSection(d, p, type, n, k))
  <1> DEFINE desc == Section(type, n + DescriptorSize, p + n + DescriptorSize)
             mid == Put(d, p, DescriptorSize, desc)
  <1>1. DescriptorSize \in Nat /\ p + DescriptorSize \in Nat
        /\ n + DescriptorSize \in Nat /\ p + n + DescriptorSize \in Nat
    BY Sizes
  <1>2. Solid(mid)
    BY <1>1, PutSolid
  <1>3. TearSection(d, p, type, n, k)
          \in {Tear(d, p, k), Tear(mid, p + DescriptorSize, k - DescriptorSize)}
    BY DEF TearSection
  <1>4. k < DescriptorSize => TearSection(d, p, type, n, k) = Tear(d, p, k)
    BY DEF TearSection
  <1>5. ~(k < DescriptorSize) => k - DescriptorSize \in Nat
    BY <1>1
  <1> HIDE DEF mid
  <1> QED
    BY <1>1, <1>2, <1>3, <1>4, <1>5, TearSolid

\* Every write of dest leaves the file solid.
LEMMA SolidStep ==
    ASSUME TypeInv, Solid(disk), [Next]_vars
    PROVE  Solid(disk')
  <1>1. pos \in Nat /\ volPos \in Nat /\ sectorsPos \in Nat
    BY DEF TypeInv, TypeOK
  <1> USE <1>1, Sizes, PutSolid, TearSolid, LengthAssumption
  <1>2. ASSUME NEW type, NEW n \in Nat, NEW body,
               AppendSection(type, n, body) \/ FailSection(type, n)
        PROVE  Solid(disk')
    BY <1>2, PutSectionSolid, TearSectionSolid DEF AppendSection, FailSection
  <1>3. ASSUME NEW p \in Nat, NEW n \in Nat, NEW obj,
               Rewrite(p, n, obj) \/ FailRewrite(p, n, obj)
        PROVE  Solid(disk')
    BY <1>3 DEF Rewrite, FailRewrite
  <1>4. CASE StartFileHeader
    BY <1>4 DEF StartFileHeader
  <1>5. CASE StartHeader
    <2> DEFINE second == pos + DescriptorSize + HeaderLen
               text == [kind |-> "header"]
               once == PutSection(disk, pos, "header", HeaderLen, text)
    <2>1. \/ disk' = PutSection(once, second, "header", HeaderLen, text)
          \/ FailSection("header", HeaderLen)
          \/ \E k \in TornLens :
               disk' = TearSection(once, second, "header", HeaderLen, k)
      BY <1>5 DEF StartHeader
    <2>2. second \in Nat /\ HeaderLen \in Nat
      OBVIOUS
    <2> HIDE DEF text, second
    <2>3. Solid(once)
      BY <2>2, PutSectionSolid
    <2> HIDE DEF once
    <2>4. Solid(PutSection(once, second, "header", HeaderLen, text))
      BY <2>2, <2>3, PutSectionSolid
    <2>5. \A k \in TornLens :
            Solid(TearSection(once, second, "header", HeaderLen, k))
      BY <2>2, <2>3, TearSectionSolid
    <2>6. CASE FailSection("header", HeaderLen)
      BY <1>2, <2>2, <2>6
    <2> QED
      BY <2>1, <2>4, <2>5, <2>6
  <1>6. CASE StartVolume
    <2>1. \/ AppendSection("volume", VolumeDataSize, VolumeData(chunkCount))
          \/ \E k \in TornLens :
               disk' = TearSection(disk, pos, "volume", VolumeDataSize, k)
      BY <1>6 DEF StartVolume
    <2>2. \A k \in TornLens :
            Solid(TearSection(disk, pos, "volume", VolumeDataSize, k))
      BY TearSectionSolid
    <2> QED
      BY <1>2, <2>1, <2>2
  <1>7. CASE StartSectors
    BY <1>7 DEF StartSectors
  <1>17. CASE StartVolumeAgain \/ StartSectorsAgain
    <2>1. volPos \in Nat /\ sectorsPos \in Nat
      BY DEF TypeInv, TypeOK
    <2> QED
      BY <1>3, <1>17, <2>1 DEF StartVolumeAgain, StartSectorsAgain
  <1>8. CASE Write \/ BeginClose
    BY <1>8 DEF Write, BeginClose, device
  <1>9. ASSUME NEW data, StoreChunk(data) \/ LoseChunk
        PROVE  Solid(disk')
    BY <1>9 DEF StoreChunk, LoseChunk
  <1>10. CASE FlushChunk
    BY <1>9, <1>10 DEF FlushChunk
  <1>11. CASE CloseFlush
    BY <1>9, <1>11 DEF CloseFlush, CloseStep
  <1>12. CASE CloseSectors \/ CloseVolume
    BY <1>3, <1>12 DEF CloseSectors, CloseVolume, CloseStep
  <1>13. CASE CloseTable \/ CloseTable2
    <2>1. TableDataSize(tables[tbl]) \in Nat
      BY TableSection DEF TypeInv
    <2> QED
      BY <1>2, <1>13, <2>1 DEF CloseTable, CloseTable2, CloseStep
  <1>14. CASE CloseDigest \/ CloseHash \/ CloseData
    BY <1>2, <1>14 DEF CloseDigest, CloseHash, CloseData, CloseStep
  <1>15. CASE CloseDone
    BY <1>15 DEF CloseDone
  <1>16. CASE UNCHANGED vars
    BY <1>16 DEF vars, device
  <1> QED
    BY <1>4, <1>5, <1>6, <1>7, <1>8, <1>10, <1>11, <1>12, <1>13, <1>14,
       <1>15, <1>16, <1>17 DEF Next

(***************************************************************************)
(* The index: the offsets the tables give, and the data found there.       *)
(***************************************************************************)
OffsetLists(ts) == [i \in DOMAIN ts |-> EntryOffsets(ts[i])]

Offsets == FlattenSeq(OffsetLists(tables))

LEMMA IndexedIs == IndexedDataIsHashed <=> Indexed(disk, Offsets, chunkCount, hashed)
  BY DEF IndexedDataIsHashed, Indexed, Offsets, OffsetLists, DataAt

LEMMA EntryOffsetsType ==
    ASSUME NEW t \in TableType
    PROVE  /\ EntryOffsets(t) \in Seq(Nat)
           /\ Len(EntryOffsets(t)) = Len(t.entries)
           /\ \A i \in 1..Len(t.entries) : EntryOffsets(t)[i] = t.base + t.entries[i]
  <1>1. t.base \in Nat /\ t.entries \in Seq(Nat)
    BY DEF TableType
  <1>2. PICK n \in Nat : Len(t.entries) = n /\ DOMAIN t.entries = 1..n
    BY <1>1, LenProperties
  <1>3. \A i \in 1..n : t.entries[i] \in Nat
    BY <1>1, <1>2, ElementOfSeq
  <1> QED
    BY <1>1, <1>2, <1>3 DEF EntryOffsets

LEMMA OffsetListsType ==
    ASSUME NEW ts \in Seq(TableType)
    PROVE  /\ OffsetLists(ts) \in Seq(Seq(Nat))
           /\ Len(OffsetLists(ts)) = Len(ts)
           /\ \A i \in 1..Len(ts) : OffsetLists(ts)[i] = EntryOffsets(ts[i])
  <1>1. PICK n \in Nat : Len(ts) = n /\ DOMAIN ts = 1..n
    BY LenProperties
  <1>2. \A i \in 1..n : EntryOffsets(ts[i]) \in Seq(Nat)
    BY <1>1, ElementOfSeq, EntryOffsetsType
  <1> QED
    BY <1>1, <1>2 DEF OffsetLists

\* A table more, or another last table.
LEMMA OffsetListsAppend ==
    ASSUME NEW ts \in Seq(TableType), NEW t \in TableType
    PROVE  OffsetLists(Append(ts, t)) = Append(OffsetLists(ts), EntryOffsets(t))
  <1> DEFINE r == Append(ts, t)
             l == OffsetLists(r)
             a == Append(OffsetLists(ts), EntryOffsets(t))
  <1>1. PICK n \in Nat : Len(ts) = n
    BY LenProperties
  <1>2. /\ r \in Seq(TableType) /\ Len(r) = n + 1 /\ r[n + 1] = t
        /\ \A i \in 1..n : r[i] = ts[i]
    BY <1>1, AppendProperties
  <1> HIDE DEF r
  <1>3. /\ OffsetLists(ts) \in Seq(Seq(Nat)) /\ Len(OffsetLists(ts)) = n
        /\ \A i \in 1..n : OffsetLists(ts)[i] = EntryOffsets(ts[i])
    BY <1>1, OffsetListsType
  <1>4. /\ l \in Seq(Seq(Nat)) /\ Len(l) = n + 1
        /\ \A i \in 1..(n + 1) : l[i] = EntryOffsets(r[i])
    BY <1>2, OffsetListsType
  <1>5. /\ a \in Seq(Seq(Nat)) /\ Len(a) = n + 1 /\ a[n + 1] = EntryOffsets(t)
        /\ \A i \in 1..n : a[i] = OffsetLists(ts)[i]
    BY <1>3, EntryOffsetsType, AppendProperties
  <1> HIDE DEF l, a
  <1>6. \A i \in 1..(n + 1) : l[i] = a[i]
    BY <1>2, <1>3, <1>4, <1>5
  <1>7. l = a
    BY <1>4, <1>5, <1>6, SeqEqual
  <1> QED
    BY <1>7 DEF l, a, r

LEMMA OffsetListsLast ==
    ASSUME NEW ts \in Seq(TableType), ts # <<>>, NEW t \in TableType
    PROVE  OffsetLists(WithLast(ts, t)) = WithLast(OffsetLists(ts), EntryOffsets(t))
  <1>1. PICK f \in Seq(TableType), u \in TableType : ts = Append(f, u)
    BY SequenceEmptyOrAppend
  <1>2. WithLast(ts, t) = Append(f, t)
    BY <1>1, LastOfAppend
  <1>3. /\ OffsetLists(ts) = Append(OffsetLists(f), EntryOffsets(u))
        /\ OffsetLists(Append(f, t)) = Append(OffsetLists(f), EntryOffsets(t))
    BY <1>1, OffsetListsAppend
  <1>4. /\ OffsetLists(f) \in Seq(Seq(Nat))
        /\ EntryOffsets(u) \in Seq(Nat) /\ EntryOffsets(t) \in Seq(Nat)
    BY OffsetListsType, EntryOffsetsType
  <1>5. WithLast(Append(OffsetLists(f), EntryOffsets(u)), EntryOffsets(t))
          = Append(OffsetLists(f), EntryOffsets(t))
    BY <1>4, LastOfAppend
  <1> QED
    BY <1>2, <1>3, <1>5

\* addTableEntry adds the offset at the end of the index, in each of its cases.
LEMMA AddTableEntryIndexes ==
    ASSUME NEW ts \in Seq(TableType), ts # <<>>, NEW p \in Nat,
           \A i \in DOMAIN ts : ts[i].base <= p
    PROVE  FlattenSeq(OffsetLists(AddTableEntry(ts, p)))
             = Append(FlattenSeq(OffsetLists(ts)), p)
  <1> DEFINE last == ts[Len(ts)]
             first == [base |-> p, entries |-> <<0>>]
             more == [last EXCEPT !.entries = Append(@, p - last.base)]
             os == OffsetLists(ts)
  <1>1. Len(ts) \in DOMAIN ts /\ last \in TableType /\ last.base <= p
    BY LenProperties, EmptySeq, ElementOfSeq
  <1>2. /\ last.base \in Nat /\ last.entries \in Seq(Nat)
        /\ Len(last.entries) \in Nat /\ p - last.base \in Nat
    BY <1>1, LenProperties DEF TableType
  <1>3. /\ os \in Seq(Seq(Nat)) /\ os # <<>>
        /\ os[Len(os)] = EntryOffsets(last)
    <2>1. PICK n \in Nat \ {0} : Len(ts) = n
      BY EmptySeq
    <2>2. os \in Seq(Seq(Nat)) /\ Len(os) = n /\ os[n] = EntryOffsets(last)
      BY <2>1, OffsetListsType
    <2> QED
      BY <2>2, EmptySeq
  <1>4. first \in TableType /\ EntryOffsets(first) = <<p>>
    BY DEF TableType, EntryOffsets
  <1>5. /\ more \in TableType
        /\ EntryOffsets(more) = Append(EntryOffsets(last), p)
    <2> DEFINE e == Append(last.entries, p - last.base)
               l == EntryOffsets(more)
               a == Append(EntryOffsets(last), p)
    <2>1. PICK n \in Nat : Len(last.entries) = n
      BY <1>2
    <2>2. /\ e \in Seq(Nat) /\ Len(e) = n + 1 /\ e[n + 1] = p - last.base
          /\ \A i \in 1..n : e[i] = last.entries[i]
      BY <1>2, <2>1, AppendProperties
    <2>3. more \in TableType /\ more.base = last.base /\ more.entries = e
      BY <1>1, <1>2, <2>2 DEF TableType
    <2> HIDE DEF more, e
    <2>4. /\ l \in Seq(Nat) /\ Len(l) = n + 1
          /\ \A i \in 1..(n + 1) : l[i] = last.base + e[i]
      BY <2>2, <2>3, EntryOffsetsType
    <2>5. /\ EntryOffsets(last) \in Seq(Nat) /\ Len(EntryOffsets(last)) = n
          /\ \A i \in 1..n : EntryOffsets(last)[i] = last.base + last.entries[i]
      BY <1>1, <2>1, EntryOffsetsType
    <2>6. /\ a \in Seq(Nat) /\ Len(a) = n + 1 /\ a[n + 1] = p
          /\ \A i \in 1..n : a[i] = EntryOffsets(last)[i]
      BY <2>5, AppendProperties
    <2>7. last.base + (p - last.base) = p
      BY <1>2
    <2> HIDE DEF l, a, last
    <2>8. \A i \in 1..(n + 1) : l[i] = a[i]
      BY <2>2, <2>4, <2>5, <2>6, <2>7
    <2>9. l = a
      BY <2>4, <2>6, <2>8, SeqEqual
    <2> QED
      BY <2>3, <2>9 DEF l, a
  <1>6. CASE AddTableEntry(ts, p) = Append(ts, first)
    <2>1. OffsetLists(Append(ts, first)) = Append(os, <<p>>)
      BY <1>4, OffsetListsAppend
    <2>2. <<p>> \in Seq(Nat) /\ FlattenSeq(os) \in Seq(Nat)
      BY <1>3, FlattenType
    <2>3. FlattenSeq(Append(os, <<p>>)) = FlattenSeq(os) \o <<p>>
      BY <1>3, <2>2, FlattenAppend
    <2>4. Append(FlattenSeq(os), p) = FlattenSeq(os) \o <<p>>
      BY <2>2, AppendIsConcat
    <2> QED
      BY <1>6, <2>1, <2>3, <2>4, Zenon
  <1>7. ASSUME NEW t \in TableType, AddTableEntry(ts, p) = WithLast(ts, t),
               EntryOffsets(t) = Append(os[Len(os)], p)
        PROVE  FlattenSeq(OffsetLists(AddTableEntry(ts, p))) = Append(FlattenSeq(os), p)
    <2>1. OffsetLists(WithLast(ts, t)) = WithLast(os, Append(os[Len(os)], p))
      BY <1>7, OffsetListsLast
    <2>2. FlattenSeq(WithLast(os, Append(os[Len(os)], p))) = Append(FlattenSeq(os), p)
      BY <1>3, FlattenLast
    <2> QED
      BY <1>7, <2>1, <2>2, Zenon
  <1>8. CASE AddTableEntry(ts, p) = WithLast(ts, first) /\ Len(last.entries) = 0
    <2>1. EntryOffsets(last) = <<>>
      BY <1>1, <1>8, EntryOffsetsType, EmptySeq
    <2>2. EntryOffsets(first) = Append(os[Len(os)], p)
      BY <1>3, <1>4, <2>1
    <2> QED
      BY <1>4, <1>7, <1>8, <2>2
  <1>9. CASE AddTableEntry(ts, p) = WithLast(ts, more)
    <2>1. EntryOffsets(more) = Append(os[Len(os)], p)
      BY <1>3, <1>5
    <2> QED
      BY <1>5, <1>7, <1>9, <2>1
  <1>10. \/ AddTableEntry(ts, p) = Append(ts, first)
         \/ AddTableEntry(ts, p) = WithLast(ts, first) /\ Len(last.entries) = 0
         \/ AddTableEntry(ts, p) = WithLast(ts, more)
    BY <1>2 DEF AddTableEntry, WithLast
  <1> QED
    BY <1>6, <1>8, <1>9, <1>10

LEMMA ChunkBytes == TypeInv' => BytesInChunks(disk')
  <1> SUFFICES ASSUME TypeInv', NEW e \in disk', e.obj.kind = "chunk"
               PROVE  e.obj.data \in Seq(Nat)
    BY DEF BytesInChunks, ChunkExtents
  <1>1. e.obj \in Object
    BY DEF TypeInv, TypeOK
  <1> QED
    BY <1>1 DEF Object

IndexInv == TypeInv /\ LayoutInv /\ Solid(disk) /\ IndexedDataIsHashed

LEMMA IndexInit == Init => Solid(disk) /\ IndexedDataIsHashed
  <1> SUFFICES ASSUME Init
               PROVE  Solid(disk) /\ IndexedDataIsHashed
    OBVIOUS
  <1>1. /\ disk = {} /\ tables = <<NewTable>>
        /\ chunkCount = 0 /\ hashed = <<>>
    BY DEF Init
  <1>2. OffsetLists(tables) = Append(<<>>, <<>>)
    BY <1>1 DEF OffsetLists, EntryOffsets, NewTable
  <1>3. <<>> \in Seq(Nat) /\ <<>> \in Seq(Seq(Nat))
    BY EmptySeq
  <1>4. FlattenSeq(Append(<<>>, <<>>)) = <<>> \o <<>>
    <2>1. FlattenSeq(Append(<<>>, <<>>)) = FlattenSeq(<<>>) \o <<>>
      BY <1>3, FlattenAppend
    <2> QED
      BY <2>1, FlattenEmpty
  <1>5. Offsets = <<>>
    BY <1>2, <1>3, <1>4, ConcatEmptySeq DEF Offsets
  <1>6. DataAt(disk, <<>>) = <<>>
    BY DEF DataAt
  <1>7. Indexed(disk, <<>>, 0, <<>>)
    BY <1>6, FlattenEmpty DEF Indexed
  <1>8. Solid(disk)
    BY <1>1 DEF Solid
  <1> QED
    BY <1>1, <1>5, <1>7, <1>8, IndexedIs

\* A chunk that is stored.
LEMMA StoreChunkIndexes ==
    ASSUME IndexInv, TypeInv', Solid(disk'), ChunkExtents(disk) \subseteq ChunkExtents(disk'),
           NEW data \in Seq(Nat), StoreChunk(data)
    PROVE  IndexedDataIsHashed'
  <1>1. /\ pos \in Nat /\ chunkCount \in Nat /\ hashed \in Seq(Nat)
        /\ tables \in Seq(TableType) /\ tables # <<>>
        /\ \A i \in DOMAIN tables : tables[i].base <= pos
    BY DEF IndexInv, TypeInv, TypeOK, BasesWithin
  <1>2. PICK c \in CompressedLens : disk' = Put(disk, pos, c, Chunk(data))
    BY DEF StoreChunk
  <1>3. c > 0
    BY <1>2, LengthAssumption
  <1>4. [at |-> pos, len |-> c, obj |-> Chunk(data)] \in disk'
    BY <1>2, <1>3 DEF Put
  <1>5. Holds(disk', pos, "chunk") /\ ObjAt(disk', pos).data = data
    BY <1>4, ChunkAtStored DEF Chunk
  <1>6. Offsets' = Append(Offsets, pos) /\ Offsets \in Seq(Nat)
    <2>1. tables' = AddTableEntry(tables, pos)
      BY DEF StoreChunk
    <2>2. FlattenSeq(OffsetLists(tables')) = Append(FlattenSeq(OffsetLists(tables)), pos)
      BY <1>1, <2>1, AddTableEntryIndexes
    <2>3. FlattenSeq(OffsetLists(tables)) \in Seq(Nat)
      BY <1>1, OffsetListsType, FlattenType
    <2> QED
      BY <2>2, <2>3 DEF Offsets
  <1>7. Indexed(disk, Offsets, chunkCount, hashed)
    BY IndexedIs DEF IndexInv
  <1>8. Solid(disk) /\ BytesInChunks(disk')
    BY ChunkBytes DEF IndexInv
  <1>9. Indexed(disk', Append(Offsets, pos), chunkCount + 1, hashed \o data)
    BY <1>1, <1>5, <1>6, <1>7, <1>8, IndexGrows
  <1>10. chunkCount' = chunkCount + 1 /\ hashed' = hashed \o data
    BY DEF StoreChunk
  <1>11. Indexed(disk', Offsets', chunkCount', hashed')
    BY <1>6, <1>9, <1>10
  <1> QED
    BY <1>11 DEF IndexedDataIsHashed, Indexed, Offsets, OffsetLists, DataAt

\* Every other step leaves the tables, the count and the hashers alone.
LEMMA IndexUnchanged ==
    ASSUME IndexInv, Solid(disk'), ChunkExtents(disk) \subseteq ChunkExtents(disk'),
           UNCHANGED <<tables, chunkCount, hashed>>
    PROVE  IndexedDataIsHashed'
  <1>1. Indexed(disk, Offsets, chunkCount, hashed) /\ Solid(disk)
    BY IndexedIs DEF IndexInv
  <1>2. Indexed(disk', Offsets, chunkCount, hashed)
    BY <1>1, IndexKept
  <1>3. UNCHANGED Offsets
    BY DEF Offsets
  <1>4. Indexed(disk', Offsets', chunkCount', hashed')
    BY <1>2, <1>3
  <1> QED
    BY <1>4 DEF IndexedDataIsHashed, Indexed, Offsets, OffsetLists, DataAt

LEMMA IndexStep == IndexInv /\ [Next]_vars => Solid(disk') /\ IndexedDataIsHashed'
  <1> SUFFICES ASSUME IndexInv, [Next]_vars
               PROVE  Solid(disk') /\ IndexedDataIsHashed'
    OBVIOUS
  <1>1. TypeInv /\ TypeInv' /\ LayoutInv /\ Solid(disk)
    BY TypeStep DEF IndexInv
  <1>2. Solid(disk') /\ ChunkExtents(disk) \subseteq ChunkExtents(disk')
    BY <1>1, SolidStep, LayoutStep
  <1>3. CASE UNCHANGED <<tables, chunkCount, hashed>>
    BY <1>2, <1>3, IndexUnchanged
  <1>4. CASE \/ StartFileHeader \/ StartHeader \/ StartVolume \/ StartVolumeAgain
             \/ StartSectors \/ StartSectorsAgain
    BY <1>2, <1>3, <1>4 DEF StartFileHeader, StartHeader, StartVolume, StartVolumeAgain,
           StartSectors, StartSectorsAgain, StartFails, StartUnchanged, chunks
  <1>5. CASE Write \/ BeginClose
    BY <1>2, <1>3, <1>5 DEF Write, BeginClose, chunks
  <1>6. CASE FlushChunk
    <2>1. SubSeq(buf, 1, ChunkSize) \in Seq(Nat)
      <3>1. buf \in Seq(Nat) /\ Len(buf) \in Nat /\ ChunkSize <= Len(buf)
            /\ ChunkSize \in Nat
        BY <1>1, <1>6, LenProperties, ChunkSizeAssumption
           DEF FlushChunk, TypeInv, FlushReady, TypeOK
      <3>2. \A i \in 1..ChunkSize : buf[i] \in Nat
        BY <3>1, ElementOfSeq
      <3> QED
        BY <3>1, <3>2, SubSeqProperties
    <2>2. CASE StoreChunk(SubSeq(buf, 1, ChunkSize))
      BY <1>1, <1>2, <2>1, <2>2, StoreChunkIndexes
    <2>3. CASE LoseChunk
      BY <1>2, <1>3, <2>3 DEF LoseChunk
    <2> QED
      BY <1>6, <2>2, <2>3 DEF FlushChunk
  <1>7. CASE CloseFlush
    <2>1. buf \in Seq(Nat)
      BY <1>1 DEF TypeInv, TypeOK
    <2>2. CASE StoreChunk(buf)
      BY <1>1, <1>2, <2>1, <2>2, StoreChunkIndexes
    <2>3. CASE LoseChunk
      BY <1>2, <1>3, <2>3 DEF LoseChunk
    <2> QED
      BY <1>7, <2>2, <2>3 DEF CloseFlush, CloseStep
  <1>8. CASE CloseSectors \/ CloseVolume \/ CloseTable \/ CloseTable2
    BY <1>2, <1>3, <1>8 DEF CloseSectors, CloseVolume, CloseTable, CloseTable2, chunks
  <1>9. CASE CloseDigest \/ CloseHash \/ CloseData \/ CloseDone
    BY <1>2, <1>3, <1>9 DEF CloseDigest, CloseHash, CloseData, CloseDone, chunks
  <1>10. CASE UNCHANGED vars
    BY <1>2, <1>3, <1>10 DEF vars, chunks
  <1> QED
    BY <1>4, <1>5, <1>6, <1>7, <1>8, <1>9, <1>10 DEF Next

\* At every moment, whatever was torn, retried or rewritten in place, the tables
\* lead to one intact chunk for each chunk counted, and the data of these chunks,
\* in the order of the tables, is the data the hashers consumed.
THEOREM IndexMatchesHashes == Spec => []IndexedDataIsHashed
  <1>1. Init => IndexInv
    BY TypeInit, LayoutInit, IndexInit DEF IndexInv
  <1>2. IndexInv /\ [Next]_vars => IndexInv'
    BY TypeStep, LayoutStep, IndexStep DEF IndexInv
  <1>3. IndexInv => IndexedDataIsHashed
    BY DEF IndexInv
  <1> QED
    BY <1>1, <1>2, <1>3, PTL DEF Spec
=============================================================================
