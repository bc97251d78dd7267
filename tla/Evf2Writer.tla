---------------------------- MODULE Evf2Writer ----------------------------
(***************************************************************************)
(* The EVF2 writer: EWFCreator.Start, EWFWriter.Write and EWFWriter.Close  *)
(* of evf2/ewf_writer.go with every section encoder they call.  It only    *)
(* appends: a section's data come first, its descriptor after them, and    *)
(* each descriptor gives the offset of the previous one.                   *)
(*                                                                         *)
(* Steps, bytes and the client are those of Evf1Writer.                    *)
(***************************************************************************)
EXTENDS EwfDisk, SequencesExt

CONSTANTS
    ChunkSize,       \* DefaultChunkSize, 32768 in the code
    MaxTableLength,  \* maxTableLength, 16375 in the code
    CompressedLens,  \* the lengths zlib may give a compressed chunk
    DeviceLen,       \* the padded length of the device information's text
    CaseLen,         \* the padded length of the case data's text
    TornLens,        \* how many bytes a failing write may have stored
    Careful,         \* TRUE: the client does not Close after a failed Write
    TotalSizes,      \* what Start may be told the client will write
    MaxBytes, MaxWrite, MaxCloses, MaxFaults   \* bounds on the environment

ASSUME ChunkSizeAssumption == ChunkSize \in Nat \ {0}
ASSUME TableAssumption == MaxTableLength \in Nat \ {0}
ASSUME LengthAssumption == /\ CompressedLens \subseteq Nat \ {0}
                           /\ DeviceLen \in Nat \ {0} /\ CaseLen \in Nat \ {0}
                           /\ TornLens \subseteq Nat
ASSUME ClientAssumption == Careful \in BOOLEAN /\ TotalSizes \subseteq Nat
ASSUME BoundAssumption == /\ MaxBytes \in Nat /\ MaxWrite \in Nat
                          /\ MaxCloses \in Nat /\ MaxFaults \in Nat

VARIABLES
    disk,        \* dest.fh: the extents of the file
    pos,         \* dest.position
    buf,         \* ewf.buf
    dataSize,    \* ewf.dataSize
    padSize,     \* ewf.dataPadSize
    tables,      \* Segment.Tables: first chunk number and entries of each
    chunkCount,  \* ewf.chunkCount
    hashed,      \* what md5Hasher and sha1Hasher have consumed
    prev,        \* previousDescriptorPosition
    declared,    \* the number of chunks Start was told to expect
    pc,          \* where the running call is
    tbl,         \* the table Close's loop encodes next
    stream,      \* ghost: the bytes accepted so far, with Close's padding
    result,      \* ghost: what the client's last call returned, if it has
    hidden,      \* ghost: Close went on after a write of dest that failed
    closes, faults   \* ghost: calls of Close, failed writes of dest

chunks == <<dataSize, padSize, tables, chunkCount, hashed>>
vars == <<disk, pos, buf, chunks, prev, declared, pc, tbl,
          stream, result, hidden, closes, faults>>

\* Sizes of the fixed encodings, in bytes; a hash section's data are padded.
FileHeaderSize == 32
DescriptorSize == 64
HashDataSize == 32

\* calculatePadding
PadTo16(n) == (16 - (n % 16)) % 16

TableDataSize(t) == 32 + 16 * Len(t.entries) + 16

(***************************************************************************)
(* Objects of the file.                                                    *)
(***************************************************************************)
Section(type, size, previous) ==
    [kind |-> "section", type |-> type, size |-> size, previous |-> previous]
CaseData(n) == [kind |-> "case", count |-> n]
TableData(t) == [kind |-> "table", first |-> t.first, entries |-> t.entries]
Chunk(data, packed) == [kind |-> "chunk", data |-> data, packed |-> packed]

\* n bytes of data at p and the descriptor of their section.
PutSection(d, p, type, n, previous, body) ==
    Put(Put(d, p, n, body), p + n, DescriptorSize, Section(type, n, previous))

\* The same, when dest failed after k of the bytes.
TearSection(d, p, n, body, k) ==
    IF k < n THEN Tear(d, p, k) ELSE Tear(Put(d, p, n, body), p + n, k - n)

NewTable == [first |-> 0, entries |-> <<>>]

\* A bug of the kind the properties must see: every table starts at chunk 0.
AddTableEntryFromZero(ts, n, offset, size, packed) ==
    LET last == ts[Len(ts)]
        entry == [offset |-> offset, size |-> size, packed |-> packed]
    IN  IF Len(last.entries) >= MaxTableLength
        THEN Append(ts, [first |-> 0, entries |-> <<entry>>])
        ELSE [ts EXCEPT ![Len(ts)].entries = Append(@, entry)]

\* EWFSegment.addTableEntry
AddTableEntry(ts, n, offset, size, packed) ==
    LET last == ts[Len(ts)]
        entry == [offset |-> offset, size |-> size, packed |-> packed]
        alone == [first |-> n, entries |-> <<entry>>]
    IN  IF Len(last.entries) >= MaxTableLength THEN Append(ts, alone)
        ELSE IF Len(last.entries) = 0 THEN [ts EXCEPT ![Len(ts)] = alone]
        ELSE [ts EXCEPT ![Len(ts)].entries = Append(@, entry)]

\* shared.PadBytes(b, n) is b \o Padding(b, n): nothing when b is long enough.
Padding(b, n) == [i \in 1..(IF Len(b) >= n THEN 0 ELSE n - Len(b)) |-> 0]

UnflushedReset(b) == <<>>   \* buf emptied after each chunk, as Close does

\* What Write keeps in buf once its first chunk is out.
Unflushed(b) == SubSeq(b, ChunkSize + 1, Len(b))

Init ==
    /\ disk = {} /\ pos = 0
    /\ buf = <<>> /\ dataSize = 0 /\ padSize = 0
    /\ tables = <<NewTable>> /\ chunkCount = 0 /\ hashed = <<>>
    /\ prev = 0 /\ declared = 0
    /\ pc = "new" /\ tbl = 1
    /\ stream = <<>> /\ result = "none" /\ hidden = FALSE /\ closes = 0 /\ faults = 0

(***************************************************************************)
(* Sections.  A write of dest that fails stored k of the n bytes and moved *)
(* the position past them; the descriptor chain is left alone.             *)
(***************************************************************************)
Fault(k, n) == k < n /\ faults < MaxFaults /\ faults' = faults + 1

AppendSection(type, n, previous, body) ==
    /\ disk' = PutSection(disk, pos, type, n, previous, body)
    /\ pos' = pos + n + DescriptorSize
    /\ prev' = pos + n

FailSectionUnmoved(n, body) == \E k \in TornLens :
    /\ Fault(k, n + DescriptorSize)          \* position counts no failed write
    /\ disk' = TearSection(disk, pos, n, body, k)
    /\ UNCHANGED <<pos, prev>>

FailSectionLinked(n, body) == \E k \in TornLens :
    /\ Fault(k, n + DescriptorSize)          \* linked before the error is seen
    /\ disk' = TearSection(disk, pos, n, body, k)
    /\ pos' = pos + k
    /\ prev' = pos + n

FailSection(n, body) == \E k \in TornLens :
    /\ Fault(k, n + DescriptorSize)
    /\ disk' = TearSection(disk, pos, n, body, k)
    /\ pos' = pos + k
    /\ UNCHANGED prev

(***************************************************************************)
(* EWFCreator.Start.  When it has failed it may be called again: it begins *)
(* anew at the position the failure has left.                              *)
(***************************************************************************)
\* A step of Start from one place to the next; a fault ends it.
StartStep(from, to, Step, Failure) ==
    /\ pc \in from
    /\ \/ Step /\ pc' = to /\ result' = "none" /\ UNCHANGED faults
       \/ Failure /\ pc' = "failed" /\ result' = "startErr"
    /\ UNCHANGED <<buf, chunks, tbl, stream, hidden, closes>>

\* EWFHeader.Encode and its alignment; the argument is how many bytes the
\* client says it will write.
StartFileHeader ==
    /\ StartStep({"new", "failed"}, "device",
          /\ disk' = Put(disk, pos, FileHeaderSize, [kind |-> "file"])
          /\ pos' = pos + FileHeaderSize
          /\ \E totalSize \in TotalSizes :
                declared' = (totalSize + ChunkSize - 1) \div ChunkSize,
          /\ \E k \in TornLens : /\ Fault(k, FileHeaderSize)
                                 /\ disk' = Tear(disk, pos, k)
                                 /\ pos' = pos + k
          /\ UNCHANGED declared)
    /\ UNCHANGED prev

\* EWFDeviceInformationSection.Encode, given 0 for the previous descriptor.
StartDevice ==
    /\ StartStep({"device"}, "case",
                 AppendSection("device", DeviceLen, 0, [kind |-> "device"]),
                 FailSection(DeviceLen, [kind |-> "device"]))
    /\ UNCHANGED declared

\* EWFCaseDataSection.Encode: here the declared number of chunks is recorded.
StartCase ==
    /\ StartStep({"case"}, "open",
                 AppendSection("case", CaseLen, prev, CaseData(declared)),
                 FailSection(CaseLen, CaseData(declared)))
    /\ UNCHANGED declared

(***************************************************************************)
(* EWFWriter.writeData: compress a chunk unless that makes it longer,      *)
(* store it and align, then index, count and hash it.                      *)
(***************************************************************************)
StoreChunk(data) == \E c \in CompressedLens :
    LET packed == c <= Len(data)
        size == IF packed THEN c ELSE Len(data)
        pad == PadTo16(size)
    IN  /\ disk' = Put(Put(disk, pos, size, Chunk(data, packed)),
                       pos + size, pad, [kind |-> "pad"])
        /\ pos' = pos + size + pad
        /\ dataSize' = dataSize + size
        /\ padSize' = padSize + pad
        /\ tables' = AddTableEntry(tables, chunkCount, pos, size, packed)
        /\ chunkCount' = chunkCount + 1
        /\ hashed' = hashed \o data
        /\ UNCHANGED faults

LoseChunkHashed(data) == \E c \in CompressedLens, k \in TornLens :
    LET size == IF c <= Len(data) THEN c ELSE Len(data)
    IN  /\ Fault(k, size + PadTo16(size))    \* hashed before it is stored
        /\ disk' = TearSection(disk, pos, size, Chunk(data, c <= Len(data)), k)
        /\ pos' = pos + k
        /\ dataSize' = dataSize + Min({k, size})
        /\ hashed' = hashed \o data
        /\ UNCHANGED <<padSize, tables, chunkCount>>

LoseChunk(data) == \E c \in CompressedLens, k \in TornLens :
    LET packed == c <= Len(data)
        size == IF packed THEN c ELSE Len(data)
    IN  /\ Fault(k, size + PadTo16(size))
        /\ disk' = TearSection(disk, pos, size, Chunk(data, packed), k)
        /\ pos' = pos + k
        /\ dataSize' = dataSize + Min({k, size})
        /\ UNCHANGED <<padSize, tables, chunkCount, hashed>>

(***************************************************************************)
(* EWFWriter.Write                                                         *)
(***************************************************************************)
Write ==
    /\ pc = "open"
    /\ \E n \in 0..MaxWrite :
         LET p == [i \in 1..n |-> Len(stream) + i]
         IN  /\ Len(stream) + n <= MaxBytes
             /\ buf' = buf \o p
             /\ stream' = stream \o p
    /\ IF Len(buf') < ChunkSize
       THEN pc' = "open" /\ result' = "ok"
       ELSE pc' = "flush" /\ result' = "none"
    /\ UNCHANGED <<disk, pos, chunks, prev, declared, tbl, hidden, closes, faults>>

\* One iteration of Write's loop; an error leaves every unflushed byte in buf.
FlushChunk ==
    LET data == SubSeq(buf, 1, ChunkSize)
    IN  /\ pc = "flush"
        /\ \/ /\ StoreChunk(data)
              /\ buf' = Unflushed(buf)
              /\ IF Len(buf') < ChunkSize
                 THEN pc' = "open" /\ result' = "ok"
                 ELSE UNCHANGED <<pc, result>>
           \/ /\ LoseChunk(data)
              /\ pc' = "open" /\ result' = "writeErr" /\ UNCHANGED buf
        /\ UNCHANGED <<prev, declared, tbl, stream, hidden, closes>>

(***************************************************************************)
(* EWFWriter.Close.  Nothing records that it ran: Write and Close may be   *)
(* called again afterwards, whether it failed or not.                      *)
(***************************************************************************)
\* A step of Close from one place to the next; it returns on a fault.
CloseStep(from, to, Step, Failure) ==
    /\ pc = from
    /\ \/ Step /\ pc' = to /\ UNCHANGED <<result, faults>>
       \/ Failure /\ pc' = "open" /\ result' = "closeErr"
    /\ UNCHANGED <<declared, stream, hidden, closes>>

BeginClose ==
    /\ pc = "open" /\ closes < MaxCloses
    /\ Careful => result # "writeErr"
    /\ closes' = closes + 1
    /\ IF Len(buf) > 0
       THEN /\ pc' = "closeFlush"
            /\ buf' = buf \o Padding(buf, ChunkSize)
            /\ stream' = stream \o Padding(buf, ChunkSize)
       ELSE pc' = "closeSectors" /\ UNCHANGED <<buf, stream>>
    /\ result' = "none"
    /\ UNCHANGED <<disk, pos, chunks, prev, declared, tbl, hidden, faults>>

\* The whole of buf goes out as one chunk, however long it is.
CloseFlush ==
    /\ CloseStep("closeFlush", "closeSectors",
                 StoreChunk(buf) /\ buf' = <<>>,
                 LoseChunk(buf) /\ UNCHANGED buf)
    /\ UNCHANGED <<prev, tbl>>

\* EWFSectorsSection.Encode: a descriptor for all the data before it.
CloseSectors ==
    LET desc == Section("sectors", dataSize + padSize, prev)
    IN  /\ CloseStep("closeSectors", "closeTable",
              /\ disk' = Put(disk, pos, DescriptorSize, desc)
              /\ pos' = pos + DescriptorSize
              /\ prev' = pos,
              FailSection(0, desc))
        /\ tbl' = 1
        /\ UNCHANGED <<buf, chunks>>

NextTableUnchecked == tbl + 1

\* The loop over Segment.Tables.
NextTable == IF tbl < Len(tables) THEN tbl + 1 ELSE tbl
AfterTable == IF tbl < Len(tables) THEN "closeTable" ELSE "closeMD5"

\* EWFTableSection.Encode, once for each table
CloseTable ==
    LET t == tables[tbl]
    IN  /\ CloseStep("closeTable", AfterTable,
                     AppendSection("table", TableDataSize(t), prev, TableData(t)),
                     FailSection(TableDataSize(t), TableData(t)))
        /\ tbl' = NextTable
        /\ UNCHANGED <<buf, chunks>>

\* EWFMD5Section.Encode and EWFSHA1Section.Encode return no error when the
\* data, or their alignment, cannot be written: Close goes on, and records as
\* previous descriptor a place where there is none.
SwallowedFault ==
    /\ \E k \in TornLens : /\ Fault(k, HashDataSize)
                           /\ disk' = Tear(disk, pos, k)
                           /\ pos' = pos + k
                           /\ prev' = pos + k
    /\ hidden' = TRUE

CloseHash(type, from, to) ==
    LET body == [kind |-> type, sum |-> hashed]
        DescriptorFault == \E k \in TornLens :
            /\ k >= HashDataSize /\ Fault(k, HashDataSize + DescriptorSize)
            /\ disk' = TearSection(disk, pos, HashDataSize, body, k)
            /\ pos' = pos + k
            /\ UNCHANGED prev
    IN  /\ pc = from
        /\ \/ /\ AppendSection(type, HashDataSize, prev, body)
              /\ pc' = to /\ UNCHANGED <<result, hidden, faults>>
           \/ SwallowedFault /\ pc' = to /\ UNCHANGED result
           \/ DescriptorFault /\ pc' = "open" /\ result' = "closeErr" /\ UNCHANGED hidden
        /\ UNCHANGED <<buf, chunks, declared, tbl, stream, closes>>

CloseMD5 == CloseHash("md5", "closeMD5", "closeSHA1")
CloseSHA1 == CloseHash("sha1", "closeSHA1", "closeDone")

\* EWFDoneSection.Encode
CloseDone ==
    LET desc == Section("done", 0, prev)
    IN  /\ pc = "closeDone"
        /\ pc' = "open"
        /\ \/ /\ disk' = Put(disk, pos, DescriptorSize, desc)
              /\ pos' = pos + DescriptorSize
              /\ prev' = pos
              /\ result' = "closed" /\ UNCHANGED faults
           \/ FailSection(0, desc) /\ result' = "closeErr"
        /\ UNCHANGED <<buf, chunks, declared, tbl, stream, hidden, closes>>

Next ==
    \/ StartFileHeader \/ StartDevice \/ StartCase
    \/ Write \/ FlushChunk
    \/ BeginClose \/ CloseFlush \/ CloseSectors \/ CloseTable
    \/ CloseMD5 \/ CloseSHA1 \/ CloseDone

Spec == Init /\ [][Next]_vars

(***************************************************************************)
(* Type invariant.                                                         *)
(***************************************************************************)
Entry == [offset : Nat, size : Nat, packed : BOOLEAN]
TableType == [first : Nat, entries : Seq(Entry)]

SectionTypes == {"device", "case", "sectors", "table", "md5", "sha1", "done"}

Object ==
    [kind : {"torn", "file", "device", "pad"}]
      \cup [kind : {"section"}, type : SectionTypes, size : Nat, previous : Nat]
      \cup [kind : {"case"}, count : Nat]
      \cup [kind : {"table"}, first : Nat, entries : Seq(Entry)]
      \cup [kind : {"chunk"}, data : Seq(Nat), packed : BOOLEAN]
      \cup [kind : {"md5", "sha1"}, sum : Seq(Nat)]

StartPc == {"new", "device", "case"}
ClosePc == {"closeFlush", "closeSectors", "closeTable", "closeMD5",
            "closeSHA1", "closeDone"}
Results == {"none", "ok", "writeErr", "startErr", "closeErr", "closed"}

\* Every variable has the type of the field it models, and the loop of Close
\* indexes a table that exists.
TypeOK ==
    /\ disk \subseteq [at : Nat, len : Nat, obj : Object]
    /\ pos \in Nat /\ dataSize \in Nat /\ padSize \in Nat /\ chunkCount \in Nat
    /\ buf \in Seq(Nat) /\ hashed \in Seq(Nat) /\ stream \in Seq(Nat)
    /\ tables \in Seq(TableType) /\ tables # <<>>
    /\ prev \in Nat /\ declared \in Nat
    /\ pc \in StartPc \cup ClosePc \cup {"open", "flush", "failed"}
    /\ tbl \in 1..Len(tables)
    /\ result \in Results /\ hidden \in BOOLEAN
    /\ closes \in Nat /\ faults \in Nat

(***************************************************************************)
(* Safety.                                                                 *)
(***************************************************************************)
\* The bytes the hashers consumed, followed by the bytes still buffered, are
\* the bytes the client's writes accepted, in order: an error in the middle of
\* a Write or a Close, and a retry after it, neither drops nor repeats one.
NothingLost == hashed \o buf = stream

\* Table by table, entry by entry: an intact chunk of the recorded size is at
\* the recorded offset, the entries follow the chunk numbers with no gap, and
\* their chunks are the data that was hashed.
IndexedDataIsHashed ==
    LET entries == FlattenSeq([i \in DOMAIN tables |-> tables[i].entries])
    IN  /\ Len(entries) = chunkCount
        /\ tables[1].first = 0
        /\ \A i \in DOMAIN tables :
             /\ Len(tables[i].entries) <= MaxTableLength
             /\ i < Len(tables) =>
                  tables[i + 1].first = tables[i].first + Len(tables[i].entries)
        /\ \A i \in DOMAIN entries :
             /\ Holds(disk, entries[i].offset, "chunk")
             /\ LenAt(disk, entries[i].offset) = entries[i].size
             /\ ObjAt(disk, entries[i].offset).packed = entries[i].packed
        /\ FlattenSeq([i \in DOMAIN entries |->
                         ObjAt(disk, entries[i].offset).data]) = hashed

\* The file only grows: no byte that was written is written again.
AppendOnly == [][disk \subseteq disk']_vars

\* The descriptor chain is never broken by a fault that was reported: the last
\* descriptor on record is in the file, so the next one can be linked to it.
PreviousIsADescriptor ==
    hidden \/ prev = 0 \/ Holds(disk, prev, "section")
=============================================================================
