---------------------------- MODULE Evf1Writer ----------------------------
(***************************************************************************)
(* The EVF1 writer: EWFCreator.Start, EWFWriter.Write and EWFWriter.Close  *)
(* of evf1/ewf_writer.go with every section encoder they call, over a      *)
(* destination whose writes may fail part-way.                             *)
(*                                                                         *)
(* A step is one section encoder, or one iteration of Write's loop: what   *)
(* the file holds between two steps is what a crash there would leave.     *)
(* A byte of data is its position in the stream the client wrote, and 0 is *)
(* a byte of zero padding.                                                 *)
(***************************************************************************)
EXTENDS EwfDisk, SequencesExt

CONSTANTS
    ChunkSize,       \* DefaultChunkSize, 32768 in the code
    MaxTableLength,  \* maxTableLength, 16375 in the code
    MaxRel,          \* largest relative offset of a table entry, 0x7FFFFFFF
    CompressedLens,  \* the lengths zlib may give a compressed chunk
    HeaderLen,       \* the compressed length of the header section's text
    TornLens,        \* how many bytes a failing write may have stored
    Careful,         \* TRUE: the client does not Close after a failed Write
    MaxBytes, MaxWrite, MaxCloses, MaxFaults   \* bounds on the environment

ASSUME ChunkSizeAssumption == ChunkSize \in Nat \ {0}
ASSUME TableAssumption == MaxTableLength \in Nat \ {0} /\ MaxRel \in Nat
ASSUME LengthAssumption == /\ CompressedLens \subseteq Nat \ {0}
                           /\ HeaderLen \in Nat \ {0}
                           /\ TornLens \subseteq Nat
ASSUME ClientAssumption == Careful \in BOOLEAN
ASSUME BoundAssumption == /\ MaxBytes \in Nat /\ MaxWrite \in Nat
                          /\ MaxCloses \in Nat /\ MaxFaults \in Nat

VARIABLES
    disk,        \* dest: the extents of the file
    pos,         \* the write position of dest
    buf,         \* ewf.buf
    dataSize,    \* ewf.dataSize
    tables,      \* Segment.Tables: base offset and relative entries of each
    chunkCount,  \* Volume.Data.ChunkCount, also the source of TotalSectorCount
    hashed,      \* what md5Hasher and sha1Hasher have consumed
    volPos,      \* Volume.position, 0 until the placeholder is written
    sectorsPos,  \* Sectors.position, 0 until the placeholder is written
    pc,          \* where the running call is
    tbl,         \* the table Close's loop encodes next
    stream,      \* ghost: the bytes accepted so far, with Close's padding
    result,      \* ghost: what the client's last call returned, if it has
    closes, faults   \* ghost: calls of Close, failed writes of dest

device == <<disk, pos>>
chunks == <<dataSize, tables, chunkCount, hashed>>
places == <<volPos, sectorsPos>>
ghosts == <<stream, result, closes, faults>>
vars == <<device, buf, chunks, places, pc, tbl, ghosts>>

\* Sizes of the fixed encodings, in bytes.
FileHeaderSize == 13
DescriptorSize == 76
VolumeDataSize == 1052
DigestSize == 80
HashSize == 36
DataSectionSize == 1052
TableDataSize(t) == 24 + 4 * Len(t.entries) + 4

(***************************************************************************)
(* Objects of the file.                                                    *)
(***************************************************************************)
Section(type, size, next) ==
    [kind |-> "section", type |-> type, size |-> size, next |-> next]
VolumeDataStale(n) == [kind |-> "volume", count |-> 0]   \* never updated
VolumeData(n) == [kind |-> "volume", count |-> n]
TableData(t) == [kind |-> "table", base |-> t.base, entries |-> t.entries]

\* A section written at p: its descriptor, then a body of n bytes.  Its Next
\* is its own end.
PutSection(d, p, type, n, body) ==
    Put(Put(d, p, DescriptorSize,
            Section(type, n + DescriptorSize, p + n + DescriptorSize)),
        p + DescriptorSize, n, body)

\* The same, when dest failed after k of the bytes.
TearSection(d, p, type, n, k) ==
    IF k < DescriptorSize
    THEN Tear(d, p, k)
    ELSE Tear(Put(d, p, DescriptorSize,
                  Section(type, n + DescriptorSize, p + n + DescriptorSize)),
              p + DescriptorSize, k - DescriptorSize)

NewTable == [base |-> 0, entries |-> <<>>]

\* A bug of the kind the properties must see: only a full table is closed.
AddTableEntryUnbounded(ts, offset) ==
    LET last == ts[Len(ts)]
        first == [base |-> offset, entries |-> <<0>>]
    IN  IF Len(last.entries) >= MaxTableLength THEN Append(ts, first)
        ELSE IF Len(last.entries) = 0 THEN [ts EXCEPT ![Len(ts)] = first]
        ELSE [ts EXCEPT ![Len(ts)].entries = Append(@, offset - last.base)]

\* EWFSegment.addTableEntry: a table takes MaxTableLength entries, its base is
\* the offset of its first one, and the others are relative to it.
AddTableEntry(ts, offset) ==
    LET last == ts[Len(ts)]
        first == [base |-> offset, entries |-> <<0>>]
        full == Len(last.entries) >= MaxTableLength
        tooFar == Len(last.entries) > 0 /\ offset - last.base > MaxRel
    IN  IF full \/ tooFar THEN Append(ts, first)
        ELSE IF Len(last.entries) = 0 THEN [ts EXCEPT ![Len(ts)] = first]
        ELSE [ts EXCEPT ![Len(ts)].entries = Append(@, offset - last.base)]

PaddingForgotten(b, n) == <<>>   \* the last chunk goes out short

\* shared.PadBytes(b, n) is b \o Padding(b, n): nothing when b is long enough.
Padding(b, n) == [i \in 1..(IF Len(b) >= n THEN 0 ELSE n - Len(b)) |-> 0]

UnflushedReset(b) == <<>>   \* buf emptied after each chunk, as Close does

\* What Write keeps in buf once its first chunk is out.
Unflushed(b) == SubSeq(b, ChunkSize + 1, Len(b))

Init ==
    /\ disk = {} /\ pos = 0
    /\ buf = <<>> /\ dataSize = 0
    /\ tables = <<NewTable>> /\ chunkCount = 0 /\ hashed = <<>>
    /\ volPos = 0 /\ sectorsPos = 0
    /\ pc = "new" /\ tbl = 1
    /\ stream = <<>> /\ result = "none" /\ closes = 0 /\ faults = 0

(***************************************************************************)
(* A write of dest that fails: k of its n bytes were stored and the        *)
(* position moved past them, or a rewrite in place (whose position the     *)
(* deferred Seek restores) stored none, some or all of what matters of it. *)
(***************************************************************************)
Fault(k, n) == k < n /\ faults < MaxFaults /\ faults' = faults + 1

AppendSection(type, n, body) ==
    /\ disk' = PutSection(disk, pos, type, n, body)
    /\ pos' = pos + DescriptorSize + n

FailSection(type, n) == \E k \in TornLens :
    /\ Fault(k, DescriptorSize + n)
    /\ disk' = TearSection(disk, pos, type, n, k)
    /\ pos' = pos + k

RewriteUnrestored(p, n, obj) ==   \* no Seek back to the end
    /\ disk' = Put(disk, p, n, obj)
    /\ pos' = p + n

\* A rewrite in place: the deferred Seek restores the position.
Rewrite(p, n, obj) ==
    /\ disk' = Put(disk, p, n, obj)
    /\ pos' = pos

FailRewrite(p, n, obj) ==
    /\ Fault(0, n)
    /\ disk' \in {disk, Tear(disk, p, n), Put(disk, p, n, obj)}
    /\ pos' = pos

(***************************************************************************)
(* EWFCreator.Start.  When it has failed it may be called again: it begins *)
(* anew at the position the failure has left, but volume and sectors, once *)
(* they have a position, are written in place.                             *)
(***************************************************************************)
StartUnchanged == UNCHANGED <<buf, chunks, tbl, stream, closes>>

StartFails == pc' = "failed" /\ result' = "startErr" /\ StartUnchanged

\* EWFHeader.Encode
StartFileHeader ==
    /\ pc \in {"new", "failed"}
    /\ \/ /\ disk' = Put(disk, pos, FileHeaderSize, [kind |-> "file"])
          /\ pos' = pos + FileHeaderSize /\ pc' = "header" /\ result' = "none"
          /\ StartUnchanged /\ UNCHANGED <<places, faults>>
       \/ /\ \E k \in TornLens : /\ Fault(k, FileHeaderSize)
                                 /\ disk' = Tear(disk, pos, k)
                                 /\ pos' = pos + k
          /\ StartFails /\ UNCHANGED places

\* EWFHeaderSection.Encode writes the section twice, each copy's Next the end
\* of that copy.
StartHeader ==
    LET second == pos + DescriptorSize + HeaderLen
        body == [kind |-> "header"]
        once == PutSection(disk, pos, "header", HeaderLen, body)
    IN  /\ pc = "header"
        /\ \/ /\ disk' = PutSection(once, second, "header", HeaderLen, body)
              /\ pos' = second + DescriptorSize + HeaderLen /\ pc' = "volume"
              /\ StartUnchanged /\ UNCHANGED <<places, result, faults>>
           \/ FailSection("header", HeaderLen) /\ StartFails /\ UNCHANGED places
           \/ /\ \E k \in TornLens :
                    /\ Fault(k, DescriptorSize + HeaderLen)
                    /\ disk' = TearSection(once, second, "header", HeaderLen, k)
                    /\ pos' = second + k
              /\ StartFails /\ UNCHANGED places

\* EWFVolumeSection.Encode, first call: the descriptor and placeholder data.
\* When the data is torn the position has been recorded already, and the
\* deferred Seek moves past all of it.
StartVolume ==
    /\ pc = "volume" /\ volPos = 0
    /\ \/ /\ AppendSection("volume", VolumeDataSize, VolumeData(chunkCount))
          /\ volPos' = pos + DescriptorSize
          /\ pc' = "sectors"
          /\ StartUnchanged /\ UNCHANGED <<sectorsPos, result, faults>>
       \/ /\ \E k \in TornLens :
                /\ Fault(k, DescriptorSize + VolumeDataSize)
                /\ disk' = TearSection(disk, pos, "volume", VolumeDataSize, k)
                /\ IF k < DescriptorSize
                   THEN pos' = pos /\ volPos' = volPos
                   ELSE /\ volPos' = pos + DescriptorSize
                        /\ pos' = volPos' + VolumeDataSize
          /\ StartFails /\ UNCHANGED sectorsPos

\* A Start that failed has recorded the position: the data alone, in place.
StartVolumeAgain ==
    /\ pc = "volume" /\ volPos # 0
    /\ \/ /\ Rewrite(volPos, VolumeDataSize, VolumeData(chunkCount))
          /\ pc' = "sectors"
          /\ StartUnchanged /\ UNCHANGED <<result, faults>>
       \/ FailRewrite(volPos, VolumeDataSize, VolumeData(chunkCount)) /\ StartFails
    /\ UNCHANGED places

\* EWFSectorsSection.Encode(0, 0), first call: the descriptor alone, with no
\* Next, in front of the chunks.
StartSectors ==
    /\ pc = "sectors" /\ sectorsPos = 0
    /\ sectorsPos' = pos
    /\ \/ /\ disk' = Put(disk, pos, DescriptorSize,
                         Section("sectors", DescriptorSize, 0))
          /\ pos' = pos + DescriptorSize /\ pc' = "open"
          /\ StartUnchanged /\ UNCHANGED <<volPos, result, faults>>
       \/ /\ \E k \in TornLens : /\ Fault(k, DescriptorSize)
                                 /\ disk' = Tear(disk, pos, k)
                                 /\ pos' = pos + k
          /\ StartFails /\ UNCHANGED volPos

StartSectorsAgain ==
    LET desc == Section("sectors", DescriptorSize, 0)
    IN  /\ pc = "sectors" /\ sectorsPos # 0
        /\ \/ /\ Rewrite(sectorsPos, DescriptorSize, desc)
              /\ pc' = "open"
              /\ StartUnchanged /\ UNCHANGED <<result, faults>>
           \/ FailRewrite(sectorsPos, DescriptorSize, desc) /\ StartFails
        /\ UNCHANGED places

(***************************************************************************)
(* EWFWriter.writeData: compress a chunk, store it, then index, count and  *)
(* hash it.  A write that fails only moves dataSize.                       *)
(***************************************************************************)
Chunk(data) == [kind |-> "chunk", data |-> data]

StoreChunk(data) == \E c \in CompressedLens :
    /\ disk' = Put(disk, pos, c, Chunk(data))
    /\ pos' = pos + c
    /\ dataSize' = dataSize + c
    /\ tables' = AddTableEntry(tables, pos)
    /\ chunkCount' = chunkCount + 1
    /\ hashed' = hashed \o data
    /\ UNCHANGED faults

LoseChunkIndexed == \E c \in CompressedLens, k \in TornLens :
    /\ Fault(k, c)                    \* indexed before the write is known to
    /\ disk' = Tear(disk, pos, k)     \* have succeeded
    /\ pos' = pos + k
    /\ dataSize' = dataSize + k
    /\ tables' = AddTableEntry(tables, pos)
    /\ UNCHANGED <<chunkCount, hashed>>

LoseChunk == \E c \in CompressedLens, k \in TornLens :
    /\ Fault(k, c)
    /\ disk' = Tear(disk, pos, k)
    /\ pos' = pos + k
    /\ dataSize' = dataSize + k
    /\ UNCHANGED <<tables, chunkCount, hashed>>

(***************************************************************************)
(* EWFWriter.Write                                                         *)
(***************************************************************************)
\* The bytes are accepted whatever happens next: Write returns len(p) even
\* with an error.
Write ==
    /\ pc = "open"
    /\ \E n \in 0..MaxWrite :
         LET p == [i \in 1..n |-> Len(stream) + i]
         IN  /\ Len(stream) + n <= MaxBytes
             /\ buf' = buf \o p
             /\ stream' = stream \o p
    /\ IF Len(buf') < ChunkSize
       THEN pc' = "open" /\ result' = "ok"
       ELSE pc' = "flush" /\ result' = "none"
    /\ UNCHANGED <<device, chunks, places, tbl, closes, faults>>

\* One iteration of Write's loop; an error leaves every unflushed byte in buf.
FlushChunk ==
    /\ pc = "flush"
    /\ \/ /\ StoreChunk(SubSeq(buf, 1, ChunkSize))
          /\ buf' = Unflushed(buf)
          /\ IF Len(buf') < ChunkSize
             THEN pc' = "open" /\ result' = "ok"
             ELSE UNCHANGED <<pc, result>>
       \/ /\ LoseChunk
          /\ pc' = "open" /\ result' = "writeErr" /\ UNCHANGED buf
    /\ UNCHANGED <<places, tbl, stream, closes>>

(***************************************************************************)
(* EWFWriter.Close.  Nothing records that it ran: Write and Close may be   *)
(* called again afterwards, whether it failed or not.                      *)
(***************************************************************************)
\* A step of Close from one place to the next; it returns on a fault.
CloseStep(from, to, Step, Failure) ==
    /\ pc = from
    /\ \/ Step /\ pc' = to /\ UNCHANGED <<result, faults>>
       \/ Failure /\ pc' = "open" /\ result' = "closeErr"
    /\ UNCHANGED <<places, stream, closes>>

BeginClose ==
    /\ pc = "open" /\ closes < MaxCloses
    /\ Careful => result # "writeErr"
    /\ closes' = closes + 1
    /\ IF Len(buf) > 0
       THEN /\ pc' = "closeFlush"
            /\ buf' = buf \o Padding(buf, ChunkSize)
            /\ stream' = stream \o Padding(buf, ChunkSize)
       ELSE pc' = "closeSectors" /\ UNCHANGED <<buf, stream>>
    /\ result' = "none"
    /\ UNCHANGED <<device, chunks, places, tbl, faults>>

\* The whole of buf goes out as one chunk, however long it is.
CloseFlush ==
    /\ CloseStep("closeFlush", "closeSectors",
                 StoreChunk(buf) /\ buf' = <<>>, LoseChunk /\ UNCHANGED buf)
    /\ UNCHANGED tbl

\* EWFSectorsSection.Encode(dataSize, tablePosition) in place: this step links
\* the tables about to be written, and unlinks those of an earlier Close.
CloseSectors ==
    LET desc == Section("sectors", dataSize + DescriptorSize, pos)
    IN  /\ CloseStep("closeSectors", "closeVolume",
                     Rewrite(sectorsPos, DescriptorSize, desc),
                     FailRewrite(sectorsPos, DescriptorSize, desc))
        /\ UNCHANGED <<buf, chunks, tbl>>

\* EWFVolumeSection.Encode, a later call: the data alone, in place.
CloseVolume ==
    /\ CloseStep("closeVolume", "closeTable",
                 Rewrite(volPos, VolumeDataSize, VolumeData(chunkCount)),
                 FailRewrite(volPos, VolumeDataSize, VolumeData(chunkCount)))
    /\ tbl' = 1
    /\ UNCHANGED <<buf, chunks>>

NextTableUnchecked == tbl + 1
AfterTableOnce == "closeDigest"   \* only the first table is written

\* The loop over Segment.Tables.
NextTable == IF tbl < Len(tables) THEN tbl + 1 ELSE tbl
AfterTable == IF tbl < Len(tables) THEN "closeTable" ELSE "closeDigest"

\* EWFTableSection.Encode: the table section, and then its mirror table2.
CloseTable ==
    LET t == tables[tbl]
    IN  /\ CloseStep("closeTable", "closeTable2",
                     AppendSection("table", TableDataSize(t), TableData(t)),
                     FailSection("table", TableDataSize(t)))
        /\ UNCHANGED <<buf, chunks, tbl>>

CloseTable2 ==
    LET t == tables[tbl]
    IN  /\ CloseStep("closeTable2", AfterTable,
                     AppendSection("table2", TableDataSize(t), TableData(t)),
                     FailSection("table2", TableDataSize(t)))
        /\ tbl' = NextTable
        /\ UNCHANGED <<buf, chunks>>

\* EWFDigestSection.Encode and EWFHashSection.Encode
CloseDigest ==
    /\ CloseStep("closeDigest", "closeHash",
                 AppendSection("digest", DigestSize,
                               [kind |-> "digest", sum |-> hashed]),
                 FailSection("digest", DigestSize))
    /\ UNCHANGED <<buf, chunks, tbl>>

CloseHash ==
    /\ CloseStep("closeHash", "closeData",
                 AppendSection("hash", HashSize, [kind |-> "hash", sum |-> hashed]),
                 FailSection("hash", HashSize))
    /\ UNCHANGED <<buf, chunks, tbl>>

\* EWFDataSection.Encode
CloseData ==
    /\ CloseStep("closeData", "closeDone",
                 AppendSection("data", DataSectionSize,
                               [kind |-> "data", count |-> chunkCount]),
                 FailSection("data", DataSectionSize))
    /\ UNCHANGED <<buf, chunks, tbl>>

\* EWFDoneSection.Encode: a descriptor whose Next is its own offset.
CloseDone ==
    /\ pc = "closeDone"
    /\ pc' = "open"
    /\ \/ /\ disk' = Put(disk, pos, DescriptorSize,
                         Section("done", DescriptorSize, pos))
          /\ pos' = pos + DescriptorSize
          /\ result' = "closed" /\ UNCHANGED faults
       \/ /\ \E k \in TornLens : /\ Fault(k, DescriptorSize)
                                 /\ disk' = Tear(disk, pos, k)
                                 /\ pos' = pos + k
          /\ result' = "closeErr"
    /\ UNCHANGED <<buf, chunks, places, tbl, stream, closes>>

Next ==
    \/ StartFileHeader \/ StartHeader \/ StartVolume \/ StartVolumeAgain
    \/ StartSectors \/ StartSectorsAgain
    \/ Write \/ FlushChunk
    \/ BeginClose \/ CloseFlush \/ CloseSectors \/ CloseVolume
    \/ CloseTable \/ CloseTable2 \/ CloseDigest \/ CloseHash
    \/ CloseData \/ CloseDone

Spec == Init /\ [][Next]_vars

(***************************************************************************)
(* Type invariant.                                                         *)
(***************************************************************************)
TableType == [base : Nat, entries : Seq(Nat)]

SectionTypes == {"header", "volume", "sectors", "table", "table2", "digest",
                 "hash", "data", "done"}

Object ==
    [kind : {"torn", "file", "header"}]
      \cup [kind : {"section"}, type : SectionTypes, size : Nat, next : Nat]
      \cup [kind : {"volume", "data"}, count : Nat]
      \cup [kind : {"table"}, base : Nat, entries : Seq(Nat)]
      \cup [kind : {"chunk"}, data : Seq(Nat)]
      \cup [kind : {"digest", "hash"}, sum : Seq(Nat)]

StartPc == {"new", "header", "volume", "sectors"}
ClosePc == {"closeFlush", "closeSectors", "closeVolume", "closeTable",
            "closeTable2", "closeDigest", "closeHash", "closeData", "closeDone"}
Results == {"none", "ok", "writeErr", "startErr", "closeErr", "closed"}

\* Every variable has the type of the field it models; positions never go
\* negative and the loop of Close indexes a table that exists.
TypeOK ==
    /\ disk \subseteq [at : Nat, len : Nat, obj : Object]
    /\ pos \in Nat /\ dataSize \in Nat /\ chunkCount \in Nat
    /\ buf \in Seq(Nat) /\ hashed \in Seq(Nat) /\ stream \in Seq(Nat)
    /\ tables \in Seq(TableType) /\ tables # <<>>
    /\ volPos \in Nat /\ sectorsPos \in Nat
    /\ pc \in StartPc \cup ClosePc \cup {"open", "flush", "failed"}
    /\ tbl \in 1..Len(tables)
    /\ result \in Results
    /\ closes \in Nat /\ faults \in Nat

(***************************************************************************)
(* Safety.                                                                 *)
(***************************************************************************)
\* The bytes the hashers consumed, followed by the bytes still buffered, are
\* the bytes the client's writes accepted, in order: an error in the middle of
\* a Write or a Close, and a retry after it, neither drops nor repeats one.
NothingLost == hashed \o buf = stream

EntryOffsets(t) == [i \in DOMAIN t.entries |-> t.base + t.entries[i]]

\* An intact chunk is at every offset the tables give, and these chunks, table
\* by table, are the data that was hashed and counted: failed and retried
\* writes, and the two reasons to open a table, leave the index in step with
\* the hashes.
IndexedDataIsHashed ==
    LET offsets == FlattenSeq([i \in DOMAIN tables |-> EntryOffsets(tables[i])])
    IN  /\ \A i \in DOMAIN offsets : Holds(disk, offsets[i], "chunk")
        /\ Len(offsets) = chunkCount
        /\ FlattenSeq([i \in DOMAIN offsets |-> ObjAt(disk, offsets[i]).data])
             = hashed

\* Every table fits what its section can encode (at most MaxTableLength
\* entries of 31 bits), and none is opened before it is needed.
TablesFit == \A i \in DOMAIN tables :
    /\ Len(tables[i].entries) <= MaxTableLength
    /\ \A j \in DOMAIN tables[i].entries : tables[i].entries[j] <= MaxRel
    /\ i < Len(tables) =>
         \/ Len(tables[i].entries) = MaxTableLength
         \/ tables[i + 1].base - tables[i].base > MaxRel

\* A chunk that reached the file stays as it was stored: the writes Close makes
\* in place touch the volume data and the sectors descriptor and no chunk.
ChunksAreKept ==
    [][\A e \in disk : e.obj.kind = "chunk" => e \in disk']_vars

\* TESTING.md: images are made of fixed-size chunks, the last one padded.
FixedSizeChunks ==
    \A e \in disk : e.obj.kind = "chunk" => Len(e.obj.data) = ChunkSize
=============================================================================
