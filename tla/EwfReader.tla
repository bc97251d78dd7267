----------------------------- MODULE EwfReader -----------------------------
(***************************************************************************)
(* EWFReader and EWFSegment, as far as evf1 and evf2 have the same code:   *)
(* OpenEWF, ReadAt, Read, Seek, Segment, calculateIndex, readSectors,      *)
(* EWFSegment.ReadSectors, and the cache of a table's entries.  What       *)
(* differs, decoding a segment and reading a chunk, is in Evf1Reader and   *)
(* Evf2Reader; the actions here that need it take what it may come to as   *)
(* an argument.                                                            *)
(*                                                                         *)
(* The segments of a reader are decoded when first needed, table entries   *)
(* are read when first needed, and everything goes through the one cursor  *)
(* of each file.  A step is one of the loops' iterations or one access to  *)
(* a file; calls of several goroutines interleave between the steps.  A    *)
(* read of a file may fail; Seek does not.  A panic ends the call that     *)
(* meets it and the caller recovers.                                       *)
(***************************************************************************)
EXTENDS EwfReadAt, SequencesExt

CONSTANTS
    Clients,       \* goroutines that use the reader
    Files,         \* Files[f][t]: chunks in table t of segment file f of the image
    Given,         \* lists of files OpenEWF may be called with
    ChunkSectors,  \* sectors in a chunk
    Calls,         \* the methods called: "ReadAt", "Read", "Seek", "Segment"
    Offsets,       \* offsets given to ReadAt and Seek
    Lengths,       \* lengths of the buffers given to ReadAt and Read
    FaultKinds,    \* what may fail: "section", "entries", "chunk"
    FaultErrors,   \* with what: "failed", or "EOF" when the file ends early
    MaxFaults,     \* bound: reads that fail
    MaxPosition,   \* bound: how far Seek goes
    JunkLengths    \* how much wrong entries make readChunk read

ASSUME ReaderAssumption ==
    /\ Clients # {} /\ ChunkSectors \in Nat \ {0} /\ MaxFaults \in Nat /\ MaxPosition \in Nat
    /\ JunkLengths \subseteq Nat /\ Offsets \subseteq Nat /\ Lengths \subseteq Nat
    /\ FaultKinds \subseteq {"section", "entries", "chunk"}
    /\ FaultErrors \subseteq {"failed", "EOF"}
    /\ Calls \subseteq {"ReadAt", "Read", "Seek", "Segment"}
    \* A table without an entry is the only one of its file, and a file without
    \* a chunk the last one.
    /\ Files \in Seq(Seq(Nat)) /\ Given \subseteq Seq(DOMAIN Files) \ {<<>>}
    /\ \A f \in DOMAIN Files : \A t \in DOMAIN Files[f] :
         Files[f][t] = 0 => f = Len(Files) /\ Len(Files[f]) = 1
    /\ \A f \in DOMAIN Files : Files[f] = <<>> => f = Len(Files)
    \* Decoding is one step: goroutines get a reader that has nothing to decode.
    /\ \A c, d \in Clients : c # d => \A fs \in Given : Len(fs) = 1

VARIABLES
    opened,    \* what OpenEWF has come to: "no", "yes", "panic"
    segs,      \* ewf.segments, with the cursor of each one's file
    position,  \* ewf.position
    pc,        \* pc[c]: where in its call the goroutine c is
    frame,     \* frame[c]: the variables of that call
    result,    \* result[c]: the outcome of its last read, none while a call runs
    faults     \* number of failed reads so far

vars == <<opened, segs, position, pc, frame, result, faults>>

ChunkBytes == ChunkSectors * SectorSize

Total(ns) == LET sum[i \in 0..Len(ns)] == IF i = 0 THEN 0 ELSE sum[i - 1] + ns[i]
             IN  sum[Len(ns)]

\* Chunks of a file, of the files before it, and of its tables before one.
ChunksIn == [f \in DOMAIN Files |-> Total(Files[f])]
ChunksBefore == [f \in 1..(Len(Files) + 1) |-> Total(SubSeq(ChunksIn, 1, f - 1))]
TableStart == [f \in DOMAIN Files |->
                 [t \in DOMAIN Files[f] |-> Total(SubSeq(Files[f], 1, t - 1))]]
ImageChunks == ChunksBefore[Len(Files) + 1]
ImageSectors == ImageChunks * ChunkSectors

\* The bytes of chunk k of file f, and bytes that are none of the image's.
ChunkData(f, k) == BytesFrom((ChunksBefore[f] + k) * ChunkBytes, ChunkBytes)
Garbage(n) == [i \in 1..n |-> -1]

\* Where a file's cursor is: at section n, at the entries of table n, at chunk
\* n, or at no place that matters.
At(what, n) == [at |-> what, n |-> n]
Elsewhere == At("elsewhere", 0)

\* An EWFTableSection decoded from table t, whose first chunk is chunk `first`
\* of the file (FirstChunkNumber in evf2); entries is the state of its
\* Entries.Data: not allocated, allocated, read, or read from a wrong place.
NewTable(f, t, sectorOffset) ==
    [t |-> t, first |-> TableStart[f][t], count |-> Files[f][t], sectorCount |-> Files[f][t] * ChunkSectors,
     sectorOffset |-> sectorOffset, entries |-> "none"]

\* NewEWFSegment: the header of the file is read, the cursor is behind it.
NewSegment(f) ==
    [file |-> f, decoded |-> FALSE, volume |-> FALSE, sections |-> <<>>,
     tables |-> <<>>, tableOffsets |-> <<>>, sectorCount |-> 0,
     sectorOffset |-> 0, cursor |-> At("section", 1)]

\* The end of EWFSegment.Decode: chunkCount, sectorCount, sectorOffset.
Decoded(seg, link) ==
    LET counts == [i \in DOMAIN seg.tables |-> seg.tables[i].sectorCount]
    IN  [seg EXCEPT !.decoded = TRUE, !.sectorCount = Total(counts),
                    !.sectorOffset = IF link = <<>> THEN 0
                                     ELSE link[1].sectorOffset + link[1].sectorCount]

\* The loop of EWFSegment.Decode over the tables ts of a file, one after the
\* other: its local variable sectorOffset begins at 0, which is not kept in
\* tableOffsets; behind a table, which has an entry if it is not the only one,
\* it is no longer 0.
AddTables(seg, ts) ==
    LET sectors == [i \in DOMAIN ts |-> Files[seg.file][ts[i]] * ChunkSectors]
        offset == [i \in DOMAIN ts |-> Total(SubSeq(sectors, 1, i - 1))]
    IN  [seg EXCEPT
           !.tables = @ \o [i \in DOMAIN ts |-> NewTable(seg.file, ts[i], offset[i])],
           !.tableOffsets = @ \o SubSeq(offset, 2, Len(ts))]

\* The tables among some sections.
TablesIn(sections) ==
    FlattenSeq([i \in DOMAIN sections |->
                  IF sections[i].at = "table" THEN <<sections[i].n>> ELSE <<>>])

\* What a piece of code may come to: what it gives, and "ok", "error", "fault"
\* (an error because a read failed) or "panic".
Attempt(gives, out) == [gives |-> gives, out |-> out]

NoCall == [call |-> "none", off |-> 0, len |-> 0, seg |-> 0, sector |-> 0,
           count |-> 0, at |-> 0, left |-> 0, tab |-> 0, rest |-> 0,
           entry |-> "none", cpos |-> Elsewhere, buf |-> <<>>, hit |-> FALSE, alone |-> TRUE]

Init ==
    /\ opened = "no" /\ segs = <<>> /\ position = 0 /\ faults = 0
    /\ pc = [c \in Clients |-> "idle"]
    /\ frame = [c \in Clients |-> NoCall]
    /\ result = [c \in Clients |-> NoOutcome]

CanFail(kind) == kind \in FaultKinds /\ faults < MaxFaults

\* sort.SliceStable, by segment number.
Sorted(fs) ==
    {order \in {[i \in DOMAIN fs |-> fs[p[i]]] : p \in Bijection(DOMAIN fs, DOMAIN fs)} :
       \A i, j \in DOMAIN fs : i < j => order[i] <= order[j]}

(***************************************************************************)
(* OpenEWF: NewEWFSegment of every file, the sort by segment number, and   *)
(* Decode of the first segment, which for file f may come to decodes[f].  A *)
(* call that fails gives no reader.                                        *)
(***************************************************************************)
OpenEWF(decodes) ==
    /\ opened = "no"
    /\ \E fs \in Given : \E order \in Sorted(fs) : \E a \in decodes[Head(order)] :
         /\ opened' = CASE a.out = "ok" -> "yes" [] a.out = "panic" -> "panic"
                        [] OTHER -> "no"
         /\ segs' = IF a.out = "ok"
                    THEN <<a.gives>> \o [i \in 1..(Len(order) - 1) |-> NewSegment(order[i + 1])]
                    ELSE <<>>
         /\ faults' = faults + (IF a.out = "fault" THEN 1 ELSE 0)
    /\ UNCHANGED <<position, pc, frame, result>>

(***************************************************************************)
(* The beginning and the end of a call.                                    *)
(***************************************************************************)
Idle(c) == opened = "yes" /\ pc[c] = "idle"

Others(c) == {d \in Clients \ {c} : pc[d] # "idle"}

Begin(c, place, call) ==
    /\ pc' = [pc EXCEPT ![c] = place]
    /\ frame' = [d \in Clients |->
                   IF d = c THEN [call EXCEPT !.alone = Others(c) = {}]
                   ELSE IF d \in Others(c) THEN [frame[d] EXCEPT !.alone = FALSE]
                   ELSE frame[d]]
    /\ result' = [result EXCEPT ![c] = NoOutcome]
    /\ UNCHANGED <<opened, segs, position, faults>>

BeginRead(c, call, off, len) ==
    Begin(c, "find", [NoCall EXCEPT !.call = call, !.off = off, !.len = len, !.seg = 1,
                                    !.sector = off \div SectorSize,
                                    !.count = SectorsAsked(off, len)])

CallReadAt(c) == /\ Idle(c) /\ "ReadAt" \in Calls
                 /\ \E off \in Offsets, len \in Lengths : BeginRead(c, "ReadAt", off, len)

CallRead(c) == /\ Idle(c) /\ "Read" \in Calls
               /\ \E len \in Lengths : BeginRead(c, "Read", position, len)

\* Segment(index) is exported: a caller may ask for any of them at any time.
CallSegment(c) == /\ Idle(c) /\ "Segment" \in Calls
                  /\ \E i \in DOMAIN segs :
                       Begin(c, "asked", [NoCall EXCEPT !.call = "Segment", !.seg = i])

\* Size() counts the chunks the volume section or the case data declare.
Seek(c) ==
    /\ Idle(c) /\ "Seek" \in Calls
    /\ \E o \in Offsets, base \in {0, position, ImageChunks * ChunkBytes}, sign \in {1, -1} :
         LET newPos == base + sign * o
         IN  newPos \in 0..MaxPosition /\ position' = newPos
    /\ UNCHANGED <<opened, segs, pc, frame, result, faults>>

Call(c) == CallReadAt(c) \/ CallRead(c) \/ CallSegment(c) \/ Seek(c)

\* Mutant: Read does not add what it gave to the position.
EndUnmoved(c, data, err, hit) ==
    LET f == frame[c]
    IN  /\ pc' = [pc EXCEPT ![c] = "idle"]
        /\ frame' = [frame EXCEPT ![c] = [NoCall EXCEPT !.alone = f.alone, !.hit = hit]]
        /\ result' = IF f.call = "Segment" THEN result
                     ELSE [result EXCEPT ![c] = Outcome(f.off, f.len, data, err)]
        /\ position' = position

\* The call of c ends with len(data) bytes and err; frame keeps how it went.
End(c, data, err, hit) ==
    LET f == frame[c]
    IN  /\ pc' = [pc EXCEPT ![c] = "idle"]
        /\ frame' = [frame EXCEPT ![c] = [NoCall EXCEPT !.alone = f.alone, !.hit = hit]]
        /\ result' = IF f.call = "Segment" THEN result
                     ELSE [result EXCEPT ![c] = Outcome(f.off, f.len, data, err)]
        /\ position' = IF f.call = "Read" THEN position + Len(data) ELSE position

Return(c, data, err) == End(c, data, err, FALSE)

\* A read of the file fails, and every function on the way up returns its
\* error.  io.EOF among them: ReadAt takes it for the end of the image, and
\* returns it with no byte, as what was read before is dropped.
Fault(c) == /\ \E err \in FaultErrors : End(c, <<>>, err, TRUE)
            /\ faults' = faults + 1

\* A step of c that stays in its call.
Goto(c, place, f) == /\ pc' = [pc EXCEPT ![c] = place]
                     /\ frame' = [frame EXCEPT ![c] = f]
                     /\ UNCHANGED <<position, result>>

Quiet == UNCHANGED <<opened, segs, faults>>

\* Mutant: all bytes of the sectors read, not cut to the caller's buffer.
FinishUncut(c, err) ==
    LET f == frame[c]
        n == Len(f.buf) - (f.off % SectorSize)
    IN  Return(c, SubSeq(f.buf, (f.off % SectorSize) + 1, Len(f.buf)),
               IF n <= 0 THEN err ELSE "nil")

\* The end of ReadAt: the bytes the caller wanted, out of the sectors read.
Finish(c, err) ==
    LET f == frame[c]
        inside == f.off % SectorSize
        n == IF inside >= Len(f.buf) THEN 0 ELSE CopyLength(Len(f.buf) - inside, f.len)
    IN  Return(c, SubSeq(f.buf, inside + 1, inside + n),
               IF n = 0 THEN err ELSE "nil")

(***************************************************************************)
(* Finding the segments.                                                   *)
(***************************************************************************)

\* The segment the call of c is at, and elem.Prev(), a sequence of at most one.
SegmentOf(c) == segs[frame[c].seg]
LinkOf(c) == IF frame[c].seg = 1 THEN <<>> ELSE <<segs[frame[c].seg - 1]>>

\* The call to Segment(frame.seg) in calculateIndex, in the loop of
\* readSectors, or by the user, for a segment that is not decoded yet; Decode
\* may come to any of decodes.
DecodeSegment(c, decodes) ==
    LET i == frame[c].seg
    IN  /\ pc[c] \in {"find", "segment", "asked"}
        /\ pc[c] = "segment" => frame[c].count > 0
        /\ i \in DOMAIN segs /\ ~segs[i].decoded
        /\ \E a \in decodes :
             /\ segs' = [segs EXCEPT ![i] = a.gives]
             /\ CASE a.out = "ok" -> UNCHANGED <<pc, frame, position, result, faults>>
                  [] a.out = "fault" -> Fault(c)
                  [] OTHER -> Return(c, <<>>, a.out) /\ UNCHANGED faults
        /\ UNCHANGED opened

SegmentAsked(c) == /\ pc[c] = "asked" /\ segs[frame[c].seg].decoded
                   /\ Return(c, <<>>, "nil") /\ Quiet

\* Mutant: a segment before the one looked for is looked at again.
FindStuck(c) ==
    LET f == frame[c]
    IN  /\ pc[c] = "find"
        /\ \/ f.seg > Len(segs) /\ Return(c, <<>>, "range")
           \/ /\ f.seg <= Len(segs) /\ segs[f.seg].decoded
              /\ IF f.sector >= segs[f.seg].sectorOffset + segs[f.seg].sectorCount
                 THEN Goto(c, "find", f)
                 ELSE Goto(c, "segment", f)
        /\ Quiet

\* calculateIndex, one segment.
Find(c) ==
    LET f == frame[c]
    IN  /\ pc[c] = "find"
        /\ \/ f.seg > Len(segs) /\ Return(c, <<>>, "range")
           \/ /\ f.seg <= Len(segs) /\ segs[f.seg].decoded
              /\ IF f.sector >= segs[f.seg].sectorOffset + segs[f.seg].sectorCount
                 THEN Goto(c, "find", [f EXCEPT !.seg = @ + 1])
                 ELSE Goto(c, "segment", f)
        /\ Quiet

\* A turn of sort.Search's loop for the first of some offsets that is behind a
\* sector: the range i..j of the search is cut in half.
Halve(s, offsets, sector) ==
    LET h == (s.i + s.j) \div 2
    IN  IF s.i >= s.j THEN s
        ELSE IF offsets[h + 1] > sector THEN [s EXCEPT !.j = h]
        ELSE [s EXCEPT !.i = h + 1]

\* sort.Search(len(tableOffsets), tableOffsets[i] > sector), and the table it
\* stands for: a binary search, whatever the order of the offsets.
TableOf(offsets, sector) ==
    LET turn[k \in 0..Len(offsets)] ==
          IF k = 0 THEN [i |-> 0, j |-> Len(offsets)]
          ELSE Halve(turn[k - 1], offsets, sector)
    IN  turn[Len(offsets)].i + 1

\* readSectors, up to the call of EWFSegment.ReadSectors.
NextSegment(c) ==
    LET f == frame[c]
        s == segs[f.seg]
        n == Lesser(s.sectorCount - (f.sector - s.sectorOffset), f.count)
    IN  /\ pc[c] = "segment"
        /\ \/ f.count = 0 /\ Finish(c, "nil")
           \/ f.count > 0 /\ f.seg > Len(segs) /\ Finish(c, "EOF")
           \/ /\ f.count > 0 /\ f.seg <= Len(segs) /\ s.decoded
              /\ IF n <= 0 THEN Finish(c, "EOF")
                 ELSE Goto(c, "table",
                           [f EXCEPT !.at = f.sector - s.sectorOffset, !.left = n,
                                     !.tab = TableOf(s.tableOffsets, f.sector - s.sectorOffset),
                                     !.sector = @ + n, !.count = @ - n])
        /\ Quiet

\* Mutant: the loop over the tables stays at the table it has done.
AfterTableStuck(c, f) ==
    IF f.left = 0 \/ f.tab >= Len(segs[f.seg].tables)
    THEN Goto(c, "segment", [f EXCEPT !.seg = @ + 1])
    ELSE Goto(c, "table", f)

\* Goto the loop over the tables, or on to the next segment after the last.
AfterTable(c, f) ==
    IF f.left = 0 \/ f.tab >= Len(segs[f.seg].tables)
    THEN Goto(c, "segment", [f EXCEPT !.seg = @ + 1])
    ELSE Goto(c, "table", [f EXCEPT !.tab = @ + 1])

\* EWFSegment.ReadSectors, one table.  The number of sectors goes to make as
\* an unsigned integer: a negative one panics.
NextTable(c) ==
    LET f == frame[c]
        t == segs[f.seg].tables[f.tab]
        n == Lesser(t.sectorCount - (f.at - t.sectorOffset), f.left)
    IN  /\ pc[c] = "table"
        /\ CASE n < 0 -> Return(c, <<>>, "panic")
             [] n = 0 -> AfterTable(c, f)
             [] OTHER -> Goto(c, "chunk", [f EXCEPT !.rest = n, !.left = @ - n])
        /\ Quiet

(***************************************************************************)
(* Reading chunks.                                                         *)
(***************************************************************************)
Table(c) == segs[frame[c].seg].tables[frame[c].tab]

\* EWFTableSection.readSectors, up to the entry of the next chunk, which is
\* entry `index` of the table.
NextChunk(c, index) ==
    LET f == frame[c]
        t == Table(c)
    IN  /\ pc[c] = "chunk"
        /\ CASE f.rest = 0 -> AfterTable(c, f)
             [] f.rest > 0 /\ index \notin 0..(t.count - 1) -> Return(c, <<>>, "error")
             [] OTHER -> IF t.entries = "none" THEN Goto(c, "alloc", f)
                         ELSE Goto(c, "seek", [f EXCEPT !.entry = t.entries])
        /\ Quiet

SetCursor(c, cursor) == segs' = [segs EXCEPT ![frame[c].seg].cursor = cursor]

\* getEntry on entries not yet allocated: seek to them and allocate.
AllocEntries(c) ==
    /\ pc[c] = "alloc"
    /\ segs' = [segs EXCEPT ![frame[c].seg].cursor = At("entries", Table(c).t),
                            ![frame[c].seg].tables[frame[c].tab].entries = "zero"]
    /\ Goto(c, "fill", [frame[c] EXCEPT !.cpos = segs[frame[c].seg].cursor])
    /\ UNCHANGED <<opened, faults>>

\* getEntry: the read into the allocated entries.  At another place it reads
\* what is there, or the end of the file; a failed read leaves them zero.  The
\* deferred Seek puts the cursor back.
FillEntries(c) ==
    LET f == frame[c]
        cursor == segs[f.seg].cursor
        right == cursor = At("entries", Table(c).t)
        filled == IF right THEN "full" ELSE "junk"
    IN  /\ pc[c] = "fill"
        /\ \/ /\ segs' = [segs EXCEPT ![f.seg].cursor = f.cpos,
                                      ![f.seg].tables[f.tab].entries = filled]
              /\ Goto(c, "seek", [f EXCEPT !.entry = filled, !.cpos = Elsewhere])
              /\ UNCHANGED faults
           \/ /\ SetCursor(c, f.cpos)
              /\ \/ CanFail("entries") /\ Fault(c)
                 \/ ~right /\ Return(c, <<>>, "error") /\ UNCHANGED faults
        /\ UNCHANGED opened

\* Mutant: no Seek, the cursor is taken to be where the chunk is.
SeekChunkUnmoved(c, seeks) ==
    /\ pc[c] = "seek"
    /\ \E a \in seeks :
         IF a.out = "ok" THEN Goto(c, "data", frame[c]) ELSE Return(c, <<>>, a.out)
    /\ UNCHANGED <<opened, segs, faults>>

\* readChunk: the Seek to the chunk, and the allocation of a buffer of a size
\* that comes from the entries; seeks are the cursors and outcomes.
SeekChunk(c, seeks) ==
    /\ pc[c] = "seek"
    /\ \E a \in seeks :
         /\ SetCursor(c, a.cursor)
         /\ IF a.out = "ok" THEN Goto(c, "data", frame[c]) ELSE Return(c, <<>>, a.out)
    /\ UNCHANGED <<opened, faults>>

\* A read of chunk data that fails, where one may.
ChunkFaults == {Attempt(<<>>, "fault") : k \in {"chunk"} \cap {m \in FaultKinds : CanFail(m)}}

\* What may come of a read through entries that are not the table's.
JunkReads == {Attempt(Garbage(n), "ok") : n \in JunkLengths} \cup {Attempt(<<>>, "error")}

\* buf[i:j], which panics outside of buf; evf2 cuts j to the length of buf.
Slice(buf, i, j, cuts) ==
    LET end == IF cuts THEN Lesser(j, Len(buf)) ELSE j
    IN  IF i > end \/ end > Len(buf) THEN Attempt(<<>>, "panic")
        ELSE Attempt(SubSeq(buf, i + 1, end), "ok")

\* readChunk: the read, which may come to any of reads, and what readSectors
\* takes from the chunk.
ReadChunk(c, reads, cuts) ==
    LET f == frame[c]
        first == f.at % ChunkSectors
        n == Lesser(ChunkSectors - first, f.rest)
        taken(d) == IF n = ChunkSectors THEN Attempt(d, "ok")
                    ELSE Slice(d, first * SectorSize, (first + n) * SectorSize, cuts)
    IN  /\ pc[c] = "data"
        /\ SetCursor(c, Elsewhere)
        /\ \E a \in reads :
             LET b == IF a.out = "ok" THEN taken(a.gives) ELSE a
             IN  CASE b.out = "fault" -> Fault(c)
                   [] b.out = "ok" ->
                        /\ Goto(c, "chunk", [f EXCEPT !.buf = @ \o b.gives,
                                                      !.at = @ + n, !.rest = @ - n])
                        /\ UNCHANGED faults
                   [] OTHER -> Return(c, <<>>, b.out) /\ UNCHANGED faults
        /\ UNCHANGED opened

(***************************************************************************)
(* Properties of both readers.                                             *)
(***************************************************************************)
Places == {"idle", "asked", "find", "segment", "table", "chunk", "alloc", "fill",
           "seek", "data"}
Errors == {"none", "nil", "EOF", "range", "failed", "error", "panic"}
EntryStates == {"none", "zero", "full", "junk"}
Sections == [at : {"volume", "table", "done", "case", "hash"}, n : Nat]
Cursors == [at : {"section", "entries", "chunk", "elsewhere"}, n : Nat]
Segment == [file : DOMAIN Files, decoded : BOOLEAN, volume : BOOLEAN, sections : Seq(Sections),
            tables : Seq([t : Nat, first : Nat, count : Nat, sectorCount : Nat, sectorOffset : Nat,
                          entries : EntryStates]),
            tableOffsets : Seq(Nat), sectorCount : Nat, sectorOffset : Nat,
            cursor : Cursors]

TypeOK ==
    /\ opened \in {"no", "yes", "panic"} /\ segs \in Seq(Segment)
    /\ position \in Nat /\ faults \in 0..MaxFaults
    /\ pc \in [Clients -> Places]
    /\ \A c \in Clients :
         /\ frame[c].sector \in Nat /\ frame[c].count \in Nat /\ frame[c].at \in Nat
         /\ frame[c].left \in Nat /\ frame[c].rest \in Nat
         /\ pc[c] \in {"table", "chunk", "alloc", "fill", "seek", "data"} =>
              frame[c].tab \in DOMAIN segs[frame[c].seg].tables
         /\ result[c].err \in Errors
         /\ result[c].data \in Seq(Int) /\ Len(result[c].data) <= result[c].len

\* The reader has all segments of the image, and what it keeps of them is what
\* decoding each of them once, after the one before it, would give.
Intact ==
    /\ opened = "yes" /\ Len(segs) = Len(Files)
    /\ \A i \in DOMAIN segs :
         LET seg == segs[i]
         IN  /\ seg.file = i
             /\ ~seg.decoded => /\ seg.tables = <<>> /\ seg.sections = <<>>
                                /\ seg.cursor = At("section", 1)
             /\ seg.decoded =>
                  /\ seg.sectorOffset = ChunksBefore[i] * ChunkSectors
                  /\ seg.sectorCount = ChunksIn[i] * ChunkSectors
                  /\ Len(seg.tables) = Len(Files[i])
                  /\ \A t \in DOMAIN seg.tables :
                       /\ seg.tables[t].sectorOffset = TableStart[i][t] * ChunkSectors
                       /\ seg.tables[t].entries \in {"none", "full"}

\* The answer of the image, or an error of the file that failed the read.
IsRight(c) ==
    LET r == result[c]
    IN  \/ r = NoOutcome
        \/ r = ReadAt(ImageSectors, r.off, r.len)
        \/ frame[c].hit /\ r.data = <<>> /\ r.err \in FaultErrors

\* A read that ran alone on a reader whose state is intact returns exactly what
\* the image has there, whatever failed or ran before it: nothing that a call
\* leaves behind, other than a table or a segment it failed to read, matters.
RightWhenIntact ==
    \A c \in Clients : pc[c] = "idle" /\ frame[c].alone /\ Intact => IsRight(c)

\* The bytes a read gives are those of the image, whatever happened before and
\* whatever runs at the same time.
NeverWrongData ==
    \A c \in Clients :
      result[c].data = BytesFrom(result[c].off, Len(result[c].data))

\* Every call comes to its end: its loops make progress on any state a failure
\* has left behind, and no interleaving keeps one from finishing.
EveryCallReturns == \A c \in Clients : (pc[c] # "idle") ~> (pc[c] = "idle")

\* Only a read that failed and a caller of Segment may spoil what the reader
\* keeps.
Sound == Intact \/ (faults = 0 /\ "Segment" \notin Calls)

\* The reader as one that holds the image and answers from it: the calls of its
\* only client, one after the other.
Caller == CHOOSE c \in Clients : TRUE
Asked == LET f == frame[Caller] IN [call |-> f.call, off |-> f.off, len |-> f.len]

Reads == INSTANCE EwfReads WITH
             Sectors <- ImageSectors, MayFail <- FaultKinds # {},
             request <- Asked, answer <- result[Caller], sound <- Sound

\* Every ReadAt and every Read, first or repeated, gives the bytes of the image
\* or fails with no byte, as long as no failure has spoilt a segment or a table;
\* losing the data of a chunk never does.  Always, a Read moves the position by
\* exactly what it gave, and ReadAt, Segment and a call not ended move nothing.
ImplementsReads == Reads!Spec
=============================================================================
