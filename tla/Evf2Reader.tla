----------------------------- MODULE Evf2Reader -----------------------------
(***************************************************************************)
(* The EVF2 reader: EwfReader with EWFSegment.Decode and EWFTableSection   *)
(* of package evf2.  The descriptors of a segment are collected from the   *)
(* end of the file to its beginning, then the sections are decoded; each   *)
(* segment has its own case data and device information; an entry has the  *)
(* place and the size of a chunk, and a table says which is its first.     *)
(***************************************************************************)
EXTENDS EwfReader

\* The sections of file f that Decode computes with, and one of those behind
\* the tables.
SectionsOf ==
    [f \in DOMAIN Files |->
       <<At("case", 0)>> \o [t \in DOMAIN Files[f] |-> At("table", t)] \o <<At("hash", 0)>>]

\* The segment when the second loop has done the first k descriptors.
AfterSections(seg, k) ==
    LET done == SubSeq(seg.sections, 1, k)
    IN  [AddTables(seg, TablesIn(done)) EXCEPT
           !.volume = @ \/ \E i \in DOMAIN done : done[i].at = "case"]

\* EWFSegment.Decode.  Descriptors are put in front of those there already, of
\* a Decode that failed before; a failure keeps what has been put and decoded.
DecodeEvf2(seg, link) ==
    LET sections == SectionsOf[seg.file]
        read(k) == [seg EXCEPT !.sections = SubSeq(sections, k, Len(sections)) \o @]
        all == read(1)
        hasBody(k) == all.sections[k].at = "case" => ~AfterSections(all, k - 1).volume
        ks == {k \in DOMAIN all.sections : hasBody(k) /\ CanFail("section")}
    IN  {Attempt(Decoded(AfterSections(all, Len(all.sections)), link), "ok")}
        \cup {Attempt(read(k + 1), "fault") : k \in {i \in DOMAIN sections : CanFail("section")}}
        \cup {Attempt(AfterSections(all, k - 1), "fault") : k \in ks}

\* Mutant: the entry is counted from the first table of the segment.
IndexOfSegment(sector, table) == sector \div ChunkSectors

\* readSectors: the entry of the chunk at a sector of the segment, counted from
\* the table's FirstChunkNumber.
IndexEvf2(sector, table) == (sector \div ChunkSectors) - table.first

\* The Seek of readChunk: an entry still zero is the beginning of the file.
SeekEvf2(f) ==
    LET chunk == f.at \div ChunkSectors
        to(cursor, out) == [cursor |-> cursor, out |-> out]
    IN  CASE f.entry = "full" -> {to(At("chunk", chunk), "ok")}
          [] f.entry = "zero" -> {to(Elsewhere, "ok")}
          [] OTHER -> {to(Elsewhere, out) : out \in {"ok", "error"}}

\* The read of as many bytes as the entry says, none for an entry still zero,
\* and the decompression or removal of the checksum.
ReadEvf2(f) ==
    LET cursor == segs[f.seg].cursor
        there == Attempt(ChunkData(segs[f.seg].file, cursor.n), "ok")
    IN  IF f.entry = "zero" THEN {Attempt(<<>>, "ok")}
        ELSE ChunkFaults \cup
             IF f.entry # "full" \/ cursor.at # "chunk" THEN JunkReads
             ELSE IF cursor.n = f.at \div ChunkSectors THEN {there}
             ELSE {there, Attempt(<<>>, "error")}

Step(c) ==
    \/ DecodeSegment(c, DecodeEvf2(SegmentOf(c), LinkOf(c))) \/ SegmentAsked(c)
    \/ Find(c) \/ NextSegment(c) \/ NextTable(c) \/ NextChunk(c, IndexEvf2(frame[c].at, Table(c)))
    \/ AllocEntries(c) \/ FillEntries(c)
    \/ SeekChunk(c, SeekEvf2(frame[c])) \/ ReadChunk(c, ReadEvf2(frame[c]), TRUE)

Next == OpenEWF([f \in DOMAIN Files |-> DecodeEvf2(NewSegment(f), <<>>)]) \/ \E c \in Clients : Call(c) \/ Step(c)

Spec == Init /\ [][Next]_vars /\ \A c \in Clients : WF_vars(Step(c))
=============================================================================
