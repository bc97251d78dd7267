----------------------------- MODULE Evf1Reader -----------------------------
(***************************************************************************)
(* The EVF1 reader: EwfReader with EWFSegment.Decode and EWFTableSection   *)
(* of package evf1.  A segment is decoded forwards, from where the cursor  *)
(* of its file is; only the first file of an image has a volume section,   *)
(* the others get it from the segment before; an entry gives the place of  *)
(* a chunk, and its size is what lies before the next entry or the table.  *)
(***************************************************************************)
EXTENDS EwfReader

\* The sections of file f that Decode computes with.
SectionsOf ==
    [f \in DOMAIN Files |->
       (IF f = 1 THEN <<At("volume", 0)>> ELSE <<>>)
         \o [t \in DOMAIN Files[f] |-> At("table", t)] \o <<At("done", 0)>>]

\* The segment when the loop, begun at section `from`, has done those up to `to`.
AfterSections(seg, from, to) ==
    LET done == SubSeq(SectionsOf[seg.file], from, to)
    IN  [AddTables(seg, TablesIn(done)) EXCEPT
           !.volume = @ \/ \E i \in DOMAIN done : done[i].at = "volume"]

\* A segment that needs the volume, for a table or at the end, and has none.
Ended(seg, link) ==
    IF seg.volume THEN Attempt(Decoded(seg, link), "ok") ELSE Attempt(seg, "panic")

\* EWFSegment.Decode.  The read of a descriptor may fail and leave the cursor
\* before it or inside it; that of a body leaves it in the body.  Decode called
\* again starts from there: a local sectorOffset of 0, and bytes taken for a
\* descriptor, which end in an error or, when they look like a last section,
\* the loop.
DecodeEvf1(seg0, link) ==
    LET seg == [seg0 EXCEPT !.volume = @ \/ (link # <<>> /\ link[1].volume)]
        sections == SectionsOf[seg.file]
        from == seg.cursor.n
        until(k, cursor) == [AfterSections(seg, from, k) EXCEPT !.cursor = cursor]
        found(k) == seg.volume \/ \E i \in from..k : sections[i].at = "volume"
        stuck == {k \in from..Len(sections) : sections[k].at = "table" /\ ~found(k)}
        last == IF stuck = {} THEN Len(sections) ELSE Min(stuck)
        ks == {k \in from..last : CanFail("section")}
    IN  IF seg.cursor.at # "section"
        THEN {Attempt(seg, "error"), Ended(seg, link)}
        ELSE {IF stuck = {} THEN Ended(until(last, Elsewhere), link)
              ELSE Attempt(until(last - 1, Elsewhere), "panic")}
             \cup {Attempt(until(k - 1, At("section", k)), "fault") : k \in ks}
             \cup {Attempt(until(k - 1, Elsewhere), "fault") : k \in ks}

\* readSectors: the entry of the chunk at a sector of the segment.
IndexEvf1(sector, table) ==
    IF sector < table.sectorOffset THEN -1
    ELSE (sector - table.sectorOffset) \div ChunkSectors

\* The chunk of the segment's file that entry Index is for, and whether it is
\* the table's last, whose size is counted up to the table section.
EntryOf(f) ==
    LET seg == segs[f.seg]
        t == seg.tables[f.tab]
        index == IndexEvf1(f.at, t)
    IN  [start |-> t.first, chunk |-> t.first + index, last |-> index + 1 = t.count]

\* The Seek of readChunk and its make.  An entry still zero is the offset of
\* the table's first chunk, stored raw: the size is -4, or all up to the table.
\* Entries read from a wrong place may give any size and place.
SeekEvf1(f) ==
    LET e == EntryOf(f)
        to(cursor, out) == [cursor |-> cursor, out |-> out]
    IN  CASE f.entry = "full" -> {to(At("chunk", e.chunk), "ok")}
          [] f.entry = "zero" -> {to(At("chunk", e.start), IF e.last THEN "ok" ELSE "panic")}
          [] OTHER -> {to(Elsewhere, out) : out \in {"ok", "error", "panic"}}

\* The read of the chunk, its size known, and DecompressZlib.  At the place of
\* another chunk that one is decompressed, if enough of it is read.
ReadEvf1(f) ==
    LET cursor == segs[f.seg].cursor
        there == Attempt(ChunkData(segs[f.seg].file, cursor.n), "ok")
    IN  ChunkFaults \cup
        IF f.entry # "full" \/ cursor.at # "chunk" THEN JunkReads
        ELSE IF cursor.n = EntryOf(f).chunk THEN {there}
        ELSE {there, Attempt(<<>>, "error")}

\* A call goes on as long as it is scheduled: Go runs every goroutine, and no
\* step of a reader waits for anything.
Step(c) ==
    \/ DecodeSegment(c, DecodeEvf1(SegmentOf(c), LinkOf(c))) \/ SegmentAsked(c)
    \/ Find(c) \/ NextSegment(c) \/ NextTable(c) \/ NextChunk(c, IndexEvf1(frame[c].at, Table(c)))
    \/ AllocEntries(c) \/ FillEntries(c)
    \/ SeekChunk(c, SeekEvf1(frame[c])) \/ ReadChunk(c, ReadEvf1(frame[c]), FALSE)

Next ==
    \/ OpenEWF([f \in DOMAIN Files |-> DecodeEvf1(NewSegment(f), <<>>)])
    \/ \E c \in Clients : Call(c) \/ Step(c)

Spec == Init /\ [][Next]_vars /\ \A c \in Clients : WF_vars(Step(c))
=============================================================================
