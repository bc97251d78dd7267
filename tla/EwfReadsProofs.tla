--------------------------- MODULE EwfReadsProofs ---------------------------
(***************************************************************************)
(* A reader that has one client and was given the files of the whole image *)
(* implements EwfReads.  Course says what is true of the calls of the only *)
(* client, Clean of the segments of a reader that nothing has harmed, and  *)
(* Moved what a step does to what the caller sees.                         *)
(***************************************************************************)
EXTENDS EwfReaderProofs

\* A call that goes on is the call it was.
SameCall(f, g) == /\ g.alone = f.alone /\ g.hit = f.hit
                  /\ g.call = f.call /\ g.off = f.off /\ g.len = f.len

\* What a step does to the call of c: it goes on, ends, fails with the file, or
\* has decoded a segment.
Moves(c) ==
    \/ \E place, g : /\ place \notin {"idle", "asked"}
                     /\ Goto(c, place, g) /\ SameCall(frame[c], g)
    \/ \E data, err : Return(c, data, err) /\ err # "none"
    \/ Fault(c) /\ FaultKinds # {}
    \/ UNCHANGED <<pc, frame, position, result>>

\* What a piece of code may come to is told; a read fails only where one may.
MayCome(a) == a.out # "none" /\ (a.out = "fault" => FaultKinds # {})

LEMMA GoesOn ==
    ASSUME NEW c, NEW place, place \notin {"idle", "asked"}, NEW g, Goto(c, place, g),
           SameCall(frame[c], g)
    PROVE  Moves(c)
  BY Zenon DEF Moves

LEMMA Returns ==
    ASSUME NEW c, NEW data, NEW err, Return(c, data, err), err # "none"
    PROVE  Moves(c)
  <1>1. \E x, y : Return(c, x, y) /\ y # "none"
    OBVIOUS
  <1> QED
    BY <1>1 DEF Moves

LEMMA FinishMoves ==
    ASSUME NEW c, NEW err \in {"nil", "EOF"}, Finish(c, err)
    PROVE  Moves(c)
  <1> DEFINE f == frame[c]
             inside == f.off % SectorSize
             n == IF inside >= Len(f.buf) THEN 0 ELSE CopyLength(Len(f.buf) - inside, f.len)
             data == SubSeq(f.buf, inside + 1, inside + n)
             e == IF n = 0 THEN err ELSE "nil"
  <1>1. Return(c, data, e)
    BY Zenon DEF Finish
  <1>2. e # "none"
    OBVIOUS
  <1> HIDE DEF data, e
  <1> QED
    BY <1>1, <1>2, Returns

LEMMA SegmentAskedMoves ==
    ASSUME NEW c, SegmentAsked(c)
    PROVE  Moves(c)
  BY Returns DEF SegmentAsked

LEMMA FindMoves ==
    ASSUME NEW c, frame[c] \in Frames, Find(c)
    PROVE  Moves(c)
  <1> DEFINE f == frame[c]
             g == [f EXCEPT !.seg = @ + 1]
  <1>1. \/ Return(c, <<>>, "range") \/ Goto(c, "find", g) \/ Goto(c, "segment", f)
    BY Zenon DEF Find
  <1>2. SameCall(f, g) /\ SameCall(f, f)
    BY DEF Frames, SameCall
  <1> HIDE DEF g
  <1> QED
    BY <1>1, <1>2, GoesOn, Returns

LEMMA AfterTableMoves ==
    ASSUME NEW c, frame[c] \in Frames, AfterTable(c, frame[c])
    PROVE  Moves(c)
  <1> DEFINE f == frame[c]
             g == [f EXCEPT !.seg = @ + 1]
             h == [f EXCEPT !.tab = @ + 1]
  <1>1. Goto(c, "segment", g) \/ Goto(c, "table", h)
    BY Zenon DEF AfterTable
  <1>2. SameCall(f, g) /\ SameCall(f, h)
    BY DEF Frames, SameCall
  <1> HIDE DEF g, h
  <1> QED
    BY <1>1, <1>2, GoesOn

LEMMA NextSegmentMoves ==
    ASSUME NEW c, frame[c] \in Frames, NextSegment(c)
    PROVE  Moves(c)
  <1> DEFINE f == frame[c]
             s == segs[f.seg]
             n == Lesser(s.sectorCount - (f.sector - s.sectorOffset), f.count)
             tab == TableOf(s.tableOffsets, f.sector - s.sectorOffset)
             g == [f EXCEPT !.at = f.sector - s.sectorOffset, !.left = n, !.tab = tab,
                            !.sector = @ + n, !.count = @ - n]
  <1>1. \/ Finish(c, "nil") \/ Finish(c, "EOF") \/ Goto(c, "table", g)
    BY Zenon DEF NextSegment
  <1>2. SameCall(f, g)
    <2> HIDE DEF n, tab, s
    <2> QED
      BY DEF Frames, SameCall
  <1> HIDE DEF g
  <1> QED
    BY <1>1, <1>2, GoesOn, FinishMoves

LEMMA NextTableMoves ==
    ASSUME NEW c, frame[c] \in Frames, NextTable(c)
    PROVE  Moves(c)
  <1> DEFINE f == frame[c]
             t == segs[f.seg].tables[f.tab]
             n == Lesser(t.sectorCount - (f.at - t.sectorOffset), f.left)
             g == [f EXCEPT !.rest = n, !.left = @ - n]
  <1>1. \/ Return(c, <<>>, "panic") \/ AfterTable(c, f) \/ Goto(c, "chunk", g)
    <2> HIDE DEF n
    <2>1. CASE n < 0
      BY <2>1, Zenon DEF NextTable, n
    <2>2. CASE n = 0 /\ ~(n < 0)
      BY <2>2, Zenon DEF NextTable, n
    <2>3. CASE ~(n < 0) /\ n # 0
      BY <2>3, Zenon DEF NextTable, n
    <2> QED
      BY <2>1, <2>2, <2>3, Zenon
  <1>2. SameCall(f, g)
    <2> HIDE DEF n
    <2> QED
      BY DEF Frames, SameCall
  <1> HIDE DEF g
  <1> QED
    BY <1>1, <1>2, GoesOn, Returns, AfterTableMoves

LEMMA NextChunkMoves ==
    ASSUME NEW c, NEW index, frame[c] \in Frames, NextChunk(c, index)
    PROVE  Moves(c)
  <1> DEFINE f == frame[c]
             g == [f EXCEPT !.entry = Table(c).entries]
             out == f.rest > 0 /\ index \notin 0..(Table(c).count - 1)
  <1>1. \/ AfterTable(c, f) \/ Return(c, <<>>, "error")
        \/ Goto(c, "alloc", f) \/ Goto(c, "seek", g)
    <2>1. CASE f.rest = 0
      BY <2>1, Zenon DEF NextChunk
    <2>2. CASE f.rest # 0 /\ out
      BY <2>2, Zenon DEF NextChunk
    <2>3. CASE f.rest # 0 /\ ~out
      BY <2>3, Zenon DEF NextChunk
    <2> QED
      BY <2>1, <2>2, <2>3, Zenon
  <1>2. SameCall(f, g) /\ SameCall(f, f)
    BY DEF Frames, SameCall
  <1> HIDE DEF g
  <1> QED
    BY <1>1, <1>2, GoesOn, Returns, AfterTableMoves

LEMMA AllocEntriesMoves ==
    ASSUME NEW c, frame[c] \in Frames, AllocEntries(c)
    PROVE  Moves(c)
  <1> DEFINE f == frame[c]
             g == [f EXCEPT !.cpos = segs[f.seg].cursor]
  <1>1. Goto(c, "fill", g)
    BY DEF AllocEntries
  <1>2. SameCall(f, g)
    BY DEF Frames, SameCall
  <1> HIDE DEF g
  <1> QED
    BY <1>1, <1>2, GoesOn

LEMMA FillEntriesMoves ==
    ASSUME NEW c, frame[c] \in Frames, FillEntries(c)
    PROVE  Moves(c)
  <1> DEFINE f == frame[c]
             filled == IF segs[f.seg].cursor = At("entries", Table(c).t) THEN "full" ELSE "junk"
             g == [f EXCEPT !.entry = filled, !.cpos = Elsewhere]
  <1>1. \/ Goto(c, "seek", g) \/ Return(c, <<>>, "error")
        \/ CanFail("entries") /\ Fault(c)
    BY Zenon DEF FillEntries
  <1>2. SameCall(f, g)
    <2> HIDE DEF filled
    <2> QED
      BY DEF Frames, SameCall
  <1>3. CanFail("entries") => FaultKinds # {}
    BY DEF CanFail
  <1>4. Fault(c) /\ FaultKinds # {} => Moves(c)
    BY Zenon DEF Moves
  <1> HIDE DEF g
  <1> QED
    BY <1>1, <1>2, <1>3, <1>4, GoesOn, Returns

LEMMA SeekChunkMoves ==
    ASSUME NEW c, NEW seeks, frame[c] \in Frames, SeekChunk(c, seeks),
           \A a \in seeks : a.out # "none"
    PROVE  Moves(c)
  <1>1. \/ Goto(c, "data", frame[c]) \/ \E a \in seeks : Return(c, <<>>, a.out)
    BY Zenon DEF SeekChunk
  <1>2. SameCall(frame[c], frame[c])
    BY DEF SameCall
  <1> QED
    BY <1>1, <1>2, GoesOn, Returns

LEMMA ReadChunkMoves ==
    ASSUME NEW c, NEW reads, NEW cuts, frame[c] \in Frames, ReadChunk(c, reads, cuts),
           \A a \in reads : MayCome(a)
    PROVE  Moves(c)
  <1> DEFINE f == frame[c]
             first == f.at % ChunkSectors
             n == Lesser(ChunkSectors - first, f.rest)
             taken(d) == IF n = ChunkSectors THEN Attempt(d, "ok")
                         ELSE Slice(d, first * SectorSize, (first + n) * SectorSize, cuts)
             Read(a) == IF a.out = "ok" THEN taken(a.gives) ELSE a
             g(b) == [f EXCEPT !.buf = @ \o b.gives, !.at = @ + n, !.rest = @ - n]
  <1>1. PICK a \in reads :
          LET b == Read(a)
          IN  CASE b.out = "fault" -> Fault(c)
                [] b.out = "ok" -> Goto(c, "chunk", g(b)) /\ UNCHANGED faults
                [] OTHER -> Return(c, <<>>, b.out) /\ UNCHANGED faults
    BY Zenon DEF ReadChunk
  <1> DEFINE b == Read(a)
  <1>2. b.out # "none" /\ (b.out = "fault" => FaultKinds # {})
    <2>1. CASE a.out # "ok"
      BY <2>1 DEF MayCome
    <2>2. CASE a.out = "ok"
      <3>1. b = Attempt(a.gives, "ok")
              \/ b = Slice(a.gives, first * SectorSize, (first + n) * SectorSize, cuts)
        BY <2>2, Zenon
      <3>2. \A d, i, j : Slice(d, i, j, cuts).out \in {"ok", "panic"}
        BY DEF Slice, Attempt
      <3>3. Attempt(a.gives, "ok").out = "ok"
        BY DEF Attempt
      <3> HIDE DEF b, first, n
      <3> QED
        BY <3>1, <3>2, <3>3
    <2> QED
      BY <2>1, <2>2
  <1>3. \/ Goto(c, "chunk", g(b)) \/ Return(c, <<>>, b.out)
        \/ b.out = "fault" /\ Fault(c)
    <2> HIDE DEF g, b
    <2>1. CASE b.out = "fault"
      BY <1>1, <2>1 DEF b
    <2>2. CASE b.out = "ok"
      BY <1>1, <2>2 DEF b
    <2>3. CASE b.out \notin {"fault", "ok"}
      BY <1>1, <2>3 DEF b
    <2> QED
      BY <2>1, <2>2, <2>3
  <1>4. SameCall(f, g(b))
    <2> HIDE DEF b, n
    <2> QED
      BY DEF Frames, SameCall
  <1>5. Fault(c) /\ FaultKinds # {} => Moves(c)
    BY Zenon DEF Moves
  <1> HIDE DEF g, b
  <1> QED
    BY <1>2, <1>3, <1>4, <1>5, GoesOn, Returns

LEMMA DecodeSegmentMoves ==
    ASSUME NEW c, NEW decodes, DecodeSegment(c, decodes),
           \A a \in decodes : MayCome(a)
    PROVE  Moves(c)
  <1>1. PICK a \in decodes :
          CASE a.out = "ok" -> UNCHANGED <<pc, frame, position, result, faults>>
            [] a.out = "fault" -> Fault(c)
            [] OTHER -> Return(c, <<>>, a.out) /\ UNCHANGED faults
    BY Zenon DEF DecodeSegment
  <1>2. CASE a.out = "ok"
    BY <1>1, <1>2 DEF Moves
  <1>3. CASE a.out = "fault"
    BY <1>1, <1>3 DEF Moves, MayCome
  <1>4. CASE a.out \notin {"ok", "fault"}
    BY <1>1, <1>4, Returns DEF MayCome
  <1> QED
    BY <1>2, <1>3, <1>4

\* What is true of the calls of the only client c.
Course(c) ==
    /\ frame[c].alone
    /\ frame[c].hit => FaultKinds # {}
    /\ pc[c] # "idle" /\ frame[c].call = "Read" => frame[c].off = position
    /\ pc[c] = "asked" => "Segment" \in Calls
    /\ pc[c] = "idle" => frame[c].call = "none" /\ frame[c].off = 0 /\ frame[c].len = 0
    /\ pc[c] # "idle" => frame[c].call \in {"ReadAt", "Read", "Segment"}

LEMMA CourseMoves ==
    ASSUME NEW counted, Inv(counted), NEW c \in Clients, pc[c] # "idle", Course(c), Moves(c)
    PROVE  Course(c)'
  <1>1. pc \in [Clients -> Places] /\ frame \in [Clients -> Frames]
    BY DEF Inv
  <1>2. ASSUME NEW place, NEW g, place \notin {"idle", "asked"}, Goto(c, place, g),
               SameCall(frame[c], g)
        PROVE  Course(c)'
    <2>1. pc'[c] = place /\ frame'[c] = g /\ position' = position
      BY <1>1, <1>2 DEF Goto
    <2> QED
      BY <1>2, <2>1 DEF Course, SameCall
  <1>3. ASSUME NEW data, NEW err, NEW hit, End(c, data, err, hit), hit => FaultKinds # {}
        PROVE  Course(c)'
    <2>1. pc'[c] = "idle" /\ frame'[c] = [NoCall EXCEPT !.alone = frame[c].alone, !.hit = hit]
      BY <1>1, <1>3 DEF End
    <2>2. /\ frame'[c].alone = frame[c].alone /\ frame'[c].hit = hit
          /\ frame'[c].call = "none" /\ frame'[c].off = 0 /\ frame'[c].len = 0
      BY <2>1 DEF NoCall
    <2> QED
      BY <1>3, <2>1, <2>2 DEF Course
  <1>4. ASSUME NEW data, NEW err, Return(c, data, err)
        PROVE  Course(c)'
    BY <1>3, <1>4 DEF Return
  <1>5. ASSUME Fault(c), FaultKinds # {}
        PROVE  Course(c)'
    BY <1>3, <1>5 DEF Fault
  <1>6. ASSUME UNCHANGED <<pc, frame, position, result>>
        PROVE  Course(c)'
    BY <1>6 DEF Course
  <1> QED
    BY <1>2, <1>4, <1>5, <1>6 DEF Moves

LEMMA CourseBegin ==
    ASSUME NEW counted, Inv(counted), NEW c, Clients = {c}, NEW place, NEW call,
           Begin(c, place, call), {"alone", "hit", "call", "off"} \subseteq DOMAIN call,
           ~call.hit, place # "idle", call.call \in {"ReadAt", "Read", "Segment"},
           call.call = "Read" => call.off = position,
           place = "asked" => "Segment" \in Calls
    PROVE  Course(c)'
  <1>1. pc \in [Clients -> Places] /\ c \in Clients
    BY DEF Inv
  <1>2. Others(c) = {}
    BY DEF Others
  <1>3. pc'[c] = place /\ position' = position
    BY <1>1 DEF Begin
  <1>4. frame'[c] = [call EXCEPT !.alone = Others(c) = {}]
    BY <1>1, Zenon DEF Begin
  <1>5. frame'[c].alone = (Others(c) = {})
    BY <1>4
  <1>6. frame'[c].hit = call.hit /\ frame'[c].call = call.call /\ frame'[c].off = call.off
    BY <1>4
  <1> QED
    BY <1>2, <1>3, <1>5, <1>6 DEF Course

LEMMA CourseBeginRead ==
    ASSUME NEW counted, Inv(counted), NEW c, Clients = {c}, NEW call, NEW off, NEW len,
           BeginRead(c, call, off, len), call = "Read" => off = position,
           call \in {"ReadAt", "Read"}
    PROVE  Course(c)'
  <1> DEFINE sector == off \div SectorSize
             count == SectorsAsked(off, len)
             f == [NoCall EXCEPT !.call = call, !.off = off, !.len = len, !.seg = 1,
                                 !.sector = sector, !.count = count]
  <1>1. Begin(c, "find", f)
    BY Zenon DEF BeginRead
  <1> HIDE DEF sector, count
  <1>2. f.call = call /\ f.off = off /\ f.hit = FALSE
    BY DEF NoCall
  <1>3. {"alone", "hit", "call", "off"} \subseteq DOMAIN f
    BY DEF NoCall
  <1> HIDE DEF f
  <1> QED
    BY <1>1, <1>2, <1>3, CourseBegin

LEMMA CourseCall ==
    ASSUME NEW counted, Inv(counted), NEW c, Clients = {c}, Call(c), Course(c)
    PROVE  Course(c)'
  <1>1. CASE CallReadAt(c)
    <2>1. PICK off \in Offsets, len \in Lengths : BeginRead(c, "ReadAt", off, len)
      BY <1>1 DEF CallReadAt
    <2> QED
      BY <2>1, CourseBeginRead
  <1>2. CASE CallRead(c)
    <2>1. PICK len \in Lengths : BeginRead(c, "Read", position, len)
      BY <1>2 DEF CallRead
    <2> QED
      BY <2>1, CourseBeginRead
  <1>3. CASE CallSegment(c)
    <2>1. "Segment" \in Calls
      BY <1>3, Zenon DEF CallSegment
    <2>2. PICK i \in DOMAIN segs :
            Begin(c, "asked", [NoCall EXCEPT !.call = "Segment", !.seg = i])
      BY <1>3, Zenon DEF CallSegment
    <2> DEFINE f == [NoCall EXCEPT !.call = "Segment", !.seg = i]
    <2>3. f.call = "Segment" /\ f.hit = FALSE /\ {"alone", "hit", "call", "off"} \subseteq DOMAIN f
      BY DEF NoCall
    <2>4. Begin(c, "asked", f)
      BY <2>2
    <2> HIDE DEF f
    <2> QED
      BY <2>1, <2>3, <2>4, CourseBegin
  <1>4. CASE Seek(c)
    <2>1. pc[c] = "idle" /\ UNCHANGED <<pc, frame>>
      BY <1>4, Zenon DEF Seek, Idle
    <2> QED
      BY <2>1 DEF Course
  <1> QED
    BY <1>1, <1>2, <1>3, <1>4 DEF Call

\* No read has failed, and nobody has asked for a segment.
Unharmed == opened = "yes" /\ faults = 0 /\ "Segment" \notin Calls

\* Then every segment is new or was decoded once, behind the one before it.
Clean(counted) ==
    Unharmed =>
      /\ Sane
      /\ \A i \in 1..Len(segs) : ~segs[i].decoded => segs[i] = NewSegment(i)
      /\ \A i \in 1..Len(segs) : segs[i].decoded /\ counted => segs[i].volume

LEMMA CleanIsPristine ==
    ASSUME NEW counted, Clean(counted), Unharmed
    PROVE  Pristine
  <1>1. \A i : NewSegment(i).cursor.at = "section"
    BY DEF NewSegment, At
  <1>2. Sane /\ \A i \in 1..Len(segs) : ~segs[i].decoded => segs[i] = NewSegment(i)
    BY DEF Clean
  <1> QED
    BY <1>1, <1>2, Zenon DEF Pristine

LEMMA CleanSame ==
    ASSUME NEW counted, NEW c, Clients = {c}, Clean(counted), pc[c] \notin {"alloc", "fill"},
           UNCHANGED <<opened, segs>>, faults' = 0 => faults = 0
    PROVE  Clean(counted)'
  <1> SUFFICES ASSUME Unharmed'
               PROVE  /\ Sane'
                      /\ \A i \in 1..Len(segs') : ~segs'[i].decoded => segs'[i] = NewSegment(i)
                      /\ \A i \in 1..Len(segs') : segs'[i].decoded /\ counted => segs'[i].volume
    BY DEF Clean
  <1>1. Unharmed
    BY DEF Unharmed
  <1>2. Sane
    BY <1>1 DEF Clean
  <1>3. ASSUME NEW i \in 1..Len(segs), segs[i].decoded
        PROVE  GoodSegment(segs'[i]) /\ \A t \in 1..Len(segs'[i].tables) : Filled(i, t)'
    <2>1. GoodSegment(segs[i]) /\ \A t \in 1..Len(segs[i].tables) : Filled(i, t)
      BY <1>2, <1>3 DEF Sane
    <2>2. \A t \in 1..Len(segs[i].tables) : segs[i].tables[t].entries \in {"none", "full"}
      BY <2>1 DEF Filled
    <2> QED
      BY <2>1, <2>2 DEF Filled, GoodSegment
  <1>4. Sane'
    BY <1>2, <1>3 DEF Sane, GoodSegment
  <1> QED
    BY <1>1, <1>4 DEF Clean

\* A segment that was good when it was decoded stays good.
LEMMA GoodAfter ==
    ASSUME NEW s, NEW t, SegmentOK(s), SegmentOK(t), Later(s, t), s.decoded, GoodSegment(s)
    PROVE  GoodSegment(t)
  <1>1. /\ t.file = s.file /\ t.sectorOffset = s.sectorOffset /\ t.sectorCount = s.sectorCount
        /\ t.tableOffsets = s.tableOffsets /\ Len(t.tables) = Len(s.tables)
        /\ \A j \in DOMAIN s.tables : SameTable(s.tables[j], t.tables[j])
    BY DEF Later
  <1>2. DOMAIN s.tables = 1..Len(s.tables)
    BY SegmentFields, LenProperties DEF SegmentOK
  <1> DEFINE k == Len(Files[s.file])
  <1> HIDE DEF k
  <1>3. TablesUpTo(s, k)
    BY DEF GoodSegment, k
  <1>4. ASSUME NEW j \in 1..k
        PROVE  SameTable(NewTable(s.file, j, Start(s.file, j)), t.tables[j])
    <2>1. SameTable(NewTable(s.file, j, Start(s.file, j)), s.tables[j]) /\ Len(s.tables) = k
      BY <1>3 DEF TablesUpTo
    <2>2. SameTable(s.tables[j], t.tables[j])
      BY <1>1, <1>2, <2>1
    <2> QED
      BY <2>1, <2>2 DEF SameTable
  <1>5. TablesUpTo(t, k)
    BY <1>1, <1>3, <1>4 DEF TablesUpTo
  <1> QED
    BY <1>1, <1>5 DEF GoodSegment, k

\* One segment changes, to a good one.
LEMMA CleanStep ==
    ASSUME NEW counted, NEW c, Clients = {c}, Inv(counted), Clean(counted), Unharmed,
           opened' = opened, NEW i \in 1..Len(segs), NEW new, segs' = [segs EXCEPT ![i] = new],
           pc[c] \in {"alloc", "fill"} => frame[c].seg = i,
           new.decoded, new.file = i, GoodSegment(new), counted => new.volume,
           \A t \in 1..Len(new.tables) : Filled(i, t)'
    PROVE  Clean(counted)'
  <1>1. segs \in Seq(Segment) /\ Len(segs) \in Nat
    BY LenProperties DEF Inv, SegsOK
  <1>2. /\ Len(segs') = Len(segs) /\ segs'[i] = new
        /\ \A j \in 1..Len(segs) : j # i => segs'[j] = segs[j]
    BY <1>1, LenProperties
  <1>3. Sane
    BY DEF Clean
  <1>4. ASSUME NEW j \in 1..Len(segs), segs'[j].decoded
        PROVE  GoodSegment(segs'[j]) /\ \A t \in 1..Len(segs'[j].tables) : Filled(j, t)'
    <2>1. CASE j = i
      BY <1>2, <2>1
    <2>2. CASE j # i
      <3>1. segs'[j] = segs[j]
        BY <1>2, <2>2
      <3>2. GoodSegment(segs[j]) /\ \A t \in 1..Len(segs[j].tables) : Filled(j, t)
        BY <1>3, <1>4, <3>1 DEF Sane
      <3>3. \A t \in 1..Len(segs[j].tables) : segs[j].tables[t].entries \in {"none", "full"}
        BY <2>2, <3>2 DEF Filled
      <3> QED
        BY <3>1, <3>2, <3>3 DEF Filled
    <2> QED
      BY <2>1, <2>2
  <1>5. \A j \in 1..Len(segs) : segs'[j].file = j
    BY <1>2, <1>3 DEF Sane
  <1>6. Sane'
    BY <1>2, <1>3, <1>4, <1>5 DEF Sane, GoodSegment
  <1>7. \A j \in 1..Len(segs) : ~segs'[j].decoded => segs'[j] = NewSegment(j)
    BY <1>2 DEF Clean
  <1>8. \A j \in 1..Len(segs) : segs'[j].decoded /\ counted => segs'[j].volume
    BY <1>2 DEF Clean
  <1> QED
    BY <1>2, <1>6, <1>7, <1>8 DEF Clean

\* A step in a table changes the segment: it is as good as it was.
LEMMA InTableClean ==
    ASSUME NEW counted, NEW c, Clients = {c}, Inv(counted), Clean(counted), Unharmed,
           opened' = opened, pc[c] \in InTable, SegsStep, NEW i, frame[c].seg = i, NEW new,
           segs' = [segs EXCEPT ![i] = new], new.volume = segs[i].volume,
           \A t \in 1..Len(new.tables) : Filled(i, t)'
    PROVE  Clean(counted)'
  <1>1. i \in 1..Len(segs) /\ segs[i].decoded
    BY OfTable
  <1>2. segs \in Seq(Segment) /\ Len(segs) \in Nat
    BY LenProperties DEF Inv, SegsOK
  <1>3. segs'[i] = new /\ Len(segs') = Len(segs)
    BY <1>1, <1>2, LenProperties
  <1>4. SegmentOK(segs[i]) /\ SegmentOK(new) /\ Later(segs[i], new)
    BY <1>1, <1>3 DEF SegsStep, Stays, SegsOK, Inv
  <1>5. Sane /\ (counted => segs[i].volume)
    BY <1>1 DEF Clean
  <1>6. GoodSegment(segs[i]) /\ segs[i].file = i
    BY <1>1, <1>5 DEF Sane
  <1>7. new.decoded /\ new.file = i
    BY <1>1, <1>4, <1>6 DEF Later
  <1>8. GoodSegment(new)
    BY <1>1, <1>4, <1>6, GoodAfter
  <1>9. counted => new.volume
    BY <1>5
  <1>10. pc[c] \in {"alloc", "fill"} => frame[c].seg = i
    OBVIOUS
  <1> QED
    BY <1>1, <1>7, <1>8, <1>9, <1>10, CleanStep

LEMMA CursorClean ==
    ASSUME NEW counted, NEW c, Clients = {c}, Inv(counted), Clean(counted), Unharmed,
           opened' = opened, pc[c] \in {"seek", "data"}, NEW cursor \in Cursors,
           cursor.at # "section", SetCursor(c, cursor)
    PROVE  Clean(counted)'
  <1>0. PICK i : frame[c].seg = i
    OBVIOUS
  <1> DEFINE new == [segs[i] EXCEPT !.cursor = cursor]
  <1>1. pc[c] \in InTable
    BY DEF InTable
  <1>2. i \in 1..Len(segs) /\ segs \in Seq(Segment) /\ segs[i] \in Segment /\ segs[i].decoded
    BY <1>0, <1>1, OfTable DEF Inv, SegsOK, SegmentOK
  <1>3. SegsStep
    BY <1>1, SetCursorOK
  <1>4. segs' = [segs EXCEPT ![i].cursor = cursor]
    BY <1>0 DEF SetCursor
  <1>5. segs' = [segs EXCEPT ![i] = new]
    BY <1>2, <1>4, ChangedCursor
  <1>6. segs'[i] = new
    BY <1>2, <1>5, LenProperties
  <1>7. new.volume = segs[i].volume /\ new.tables = segs[i].tables
    BY <1>2 DEF Segment
  <1> HIDE DEF new
  <1>8. \A t \in 1..Len(segs[i].tables) : Filled(i, t)
    BY <1>2 DEF Clean, Sane
  <1>9. \A t \in 1..Len(segs[i].tables) : segs[i].tables[t].entries \in {"none", "full"}
    BY <1>8 DEF Filled
  <1>10. \A t \in 1..Len(new.tables) : Filled(i, t)'
    BY <1>6, <1>7, <1>9 DEF Filled
  <1> QED
    BY <1>0, <1>1, <1>3, <1>5, <1>7, <1>10, InTableClean

\* The entries of the table that the call is at.
SetEntries(c, cursor, e) ==
    segs' = [segs EXCEPT ![frame[c].seg].cursor = cursor,
                         ![frame[c].seg].tables[frame[c].tab].entries = e]

LEMMA EntriesClean ==
    ASSUME NEW counted, NEW c, Clients = {c}, Inv(counted), Clean(counted), Unharmed,
           opened' = opened, pc[c] \in {"alloc", "fill"}, NEW cursor \in Cursors,
           cursor.at = "section" => cursor.n # 0, NEW e \in EntryStates,
           SetEntries(c, cursor, e),
           \/ e = "full"
           \/ pc'[c] = "fill" /\ frame'[c].seg = frame[c].seg /\ frame'[c].tab = frame[c].tab
    PROVE  Clean(counted)'
  <1>00. PICK i, tab : frame[c].seg = i /\ frame[c].tab = tab
    OBVIOUS
  <1> DEFINE new == WithEntries(segs[i], cursor, tab, e)
  <1>0. pc[c] \in InTable /\ c \in Clients
    BY DEF InTable
  <1>1. /\ i \in 1..Len(segs) /\ segs \in Seq(Segment) /\ segs[i] \in Segment
        /\ tab \in DOMAIN segs[i].tables /\ SegmentOK(segs[i]) /\ segs[i].decoded
    BY <1>00, <1>0, OfTable, Zenon DEF Inv, SegsOK, SegmentOK
  <1>2. SegsStep
    BY <1>0, SetEntriesOK, Zenon DEF SetEntries
  <1>3. segs' = [segs EXCEPT ![i].cursor = cursor, ![i].tables[tab].entries = e]
    BY <1>00, Zenon DEF SetEntries
  <1>4. \/ e = "full"
        \/ pc'[c] = "fill" /\ frame'[c].seg = i /\ frame'[c].tab = tab
    BY <1>00, Zenon
  <1>5. \A t \in 1..Len(segs[i].tables) : t # tab => segs[i].tables[t].entries \in {"none", "full"}
    <2>1. \A t \in 1..Len(segs[i].tables) : Filled(i, t)
      BY <1>1 DEF Clean, Sane
    <2> QED
      BY <1>00, <2>1, Zenon DEF Filled
  <1>6. segs' = [segs EXCEPT ![i] = new]
    BY <1>1, <1>3, LenProperties, Zenon DEF WithEntries
  <1>7. segs'[i] = new
    BY <1>1, <1>6, LenProperties
  <1>8. new.volume = segs[i].volume
    BY <1>1 DEF Segment, WithEntries
  <1>9. /\ Len(new.tables) = Len(segs[i].tables)
        /\ \A j \in DOMAIN segs[i].tables :
             new.tables[j].entries = IF j = tab THEN e ELSE segs[i].tables[j].entries
    BY <1>1, ChangeEntries
  <1>10. DOMAIN segs[i].tables = 1..Len(segs[i].tables)
    BY <1>1, SegmentFields, LenProperties, Zenon
  <1> HIDE DEF new
  <1>11. ASSUME NEW t \in 1..Len(new.tables)
         PROVE  Filled(i, t)'
    <2>1. CASE t # tab
      BY <1>5, <1>7, <1>9, <1>10, <2>1 DEF Filled
    <2>2. CASE t = tab
      BY <1>0, <1>4, <1>7, <1>9, <1>10, <2>2 DEF Filled
    <2> QED
      BY <2>1, <2>2
  <1>12. \A t \in 1..Len(new.tables) : Filled(i, t)'
    BY <1>11
  <1>13. pc[c] \in InTable /\ frame[c].seg = i
    BY <1>0, <1>00
  <1> QED
    BY <1>2, <1>6, <1>8, <1>12, <1>13, InTableClean

LEMMA AllocEntriesClean ==
    ASSUME NEW counted, NEW c, Clients = {c}, Inv(counted), Clean(counted), AllocEntries(c)
    PROVE  Clean(counted)'
  <1> SUFFICES ASSUME Unharmed'
               PROVE  Clean(counted)'
    BY DEF Clean
  <1> DEFINE f == frame[c]
             g == [f EXCEPT !.cpos = segs[f.seg].cursor]
             cursor == At("entries", Table(c).t)
  <1>1. /\ pc[c] = "alloc" /\ opened' = opened /\ faults' = faults
        /\ Goto(c, "fill", g) /\ SetEntries(c, cursor, "zero")
    BY Zenon DEF AllocEntries, SetEntries
  <1>2. pc[c] \in InTable /\ f \in Frames /\ c \in Clients
    BY <1>1 DEF InTable, Inv
  <1>3. cursor \in Cursors /\ cursor.at # "section" /\ "zero" \in EntryStates
    <2>1. Table(c).t \in Nat
      BY <1>2, OfTable, Zenon DEF Tables
    <2> QED
      BY <2>1 DEF At, Cursors, EntryStates
  <1>4. g.seg = f.seg /\ g.tab = f.tab
    BY <1>2 DEF Frames
  <1>5. pc'[c] = "fill" /\ frame'[c] = g
    <2> HIDE DEF g
    <2> QED
      BY <1>1, <1>2 DEF Goto, Inv
  <1>6. pc'[c] = "fill" /\ frame'[c].seg = frame[c].seg /\ frame'[c].tab = frame[c].tab
    BY <1>4, <1>5
  <1>7. Unharmed /\ pc[c] \in {"alloc", "fill"}
    BY <1>1 DEF Unharmed
  <1> HIDE DEF f, g, cursor
  <1> QED
    BY <1>1, <1>3, <1>6, <1>7, EntriesClean

LEMMA FillEntriesClean ==
    ASSUME NEW counted, NEW c, Clients = {c}, Inv(counted), Clean(counted),
           More(counted), Course(c), FillEntries(c)
    PROVE  Clean(counted)'
  <1> SUFFICES ASSUME Unharmed'
               PROVE  Clean(counted)'
    BY DEF Clean
  <1> DEFINE f == frame[c]
             right == segs[f.seg].cursor = At("entries", Table(c).t)
             filled == IF right THEN "full" ELSE "junk"
  <1>1. pc[c] = "fill" /\ opened' = opened
    BY DEF FillEntries
  <1>2. pc[c] \in InTable /\ f \in Frames /\ c \in Clients
    BY <1>1 DEF InTable, Inv
  <1>3. f.cpos \in Cursors /\ (f.cpos.at = "section" => f.cpos.n # 0)
    BY <1>2, OfCall, FrameFields
  <1>4. \/ SetEntries(c, f.cpos, filled) /\ faults' = faults
        \/ SetCursor(c, f.cpos) /\ Fault(c)
        \/ ~right /\ faults' = faults
    BY Zenon DEF FillEntries, SetEntries
  <1>5. faults \in Nat
    BY <1>2, OfCall DEF Inv
  <1>6. ~Fault(c)
    <2>1. faults' = 0
      BY DEF Unharmed
    <2>2. Fault(c) => faults' = faults + 1
      BY Zenon DEF Fault
    <2>3. faults + 1 # 0
      BY <1>5
    <2> QED
      BY <2>1, <2>2, <2>3
  <1>7. Unharmed
    BY <1>1, <1>4, <1>6 DEF Unharmed
  <1>8. right
    <2>1. Sane
      BY <1>7 DEF Clean
    <2>2. Progress(pc[c], f, segs)
      BY <1>1, <1>2, <2>1 DEF More, Goes, Course
    <2>3. segs[f.seg].cursor = At("entries", f.tab)
      BY <1>1, <2>2 DEF Progress
    <2>4. Table(c).t = f.tab
      BY <1>2, <2>1, TableAt DEF IsGoodTable
    <2> QED
      BY <2>3, <2>4
  <1>9. SetEntries(c, f.cpos, "full")
    BY <1>4, <1>6, <1>8
  <1>10. "full" \in EntryStates /\ pc[c] \in {"alloc", "fill"}
    BY <1>1 DEF EntryStates
  <1> HIDE DEF f, right, filled
  <1> QED
    BY <1>1, <1>3, <1>7, <1>9, <1>10, EntriesClean

(***************************************************************************)
(* Decoding a new segment.                                                 *)
(***************************************************************************)
\* The sectors of all tables of a file are the sectors of the file.
LEMMA SectorsOfTables ==
    ASSUME NEW seg, SegmentOK(seg), NEW m \in Nat, Len(Files[seg.file]) = m, TablesUpTo(seg, m)
    PROVE  Total([i \in DOMAIN seg.tables |-> seg.tables[i].sectorCount]) = SectorsIn(seg.file)
  <1> DEFINE f == seg.file
             counts == [i \in DOMAIN seg.tables |-> seg.tables[i].sectorCount]
  <1>1. f \in DOMAIN Files /\ seg.tables \in Seq(Tables)
    BY SegmentFields DEF SegmentOK
  <1>2. Len(seg.tables) = m /\ DOMAIN seg.tables = 1..m
    BY <1>1, LenProperties DEF TablesUpTo
  <1>3. HasTables(f, m)
    BY <1>1, TablesLaidOut
  <1>4. \A i \in 1..m : seg.tables[i].sectorCount = SectorsOfTable(f, i)
    BY GoodTable DEF IsGoodTable
  <1>5. \A i \in 1..m : counts[i] = SectorsOfTable(f, i) /\ counts[i] \in Nat
    BY <1>2, <1>3, <1>4 DEF HasTables
  <1>6. counts \in Seq(Nat) /\ Len(counts) = m
    <2>1. counts \in [1..m -> Nat]
      BY <1>2, <1>5
    <2> QED
      BY <2>1, SeqDef, LenProperties
  <1> HIDE DEF f, counts
  <1>7. PICK g : IsPrefixSums(g, counts, m)
    BY <1>6, PrefixSums
  <1>8. g[0] = 0 /\ (\A i \in 1..m : g[i] = g[i - 1] + counts[i]) /\ Total(counts) = g[m]
    BY <1>7 DEF IsPrefixSums
  <1>9. \A i \in Nat : i + 1 <= m => g[i + 1] = Ends(f, i + 1)
    <2> DEFINE S == {i \in Nat : i + 1 <= m => g[i + 1] = Ends(f, i + 1)}
    <2>1. 0 \in S
      <3> SUFFICES ASSUME 1 <= m
                   PROVE  g[1] = Ends(f, 1)
        OBVIOUS
      <3>1. g[1] = g[1 - 1] + counts[1]
        BY <1>8
      <3>2. Ends(f, 1) = Start(f, 1) + SectorsOfTable(f, 1) /\ Start(f, 1) = 0
        BY <1>3 DEF HasTables
      <3>3. counts[1] = SectorsOfTable(f, 1) /\ counts[1] \in Nat
        BY <1>5
      <3> QED
        BY <1>8, <3>1, <3>2, <3>3
    <2>2. ASSUME NEW i \in S
          PROVE  i + 1 \in S
      <3> SUFFICES ASSUME (i + 1) + 1 <= m
                   PROVE  g[(i + 1) + 1] = Ends(f, (i + 1) + 1)
        OBVIOUS
      <3>1. g[i + 1] = Ends(f, i + 1)
        OBVIOUS
      <3>2. PICK j \in 1..m : j = i + 1 /\ j + 1 \in 1..m /\ (j + 1) - 1 = j
        OBVIOUS
      <3>3. g[j + 1] = g[j] + counts[j + 1]
        <4>1. g[j + 1] = g[(j + 1) - 1] + counts[j + 1]
          BY <1>8, <3>2
        <4> QED
          BY <3>2, <4>1
      <3>4. /\ Start(f, j + 1) = Ends(f, j)
            /\ Ends(f, j + 1) = Start(f, j + 1) + SectorsOfTable(f, j + 1)
        <4>1. j < m
          BY <3>2
        <4> QED
          BY <1>3, <3>2, <4>1 DEF HasTables
      <3>5. counts[j + 1] = SectorsOfTable(f, j + 1)
        BY <1>5, <3>2
      <3> QED
        BY <3>1, <3>2, <3>3, <3>4, <3>5
    <2>3. S \subseteq Nat
      OBVIOUS
    <2> HIDE DEF S
    <2>4. \A i \in Nat : i \in S
      BY <2>1, <2>2, <2>3, SetInduction
    <2> QED
      BY <2>4 DEF S
  <1>10. g[m] = SectorsIn(f)
    <2>1. CASE m = 0
      BY <1>3, <1>8, <2>1 DEF HasTables
    <2>2. CASE m # 0
      <3>1. PICK i \in Nat : i + 1 = m
        <4>1. m - 1 \in Nat /\ (m - 1) + 1 = m
          BY <2>2
        <4> QED
          BY <4>1
      <3>2. g[m] = Ends(f, m)
        BY <1>9, <3>1
      <3>3. Ends(f, m) = SectorsIn(f)
        BY <1>3, <2>2 DEF HasTables
      <3> QED
        BY <3>2, <3>3
    <2> QED
      BY <2>1, <2>2
  <1> QED
    BY <1>8, <1>10 DEF f, counts

LEMMA TablesOfFile ==
    ASSUME NEW f \in DOMAIN Files, NEW m \in Nat, Len(Files[f]) = m
    PROVE  TablesIn(SectionsOf[f]) = Numbers(1, m)
  <1> DEFINE s == SectionsOf[f]
  <1>1. s \in Seq(Sections) /\ Len(s) = FirstSections(f) + m + 1
        /\ IsNumbered(s, FirstSections(f), m)
    BY SectionsNumbered
  <1> HIDE DEF s
  <1>2. PICK z \in Nat, k \in Nat, lo \in Nat :
          z = 0 /\ lo = FirstSections(f) /\ k = lo + m + 1
    BY DEF FirstSections
  <1>3. IsRun(s, lo, m, z, k)
    <2>1. k # 0 => z + k <= Len(s)
      BY <1>1, <1>2
    <2>2. IsNumbered(s, lo, m)
      BY <1>1, <1>2
    <2> QED
      BY <1>1, <2>1, <2>2, TablesInPart
  <1>4. z + 1 = 1 /\ z + k = Len(s) /\ k = Len(s)
    BY <1>1, <1>2
  <1>5. TablesAmong(lo, m, z) = 0 /\ TablesAmong(lo, m, z + k) = m
    BY <1>2 DEF TablesAmong
  <1>6. TablesIn(SubSeq(s, z + 1, z + k)) = Numbers(0 + 1, m - 0)
    BY <1>3, <1>5 DEF IsRun
  <1>7. SubSeq(s, 1, Len(s)) = s
    BY <1>1, SubSeqFull
  <1>8. 0 + 1 = 1 /\ m - 0 = m
    OBVIOUS
  <1> QED
    BY <1>4, <1>6, <1>7, <1>8 DEF s

\* All tables of the file, no entry of which is read.
HasAllTables(seg, m) ==
    /\ TablesUpTo(seg, m)
    /\ \A t \in 1..m : seg.tables[t].entries = "none"

LEMMA AllTables ==
    ASSUME NEW seg, SegmentOK(seg), seg.tables = <<>>, NEW m \in Nat, Len(Files[seg.file]) = m,
           NEW new, Adds(new, seg, Numbers(1, m))
    PROVE  HasAllTables(new, m)
  <1>0. PICK f : seg.file = f
    OBVIOUS
  <1>1. f \in DOMAIN Files /\ Len(Files[f]) = m /\ m <= m
    BY <1>0, SegmentFields DEF SegmentOK
  <1>2. /\ Numbers(1, m) \in Seq(DOMAIN Files[f]) /\ Len(Numbers(1, m)) = m
        /\ \A i \in 1..m : TablesOf(f, Numbers(1, m))[i] = NewTable(f, i, Start(f, i))
    BY <1>1, OffsetsAreStarts
  <1>3. TablesUpTo(new, m)
    BY <1>0, <1>1, FirstTables
  <1>4. PICK ts : ts = Numbers(1, m)
    OBVIOUS
  <1>5. Adds(new, seg, ts) /\ ts \in Seq(DOMAIN Files[seg.file]) /\ Len(ts) = m
    BY <1>0, <1>2, <1>4
  <1>6. PICK z \in Nat : z = 0 /\ Len(seg.tables) = z
    OBVIOUS
  <1>7. \A j \in 1..m : new.tables[z + j] = TablesOf(seg.file, ts)[j]
    BY <1>5, <1>6, TablesAdded
  <1>8. \A j \in 1..m : new.tables[j] = NewTable(f, j, Start(f, j))
    <2> TAKE j \in 1..m
    <2>1. z + j = j
      BY <1>6
    <2> QED
      BY <1>0, <1>2, <1>4, <1>7, <2>1
  <1>9. \A g, j, o : NewTable(g, j, o).entries = "none"
    BY DEF NewTable
  <1>10. \A j \in 1..m : new.tables[j].entries = "none"
    BY <1>8, <1>9
  <1> QED
    BY <1>3, <1>10 DEF HasAllTables

\* Decode of a new segment gives a good one, or fails with the file.
GivesClean(a, counted) ==
    a.out # "fault" =>
      /\ a.out = "ok" /\ a.gives.decoded
      /\ a.gives.sectorCount = SectorsIn(a.gives.file)
      /\ HasAllTables(a.gives, Len(Files[a.gives.file]))
      /\ counted => a.gives.volume

LEMMA DecodedClean ==
    ASSUME NEW seg, SegmentOK(seg), NEW link, LinkOK(link), NEW m \in Nat,
           Len(Files[seg.file]) = m, HasAllTables(seg, m), NEW counted, counted => seg.volume
    PROVE  GivesClean(Attempt(Decoded(seg, link), "ok"), counted)
  <1> DEFINE new == Decoded(seg, link)
  <1>1. IsDecoded(new, seg, link)
    BY DecodedOK
  <1>2. Total([i \in DOMAIN seg.tables |-> seg.tables[i].sectorCount]) = SectorsIn(seg.file)
    BY SectorsOfTables DEF HasAllTables
  <1> HIDE DEF new
  <1>3. /\ new.file = seg.file /\ new.decoded /\ new.tables = seg.tables
        /\ new.tableOffsets = seg.tableOffsets /\ new.volume = seg.volume
        /\ new.sectorCount = SectorsIn(seg.file)
    BY <1>1, <1>2 DEF IsDecoded
  <1>4. HasAllTables(new, m)
    BY <1>3 DEF HasAllTables, TablesUpTo
  <1>5. Attempt(new, "ok").out = "ok" /\ Attempt(new, "ok").gives = new
    BY DEF Attempt
  <1>6. counted => new.volume
    BY <1>3
  <1>7. GivesClean(Attempt(new, "ok"), counted)
    BY <1>3, <1>4, <1>5, <1>6 DEF GivesClean
  <1> QED
    BY <1>7 DEF new

\* The loop of Decode over all sections of a new segment, in evf1.
LEMMA AfterAllSections ==
    ASSUME NEW f \in DOMAIN Files, NEW v \in BOOLEAN, v \/ f = 1, NEW seg,
           seg = Changed(NewSegment(f), v, At("section", 1)), NEW n \in Nat,
           n = Len(SectionsOf[f]), NEW m \in Nat, Len(Files[f]) = m
    PROVE  LET new == [AfterSections(seg, 1, n) EXCEPT !.cursor = Elsewhere]
           IN  SegmentOK(new) /\ new.file = f /\ new.volume /\ HasAllTables(new, m)
  <1> DEFINE s == SectionsOf[f]
             done == SubSeq(s, 1, n)
             after == AfterSections(seg, 1, n)
             new == [after EXCEPT !.cursor = Elsewhere]
  <1>1. SegmentOK(NewSegment(f)) /\ NewSegment(f).file = f /\ NewSegment(f).tables = <<>>
        /\ ~NewSegment(f).decoded
    <2>1. NewSegment(f).tables = <<>> /\ ~NewSegment(f).decoded
      BY DEF NewSegment
    <2> QED
      BY <2>1, NewSegmentOK
  <1>2. At("section", 1) \in Cursors /\ At("section", 1).n = 1
        /\ Elsewhere \in Cursors /\ Elsewhere.at # "section"
    BY DEF At, Elsewhere, Cursors
  <1>3. /\ SegmentOK(seg) /\ seg.file = f /\ ~seg.decoded /\ seg.tables = <<>>
        /\ seg.volume = v
    BY <1>1, <1>2, ChangeSegment
  <1>4. s \in Seq(Sections) /\ Len(s) = n /\ n # 0
        /\ \A i \in 1..n : s[i].at = "volume" <=> f = 1 /\ i = 1
    BY SectionsNumbered DEF FirstSections
  <1>5. done = s
    BY <1>4, SubSeqFull
  <1>6. SegmentOK(new) /\ new.file = f
    <2>1. 1 \in Nat \ {0} /\ n \in Int /\ n <= Len(SectionsOf[seg.file])
      BY <1>3
    <2>2. Elsewhere.at = "section" => Elsewhere.n # 0
      BY <1>2
    <2>4. PICK from \in Nat \ {0} : from = 1
      OBVIOUS
    <2>5. SegmentOK([AfterSections(seg, from, n) EXCEPT !.cursor = Elsewhere])
          /\ [AfterSections(seg, from, n) EXCEPT !.cursor = Elsewhere].file = seg.file
      <3> HIDE DEF s, done, after, new
      <3> QED
        BY <1>2, <1>3, <2>1, <2>2, AfterSectionsOK
    <2>3. SegmentOK([AfterSections(seg, 1, n) EXCEPT !.cursor = Elsewhere])
          /\ [AfterSections(seg, 1, n) EXCEPT !.cursor = Elsewhere].file = seg.file
      BY <2>4, <2>5
    <2> QED
      BY <1>3, <2>3
  <1>7. Adds(new, seg, Numbers(1, m))
    <2>1. Adds(new, seg, TablesIn(SubSeq(SectionsOf[seg.file], 1, n)))
      BY <1>2, <1>3, AfterSectionsAdds
    <2>2. SubSeq(SectionsOf[seg.file], 1, n) = s /\ TablesIn(s) = Numbers(1, m)
      BY <1>3, <1>5, TablesOfFile
    <2> QED
      BY <2>1, <2>2
  <1>8. HasAllTables(new, m)
    <2> HIDE DEF new
    <2> QED
      BY <1>3, <1>7, AllTables
  <1>9. new.volume
    <2> DEFINE added == AddTables(seg, TablesIn(done))
               w == added.volume \/ \E i \in DOMAIN done : done[i].at = "volume"
    <2>1. after = [added EXCEPT !.volume = w]
      BY <1>3, Zenon DEF AfterSections
    <2>2. added.volume = v /\ added \in Segment
      <3>1. TablesIn(done) \in Seq(DOMAIN Files[f])
        <4>1. TablesIn(done) = Numbers(1, m)
          BY <1>5, TablesOfFile
        <4>2. m <= m
          OBVIOUS
        <4> QED
          BY <4>1, <4>2, OffsetsAreStarts
      <3> HIDE DEF done
      <3>2. SegmentOK(added) /\ added.volume = seg.volume
        BY <1>3, <3>1, AddTablesOK
      <3> QED
        BY <1>3, <3>2 DEF SegmentOK
    <2>3. w
      <3>1. CASE v
        BY <2>2, <3>1
      <3>2. CASE f = 1
        <4>1. 1 \in DOMAIN s /\ s[1].at = "volume"
          BY <1>4, <3>2, LenProperties
        <4> QED
          BY <1>5, <4>1
      <3> QED
        BY <3>1, <3>2
    <2> HIDE DEF added, w, after
    <2>4. after.volume = w
      BY <2>1, <2>2 DEF Segment
    <2>5. new.volume = after.volume
      BY <2>1, <2>2 DEF Segment
    <2> QED
      BY <2>3, <2>4, <2>5
  <1> QED
    BY <1>6, <1>8, <1>9

LEMMA DecodeEvf1New ==
    ASSUME NEW f \in DOMAIN Files, NEW link, LinkOK(link),
           f = 1 \/ (link # <<>> /\ link[1].volume), NEW a \in DecodeEvf1(NewSegment(f), link)
    PROVE  GivesClean(a, TRUE)
  <1> DEFINE seg0 == NewSegment(f)
             v == seg0.volume \/ (link # <<>> /\ link[1].volume)
             seg == [seg0 EXCEPT !.volume = @ \/ (link # <<>> /\ link[1].volume)]
             sections == SectionsOf[seg.file]
             from == seg.cursor.n
             until(k, cursor) == [AfterSections(seg, from, k) EXCEPT !.cursor = cursor]
             found(k) == seg.volume \/ \E i \in from..k : sections[i].at = "volume"
             stuck == {k \in from..Len(sections) : sections[k].at = "table" /\ ~found(k)}
             last == IF stuck = {} THEN Len(sections) ELSE Min(stuck)
             ks == {k \in from..last : CanFail("section")}
  <1>1. /\ seg0.file = f /\ seg0.cursor = At("section", 1) /\ SegmentOK(seg0)
        /\ seg0 \in Segment /\ seg0.volume = FALSE
    <2>1. seg0.cursor = At("section", 1) /\ seg0.volume = FALSE
      BY DEF NewSegment
    <2> QED
      BY <2>1, NewSegmentOK DEF SegmentOK
  <1>2. At("section", 1) \in Cursors /\ At("section", 1).n = 1 /\ At("section", 1).at = "section"
    BY DEF At, Cursors
  <1>3. v \in BOOLEAN /\ (v \/ f = 1)
    <2>1. link # <<>> => link[1].volume \in BOOLEAN
      BY SegmentFields DEF LinkOK, SegmentOK
    <2> QED
      BY <1>1, <2>1
  <1>4. seg = Changed(seg0, v, At("section", 1))
    BY <1>1, Zenon DEF Changed, Segment
  <1>5. a \in IF seg.cursor.at # "section"
              THEN {Attempt(seg, "error"), Ended(seg, link)}
              ELSE {IF stuck = {} THEN Ended(until(last, Elsewhere), link)
                    ELSE Attempt(until(last - 1, Elsewhere), "panic")}
                   \cup {Attempt(until(k - 1, At("section", k)), "fault") : k \in ks}
                   \cup {Attempt(until(k - 1, Elsewhere), "fault") : k \in ks}
    BY Zenon DEF DecodeEvf1
  <1> HIDE DEF v, seg, seg0
  <1>6. seg.file = f /\ seg.volume = v /\ seg.cursor = At("section", 1)
    BY <1>1, <1>2, <1>3, <1>4, ChangeSegment
  <1>7. from = 1 /\ seg.cursor.at = "section" /\ sections = SectionsOf[f]
    BY <1>2, <1>6
  <1>8. PICK m \in Nat : Len(Files[f]) = m
    BY FilesType, LenProperties
  <1>9. PICK n \in Nat : /\ Len(sections) = n
                         /\ \A i \in 1..n : sections[i].at = "volume" <=> f = 1 /\ i = 1
    <2>1. Len(SectionsOf[f]) \in Nat
      BY <1>8, SectionsNumbered, LenProperties
    <2> QED
      BY <1>7, <1>8, <2>1, SectionsNumbered
  <1>10. stuck = {}
    <2> SUFFICES ASSUME NEW k \in 1..n, ~seg.volume
                 PROVE  \E i \in 1..k : sections[i].at = "volume"
      BY <1>7, <1>9
    <2>1. f = 1 /\ 1 \in 1..k /\ 1 \in 1..n
      BY <1>3, <1>6
    <2> QED
      BY <1>9, <2>1
  <1>11. last = n
    BY <1>9, <1>10
  <1>12. until(last, Elsewhere) = [AfterSections(seg, 1, n) EXCEPT !.cursor = Elsewhere]
    BY <1>7, <1>11
  <1> DEFINE new == [AfterSections(seg, 1, n) EXCEPT !.cursor = Elsewhere]
  <1>13. SegmentOK(new) /\ new.file = f /\ new.volume /\ HasAllTables(new, m)
    <2>1. seg = Changed(NewSegment(f), v, At("section", 1)) /\ n = Len(SectionsOf[f])
      BY <1>4, <1>7, <1>9 DEF seg0
    <2> QED
      BY <1>3, <1>8, <2>1, AfterAllSections
  <1> HIDE DEF new
  <1>14. Ended(new, link) = Attempt(Decoded(new, link), "ok")
    BY <1>13 DEF Ended
  <1>15. GivesClean(Ended(new, link), TRUE)
    BY <1>8, <1>13, <1>14, DecodedClean
  <1>16. a = Ended(new, link) \/ a.out = "fault"
    <2>1. \A g : Attempt(g, "fault").out = "fault"
      BY DEF Attempt
    <2>2. until(last, Elsewhere) = new
      BY <1>12 DEF new
    <2> HIDE DEF until, last, stuck, ks
    <2> QED
      BY <1>5, <1>7, <1>10, <2>1, <2>2
  <1> QED
    BY <1>15, <1>16 DEF GivesClean

\* The same in evf2.
LEMMA DecodeEvf2New ==
    ASSUME NEW f \in DOMAIN Files, NEW link, LinkOK(link),
           NEW a \in Evf2!DecodeEvf2(NewSegment(f), link)
    PROVE  GivesClean(a, FALSE)
  <1> DEFINE seg == NewSegment(f)
             s == Evf2!SectionsOf[f]
             all == PutSections(seg, 1)
             n == Len(all.sections)
             after == Evf2!AfterSections(all, n)
             new == Decoded(after, link)
  <1>1. /\ seg.file = f /\ SegmentOK(seg) /\ ~seg.decoded /\ seg.tables = <<>>
        /\ seg.sections = <<>> /\ seg \in Segment
    <2>1. ~seg.decoded /\ seg.tables = <<>> /\ seg.sections = <<>>
      BY DEF NewSegment
    <2> QED
      BY <2>1, NewSegmentOK DEF SegmentOK
  <1>2. a = Attempt(new, "ok") \/ a.out = "fault"
    <2>1. \/ a = Attempt(new, "ok")
          \/ \E g : a = Attempt(g, "fault")
      BY Evf2Attempt, Evf2Decoded, Evf2CanFail DEF Evf2!DecodeEvf2, PutSections
    <2> HIDE DEF new
    <2> QED
      BY <2>1 DEF Attempt
  <1> HIDE DEF seg
  <1>3. PICK m \in Nat : Len(Files[f]) = m
    BY FilesType, LenProperties
  <1>4. s \in Seq(Sections) /\ TablesIn(s) = Numbers(1, m)
    BY <1>3, Evf2SectionsNumbered, Evf2TablesOfFile
  <1>5. SegmentOK(all) /\ all.file = f /\ ~all.decoded
    <2>1. 1 \in Nat \ {0}
      OBVIOUS
    <2> QED
      BY <1>1, <2>1, PutFromOK
  <1>6. SubSeq(s, 1, Len(s)) = s
    BY <1>4, SubSeqFull
  <1>7. all.sections = s \o seg.sections /\ all.tables = <<>>
    BY <1>1, <1>6 DEF PutSections, Segment
  <1>8. all.sections = s
    BY <1>1, <1>4, <1>7, ConcatProperties
  <1> HIDE DEF s, all
  <1>9. n \in Nat /\ n <= Len(all.sections) /\ SubSeq(all.sections, 1, n) = all.sections
    <2>1. Len(all.sections) \in Nat
      BY <1>4, <1>8, LenProperties
    <2> QED
      BY <1>4, <1>8, <2>1, SubSeqFull
  <1>10. SegmentOK(after) /\ after.file = f
    BY <1>5, <1>9, Evf2AfterSectionsOK
  <1>11. Adds(after, all, Numbers(1, m))
    BY <1>4, <1>5, <1>8, <1>9, Evf2AfterSectionsAdds
  <1> HIDE DEF after
  <1>12. HasAllTables(after, m)
    BY <1>3, <1>5, <1>7, <1>11, AllTables
  <1>13. GivesClean(Attempt(Decoded(after, link), "ok"), FALSE)
    BY <1>3, <1>10, <1>12, DecodedClean
  <1> QED
    BY <1>2, <1>13 DEF GivesClean

(***************************************************************************)
(* What decoding, seeking and reading may come to.                         *)
(***************************************************************************)
LEMMA MayComeIs ==
    /\ \A g : /\ MayCome(Attempt(g, "ok")) /\ MayCome(Attempt(g, "error"))
              /\ MayCome(Attempt(g, "panic"))
    /\ \A g, kind : CanFail(kind) => MayCome(Attempt(g, "fault"))
  BY DEF MayCome, Attempt, CanFail

LEMMA DecodeEvf1Faults ==
    ASSUME NEW seg0, NEW link, NEW a \in DecodeEvf1(seg0, link)
    PROVE  MayCome(a)
  <1> DEFINE seg == [seg0 EXCEPT !.volume = @ \/ (link # <<>> /\ link[1].volume)]
             sections == SectionsOf[seg.file]
             from == seg.cursor.n
             until(k, cursor) == [AfterSections(seg, from, k) EXCEPT !.cursor = cursor]
             found(k) == seg.volume \/ \E i \in from..k : sections[i].at = "volume"
             stuck == {k \in from..Len(sections) : sections[k].at = "table" /\ ~found(k)}
             last == IF stuck = {} THEN Len(sections) ELSE Min(stuck)
             ks == {k \in from..last : CanFail("section")}
  <1>1. a \in IF seg.cursor.at # "section"
              THEN {Attempt(seg, "error"), Ended(seg, link)}
              ELSE {IF stuck = {} THEN Ended(until(last, Elsewhere), link)
                    ELSE Attempt(until(last - 1, Elsewhere), "panic")}
                   \cup {Attempt(until(k - 1, At("section", k)), "fault") : k \in ks}
                   \cup {Attempt(until(k - 1, Elsewhere), "fault") : k \in ks}
    BY Zenon DEF DecodeEvf1
  <1>2. \A g : MayCome(Ended(g, link))
    BY MayComeIs DEF Ended
  <1>3. \A k \in ks : CanFail("section")
    OBVIOUS
  <1> HIDE DEF seg, until, stuck, last, ks
  <1> QED
    BY <1>1, <1>2, <1>3, MayComeIs

LEMMA DecodeEvf2Faults ==
    ASSUME NEW seg, NEW link, NEW a \in Evf2!DecodeEvf2(seg, link)
    PROVE  MayCome(a)
  <1>1. \/ \E g : a = Attempt(g, "ok")
        \/ \E g : CanFail("section") /\ a = Attempt(g, "fault")
    BY Evf2Attempt, Evf2CanFail DEF Evf2!DecodeEvf2
  <1> QED
    BY <1>1, MayComeIs

LEMMA ChunksFault ==
    ASSUME NEW a, a \in ChunkFaults \cup JunkReads
    PROVE  MayCome(a)
  <1>1. a \in ChunkFaults => CanFail("chunk") /\ a = Attempt(<<>>, "fault")
    BY DEF ChunkFaults
  <1>2. a \in JunkReads => a = Attempt(<<>>, "error") \/ \E g : a = Attempt(g, "ok")
    BY DEF JunkReads
  <1> QED
    BY <1>1, <1>2, MayComeIs

LEMMA ReadEvf1Faults ==
    ASSUME NEW f, NEW a \in ReadEvf1(f)
    PROVE  MayCome(a)
  <1>1. \/ a \in ChunkFaults \cup JunkReads \/ \E g : a = Attempt(g, "ok")
        \/ a = Attempt(<<>>, "error")
    BY DEF ReadEvf1
  <1> QED
    BY <1>1, ChunksFault, MayComeIs

LEMMA ReadEvf2Faults ==
    ASSUME NEW f, NEW a \in Evf2!ReadEvf2(f)
    PROVE  MayCome(a)
  <1>1. \/ a \in ChunkFaults \cup JunkReads \/ \E g : a = Attempt(g, "ok")
        \/ a = Attempt(<<>>, "error")
    BY Evf2Attempt, Evf2ChunkFaults, Evf2JunkReads DEF Evf2!ReadEvf2
  <1> QED
    BY <1>1, ChunksFault, MayComeIs

\* The segment that a call has to decode is new, and the one before is decoded.
LEMMA NewToDecode ==
    ASSUME NEW counted, Inv(counted), NEW c \in Clients, Clean(counted), Unharmed, Course(c),
           pc[c] \in {"find", "segment", "asked"}, pc[c] = "segment" => frame[c].count > 0,
           NEW i \in DOMAIN segs, frame[c].seg = i, ~segs[i].decoded
    PROVE  /\ i \in DOMAIN Files /\ SegmentOf(c) = NewSegment(i)
           /\ LinkEnd(LinkOf(c)) = Begins(i)
           /\ counted => i = 1 \/ (LinkOf(c) # <<>> /\ LinkOf(c)[1].volume)
  <1>1. Len(segs) \in Nat /\ i \in 1..Len(segs) /\ Fits(pc[c], frame[c], segs, counted)
        /\ frame[c] \in Frames
    BY OfCall
  <1>2. Sane /\ segs[i] = NewSegment(i)
    BY <1>1 DEF Clean
  <1>3. PICK n \in Nat : Len(Files) = n /\ DOMAIN Files = 1..n /\ IsLaidOut(n)
    BY ImageType
  <1>4. i \in 1..n
    BY <1>1, <1>2, <1>3 DEF Sane
  <1>5. i > 1 => segs[i - 1].decoded
    <2>1. pc[c] # "asked"
      BY DEF Course, Unharmed
    <2>2. CASE pc[c] = "find"
      BY <1>1, <2>2 DEF Fits, Behind
    <2>3. CASE pc[c] = "segment"
      <3>1. frame[c].count # 0
        BY <1>1, <2>3, FrameFields
      <3> QED
        BY <1>1, <2>3, <3>1 DEF Fits, Behind
    <2> QED
      BY <2>1, <2>2, <2>3
  <1>6. CASE i = 1
    <2>1. LinkOf(c) = <<>>
      BY <1>6 DEF LinkOf
    <2>2. Begins(i) = 0
      BY <1>3, <1>6 DEF IsLaidOut
    <2> QED
      BY <1>2, <1>3, <1>4, <1>6, <2>1, <2>2 DEF LinkEnd, SegmentOf
  <1>7. CASE i # 1
    <2>1. PICK j \in 1..n : j = i - 1 /\ i = j + 1
      BY <1>4, <1>7
    <2>2. j \in 1..Len(segs) /\ segs[j].decoded
      BY <1>1, <1>4, <1>5, <1>7, <2>1
    <2>3. LinkOf(c) = <<segs[j]>>
      BY <1>7, <2>1 DEF LinkOf
    <2>4. segs[j].sectorOffset = Begins(j) /\ segs[j].sectorCount = SectorsIn(j)
      BY <1>2, <2>2, OfGood
    <2>5. Begins(i) = Begins(j) + SectorsIn(j)
      BY <1>3, <2>1 DEF IsLaidOut
    <2>6. LinkEnd(LinkOf(c)) = Begins(i) /\ LinkOf(c) # <<>> /\ LinkOf(c)[1] = segs[j]
      BY <2>3, <2>4, <2>5 DEF LinkEnd
    <2>7. counted => segs[j].volume
      BY <2>2 DEF Clean
    <2> QED
      BY <1>2, <1>3, <1>4, <2>6, <2>7 DEF SegmentOf
  <1> QED
    BY <1>6, <1>7

LEMMA DecodeSegmentClean ==
    ASSUME NEW counted, Inv(counted), NEW c, Clients = {c}, Clean(counted), Course(c),
           NEW decodes, DecodeSegment(c, decodes),
           \A a \in decodes : DecodesTo(a, SegmentOf(c), LinkOf(c)),
           Unharmed => \A a \in decodes : GivesClean(a, counted)
    PROVE  Clean(counted)'
  <1> SUFFICES ASSUME Unharmed'
               PROVE  Clean(counted)'
    BY DEF Clean
  <1>0. PICK i : frame[c].seg = i
    OBVIOUS
  <1>1. PICK a \in decodes :
          /\ segs' = [segs EXCEPT ![i] = a.gives]
          /\ CASE a.out = "ok" -> UNCHANGED <<pc, frame, position, result, faults>>
               [] a.out = "fault" -> Fault(c)
               [] OTHER -> Return(c, <<>>, a.out) /\ UNCHANGED faults
    BY <1>0, Zenon DEF DecodeSegment
  <1>2. /\ i \in DOMAIN segs /\ ~segs[i].decoded /\ opened' = opened
        /\ pc[c] \in {"find", "segment", "asked"}
        /\ pc[c] = "segment" => frame[c].count > 0
    BY <1>0, Zenon DEF DecodeSegment
  <1>3. i \in 1..Len(segs) /\ segs \in Seq(Segment) /\ c \in Clients /\ faults \in Nat
    BY <1>2, OfCall DEF SegsOK
  <1>4. a.out # "fault"
    <2>1. faults' = 0
      BY DEF Unharmed
    <2>2. Fault(c) => faults' = faults + 1
      BY Zenon DEF Fault
    <2>3. faults + 1 # 0
      BY <1>3
    <2>4. a.out = "fault" => Fault(c)
      BY <1>1
    <2> QED
      BY <2>1, <2>2, <2>3, <2>4
  <1>5. faults' = faults
    <2>1. CASE a.out = "ok"
      BY <1>1, <2>1
    <2>2. CASE a.out # "ok"
      BY <1>1, <1>4, <2>2
    <2> QED
      BY <2>1, <2>2
  <1>6. Unharmed
    BY <1>2, <1>5 DEF Unharmed
  <1>7. PICK new : new = a.gives
    OBVIOUS
  <1>8. /\ SegmentOf(c) = NewSegment(i) /\ LinkEnd(LinkOf(c)) = Begins(i)
    BY <1>0, <1>2, <1>3, <1>6, NewToDecode
  <1>9. DecodesTo(a, SegmentOf(c), LinkOf(c)) /\ GivesClean(a, counted)
    BY <1>6
  <1>10. NewSegment(i).file = i
    BY DEF NewSegment
  <1>11. /\ new.decoded /\ new.file = i /\ new.sectorOffset = Begins(i)
         /\ new.sectorCount = SectorsIn(i) /\ HasAllTables(new, Len(Files[i]))
         /\ counted => new.volume
    BY <1>4, <1>7, <1>8, <1>9, <1>10 DEF DecodesTo, GivesClean
  <1>12. GoodSegment(new)
    BY <1>11 DEF GoodSegment, HasAllTables
  <1>13. segs'[i] = new
    BY <1>1, <1>3, <1>7, LenProperties
  <1>14. \A t \in 1..Len(new.tables) : Filled(i, t)'
    <2>1. Len(new.tables) = Len(Files[i])
      BY <1>11 DEF HasAllTables, TablesUpTo
    <2>2. \A t \in 1..Len(new.tables) : new.tables[t].entries = "none"
      BY <1>11, <2>1 DEF HasAllTables
    <2> QED
      BY <1>13, <2>2 DEF Filled
  <1>15. segs' = [segs EXCEPT ![i] = new]
    BY <1>1, <1>7
  <1>16. pc[c] \in {"alloc", "fill"} => frame[c].seg = i
    BY <1>2
  <1> QED
    BY <1>2, <1>3, <1>6, <1>11, <1>12, <1>14, <1>15, <1>16, CleanStep

(***************************************************************************)
(* OpenEWF with all files of the image.                                    *)
(***************************************************************************)
\* OpenEWF is given the files of the whole image, in any order, as the
\* command line does with a glob pattern that fits all of them.
AllGiven == \A fs \in Given : /\ Len(fs) = Len(Files)
                              /\ \A f \in DOMAIN Files : \E i \in DOMAIN fs : fs[i] = f

\* Among n numbers that do not decrease each of 1..n is at its own place.
LEMMA SortedNumbers ==
    ASSUME NEW n \in Nat, NEW o \in [1..n -> 1..n],
           \A i, j \in 1..n : i < j => o[i] <= o[j],
           \A k \in 1..n : \E j \in 1..n : o[j] = k
    PROVE  \A i \in 1..n : o[i] = i
  <1> DEFINE U == {i \in Nat : i \in 1..n => o[i] <= i}
             D == {k \in Nat : \A i \in 1..n : i + k = n => o[i] >= i}
  <1>1. 0 \in U
    OBVIOUS
  <1>2. ASSUME NEW i \in Nat, i \in U
        PROVE  i + 1 \in U
    <2> SUFFICES ASSUME i + 1 \in 1..n, o[i + 1] > i + 1
                 PROVE  FALSE
      OBVIOUS
    <2>1. PICK j \in 1..n : o[j] = i + 1
      OBVIOUS
    <2>2. CASE j <= i
      <3>1. i \in 1..n /\ o[i] <= i
        BY <1>2, <2>2
      <3>2. o[j] <= o[i]
        <4>1. CASE j < i
          BY <3>1, <4>1
        <4>2. CASE j = i
          BY <3>1, <4>2
        <4> QED
          BY <2>2, <4>1, <4>2
      <3> QED
        BY <2>1, <3>1, <3>2
    <2>3. CASE j = i + 1
      BY <2>1, <2>3
    <2>4. CASE i + 1 < j
      <3>1. o[i + 1] <= o[j]
        BY <2>4
      <3> QED
        BY <2>1, <3>1
    <2> QED
      BY <2>2, <2>3, <2>4
  <1>3. 0 \in D
    <2> SUFFICES ASSUME NEW i \in 1..n, i = n
                 PROVE  o[i] >= i
      OBVIOUS
    <2>1. PICK j \in 1..n : o[j] = n
      OBVIOUS
    <2>2. CASE j < i
      BY <2>1, <2>2
    <2>3. CASE j = i
      BY <2>1, <2>3
    <2> QED
      BY <2>2, <2>3
  <1>4. ASSUME NEW k \in Nat, k \in D
        PROVE  k + 1 \in D
    <2> SUFFICES ASSUME NEW i \in 1..n, i + (k + 1) = n
                 PROVE  o[i] >= i
      OBVIOUS
    <2>1. PICK h \in 1..n : h = i + 1
      OBVIOUS
    <2>2. o[h] >= h
      <3>1. h + k = n
        BY <2>1
      <3> QED
        BY <1>4, <3>1
    <2>3. PICK j \in 1..n : o[j] = i
      OBVIOUS
    <2>4. CASE j < i
      BY <2>3, <2>4
    <2>5. CASE j = i
      BY <2>3, <2>5
    <2>6. CASE j = h
      BY <2>1, <2>2, <2>3, <2>6
    <2>7. CASE h < j
      <3>1. o[h] <= o[j]
        BY <2>7
      <3> QED
        BY <2>1, <2>2, <2>3, <3>1
    <2> QED
      BY <2>1, <2>4, <2>5, <2>6, <2>7
  <1> HIDE DEF U, D
  <1>5. Nat \subseteq U /\ Nat \subseteq D
    BY <1>1, <1>2, <1>3, <1>4, SetInduction
  <1>6. SUFFICES ASSUME NEW i \in 1..n
                 PROVE  o[i] = i
    OBVIOUS
  <1>7. o[i] <= i
    <2>1. i \in U
      BY <1>5
    <2> QED
      BY <2>1 DEF U
  <1>8. o[i] >= i
    <2>1. PICK k \in Nat : i + k = n
      <3>1. n - i \in Nat /\ i + (n - i) = n
        OBVIOUS
      <3> QED
        BY <3>1
    <2>2. k \in D
      BY <1>5
    <2> QED
      BY <2>1, <2>2 DEF D
  <1> QED
    BY <1>7, <1>8

\* The files are in the order of their numbers.
LEMMA SortedAll ==
    ASSUME AllGiven, NEW fs \in Given, NEW order \in Sorted(fs), NEW n \in Nat, Len(Files) = n
    PROVE  Len(order) = n /\ n # 0 /\ \A i \in 1..n : order[i] = i
  <1>1. /\ fs \in Seq(DOMAIN Files) /\ Len(fs) = n
        /\ \A f \in DOMAIN Files : \E i \in DOMAIN fs : fs[i] = f
    BY ReaderAssumption DEF AllGiven
  <1>2. DOMAIN Files = 1..n /\ DOMAIN fs = 1..n
    BY <1>1, FilesType, LenProperties
  <1>3. PICK p \in Bijection(1..n, 1..n) : order = [i \in 1..n |-> fs[p[i]]]
    BY <1>2 DEF Sorted
  <1>4. \A i, j \in 1..n : i < j => order[i] <= order[j]
    BY <1>2 DEF Sorted
  <1>5. p \in [1..n -> 1..n] /\ \A k \in 1..n : \E j \in 1..n : p[j] = k
    BY <1>3 DEF Bijection, Injection, Surjection
  <1>6. order \in [1..n -> 1..n]
    BY <1>1, <1>2, <1>3, <1>5, ElementOfSeq
  <1>7. ASSUME NEW k \in 1..n
        PROVE  \E j \in 1..n : order[j] = k
    <2>1. PICK i \in 1..n : fs[i] = k
      BY <1>1, <1>2
    <2>2. PICK j \in 1..n : p[j] = i
      BY <1>5
    <2> QED
      BY <1>3, <2>1, <2>2
  <1>8. Len(order) = n /\ n # 0
    BY <1>1, SortedType
  <1> QED
    BY <1>4, <1>6, <1>7, <1>8, SortedNumbers

LEMMA OpenEWFClean ==
    ASSUME NEW counted, Inv(counted), AllGiven, NEW decodes, OpenEWF(decodes),
           \A f \in DOMAIN Files : \A a \in decodes[f] : DecodesTo(a, NewSegment(f), <<>>),
           \A f \in DOMAIN Files : \A a \in decodes[f] : f = 1 => GivesClean(a, counted)
    PROVE  Clean(counted)'
  <1> DEFINE Opens(order, a) ==
        /\ opened' = CASE a.out = "ok" -> "yes" [] a.out = "panic" -> "panic"
                       [] OTHER -> "no"
        /\ segs' = IF a.out = "ok"
                   THEN <<a.gives>> \o [i \in 1..(Len(order) - 1) |-> NewSegment(order[i + 1])]
                   ELSE <<>>
  <1> SUFFICES ASSUME Unharmed'
               PROVE  Clean(counted)'
    BY DEF Clean
  <1>1. PICK fs \in Given : \E order \in Sorted(fs) :
          \E a \in decodes[Head(order)] : Opens(order, a)
    BY DEF OpenEWF
  <1>2. PICK order \in Sorted(fs) : \E a \in decodes[Head(order)] : Opens(order, a)
    BY <1>1
  <1>3. PICK a \in decodes[Head(order)] : Opens(order, a)
    BY <1>2
  <1>4. PICK n \in Nat : Len(Files) = n /\ DOMAIN Files = 1..n /\ IsLaidOut(n)
    BY ImageType
  <1>5. Len(order) = n /\ n # 0 /\ \A i \in 1..n : order[i] = i
    BY <1>4, SortedAll
  <1>6. order \in Seq(DOMAIN Files) /\ Head(order) = 1
    <2>1. order \in Seq(DOMAIN Files)
      BY SortedType
    <2>2. Head(order) = order[1]
      BY <1>5, <2>1, EmptySeq, HeadTailProperties
    <2> QED
      BY <1>5, <2>1, <2>2
  <1>7. opened' = "yes"
    BY DEF Unharmed
  <1>8. a.out = "ok"
    BY <1>3, <1>7
  <1>9. /\ DecodesTo(a, NewSegment(1), <<>>) /\ a.gives.decoded
        /\ GivesClean(a, counted)
    <2>1. 1 \in DOMAIN Files
      BY <1>4, <1>5
    <2> QED
      BY <1>6, <1>8, <2>1 DEF DecodesTo
  <1>10. PICK m \in Nat : n = m + 1
    <2>1. n - 1 \in Nat /\ n = (n - 1) + 1
      BY <1>5
    <2> QED
      BY <2>1
  <1> DEFINE rest == [i \in 1..m |-> NewSegment(order[i + 1])]
  <1>11. \A i \in 1..m : NewSegment(order[i + 1]) = NewSegment(i + 1)
    <2> TAKE i \in 1..m
    <2>1. i + 1 \in 1..n
      BY <1>10
    <2> QED
      BY <1>5, <2>1
  <1>12. rest \in Seq(Segment) /\ Len(rest) = m
    <2>1. \A i \in 1..m : NewSegment(i + 1) \in Segment
      <3> TAKE i \in 1..m
      <3>1. i + 1 \in DOMAIN Files
        BY <1>4, <1>10
      <3> QED
        BY <3>1, NewSegmentOK DEF SegmentOK
    <2>2. rest \in [1..m -> Segment]
      BY <1>11, <2>1
    <2> QED
      BY <2>2, SeqDef, LenProperties
  <1>13. PICK first : first = a.gives
    OBVIOUS
  <1>14. /\ first \in Segment /\ <<first>> \in Seq(Segment)
         /\ Len(<<first>>) = 1 /\ <<first>>[1] = first
    <2>1. first \in Segment
      BY <1>9, <1>13 DEF DecodesTo, SegmentOK
    <2> QED
      BY <2>1
  <1>15. segs' = <<first>> \o rest
    <2>1. Len(order) - 1 = m
      BY <1>5, <1>10
    <2> QED
      BY <1>3, <1>8, <1>13, <2>1
  <1> HIDE DEF rest
  <1>16. /\ Len(segs') = Len(<<first>>) + Len(rest)
         /\ \A i \in 1..(Len(<<first>>) + Len(rest)) :
              segs'[i] = IF i <= Len(<<first>>) THEN <<first>>[i] ELSE rest[i - Len(<<first>>)]
    BY <1>12, <1>14, <1>15, ConcatProperties, Zenon
  <1>17. /\ Len(segs') = n /\ segs'[1] = first
         /\ \A i \in 1..n : i # 1 => segs'[i] = NewSegment(i)
    <2>1. Len(segs') = n /\ segs'[1] = first
      BY <1>10, <1>12, <1>14, <1>16
    <2>2. ASSUME NEW i \in 1..n, i # 1
          PROVE  segs'[i] = NewSegment(i)
      <3>1. PICK j \in 1..m : j = i - 1 /\ i = j + 1
        BY <1>10, <2>2
      <3>2. segs'[i] = rest[j]
        BY <1>10, <1>12, <1>14, <1>16, <2>2, <3>1
      <3>3. rest[j] = NewSegment(j + 1)
        BY <1>11 DEF rest
      <3> QED
        BY <3>1, <3>2, <3>3
    <2> QED
      BY <2>1, <2>2
  <1> HIDE DEF Opens
  <1>18. \A i : NewSegment(i).file = i /\ ~NewSegment(i).decoded
    BY DEF NewSegment
  <1>19. /\ first.file = 1 /\ first.sectorOffset = 0 /\ first.decoded
         /\ first.sectorCount = SectorsIn(1) /\ HasAllTables(first, Len(Files[1]))
         /\ counted => first.volume
    BY <1>8, <1>9, <1>13, <1>18 DEF DecodesTo, GivesClean, LinkEnd
  <1>20. GoodSegment(first)
    <2>1. Begins(1) = 0
      BY <1>4 DEF IsLaidOut
    <2> QED
      BY <1>19, <2>1 DEF GoodSegment, HasAllTables
  <1>21. \A t \in 1..Len(first.tables) : first.tables[t].entries = "none"
    BY <1>19 DEF HasAllTables, TablesUpTo
  <1>22. ASSUME NEW i \in 1..n, segs'[i].decoded
         PROVE  /\ i = 1 /\ GoodSegment(segs'[i]) /\ (counted => segs'[i].volume)
                /\ \A t \in 1..Len(segs'[i].tables) : Filled(i, t)'
    <2>1. i = 1 /\ segs'[i] = first
      BY <1>17, <1>18, <1>22
    <2>2. \A t \in 1..Len(segs'[i].tables) : Filled(i, t)'
      BY <1>21, <2>1 DEF Filled
    <2> QED
      BY <1>19, <1>20, <2>1, <2>2
  <1>23. \A i \in 1..n : segs'[i].file = i
    BY <1>17, <1>18, <1>19
  <1>24. Sane'
    BY <1>4, <1>7, <1>17, <1>22, <1>23 DEF Sane, GoodSegment
  <1>25. \A i \in 1..n : ~segs'[i].decoded => segs'[i] = NewSegment(i)
    BY <1>17, <1>19
  <1> QED
    BY <1>17, <1>22, <1>24, <1>25 DEF Clean

(***************************************************************************)
(* The steps of a reader with one client c.                                *)
(***************************************************************************)
\* What a step does to what the caller sees.
Moved(c) ==
    \/ UNCHANGED <<pc, frame, position, result>>
    \/ Call(c)
    \/ pc[c] # "idle" /\ Moves(c)

Kind(c, counted) == Course(c) /\ Clean(counted)

LEMMA MovesKind ==
    ASSUME NEW counted, Inv(counted), NEW c, Clients = {c}, Kind(c, counted), pc[c] # "idle",
           Moves(c), Clean(counted)'
    PROVE  Kind(c, counted)' /\ Moved(c)
  <1>1. c \in Clients
    OBVIOUS
  <1>2. Course(c)'
    BY <1>1, CourseMoves, Zenon DEF Kind
  <1> QED
    BY <1>2 DEF Kind, Moved

LEMMA QuietKind ==
    ASSUME NEW counted, Inv(counted), NEW c, Clients = {c}, Kind(c, counted),
           pc[c] \notin {"idle", "alloc", "fill"}, Moves(c), Quiet
    PROVE  Kind(c, counted)' /\ Moved(c)
  <1>1. UNCHANGED <<opened, segs>> /\ (faults' = 0 => faults = 0)
    BY DEF Quiet
  <1>2. Clean(counted)'
    BY <1>1, CleanSame DEF Kind
  <1> QED
    BY <1>2, MovesKind

\* The steps that are the same in both readers and leave the segments alone.
LEMMA LoopsKind ==
    ASSUME NEW counted, Inv(counted), NEW c, Clients = {c}, Kind(c, counted), NEW index,
           \/ SegmentAsked(c) \/ Find(c) \/ NextSegment(c) \/ NextTable(c)
           \/ NextChunk(c, index)
    PROVE  Kind(c, counted)' /\ Moved(c)
  <1>1. frame[c] \in Frames
    BY DEF Inv
  <1>2. CASE SegmentAsked(c)
    <2>1. pc[c] = "asked" /\ Quiet
      BY <1>2, Zenon DEF SegmentAsked
    <2> QED
      BY <1>2, <2>1, SegmentAskedMoves, QuietKind
  <1>3. CASE Find(c)
    <2>1. pc[c] = "find" /\ Quiet
      BY <1>3, Zenon DEF Find
    <2> QED
      BY <1>1, <1>3, <2>1, FindMoves, QuietKind
  <1>4. CASE NextSegment(c)
    <2>1. pc[c] = "segment" /\ Quiet
      BY <1>4, Zenon DEF NextSegment
    <2> QED
      BY <1>1, <1>4, <2>1, NextSegmentMoves, QuietKind
  <1>5. CASE NextTable(c)
    <2>1. pc[c] = "table" /\ Quiet
      BY <1>5, Zenon DEF NextTable
    <2> QED
      BY <1>1, <1>5, <2>1, NextTableMoves, QuietKind
  <1>6. CASE NextChunk(c, index)
    <2>1. pc[c] = "chunk" /\ Quiet
      BY <1>6, Zenon DEF NextChunk
    <2> QED
      BY <1>1, <1>6, <2>1, NextChunkMoves, QuietKind
  <1> QED
    BY <1>2, <1>3, <1>4, <1>5, <1>6

\* The steps at the entries of a table.
LEMMA EntriesKind ==
    ASSUME NEW counted, Inv(counted), More(counted), NEW c, Clients = {c}, Kind(c, counted),
           AllocEntries(c) \/ FillEntries(c)
    PROVE  Kind(c, counted)' /\ Moved(c)
  <1>1. frame[c] \in Frames
    BY DEF Inv
  <1>2. CASE AllocEntries(c)
    <2>1. pc[c] = "alloc"
      BY <1>2, Zenon DEF AllocEntries
    <2>2. Clean(counted)'
      BY <1>2, AllocEntriesClean DEF Kind
    <2> QED
      BY <1>1, <1>2, <2>1, <2>2, AllocEntriesMoves, MovesKind
  <1>3. CASE FillEntries(c)
    <2>1. pc[c] = "fill"
      BY <1>3, Zenon DEF FillEntries
    <2>2. Clean(counted)'
      BY <1>3, FillEntriesClean DEF Kind
    <2> QED
      BY <1>1, <1>3, <2>1, <2>2, FillEntriesMoves, MovesKind
  <1> QED
    BY <1>2, <1>3

\* A step that may fail with the file has not failed when no read has.
LEMMA FaultCounts ==
    ASSUME NEW counted, Inv(counted), faults' = faults \/ (\E c : Fault(c)), faults' = 0
    PROVE  faults = 0
  <1>1. faults \in Nat
    BY ReaderAssumption DEF Inv
  <1>2. (\E c : Fault(c)) => faults' = faults + 1
    BY Zenon DEF Fault
  <1> QED
    BY <1>1, <1>2

\* The steps at a chunk.
LEMMA SeekChunkKind ==
    ASSUME NEW counted, Inv(counted), NEW c, Clients = {c}, Kind(c, counted), NEW seeks,
           SeekChunk(c, seeks),
           \A a \in seeks : a.cursor \in Cursors /\ a.cursor.at # "section" /\ a.out # "none"
    PROVE  Kind(c, counted)' /\ Moved(c)
  <1>1. frame[c] \in Frames
    BY DEF Inv
  <1>2. pc[c] = "seek" /\ UNCHANGED <<opened, faults>>
    BY Zenon DEF SeekChunk
  <1>3. PICK a \in seeks : SetCursor(c, a.cursor)
    BY Zenon DEF SeekChunk
  <1>4. PICK cursor \in Cursors : cursor = a.cursor /\ cursor.at # "section"
    OBVIOUS
  <1>5. SetCursor(c, cursor)
    BY <1>3, <1>4
  <1>6. Clean(counted)'
    <2> SUFFICES ASSUME Unharmed'
                 PROVE  Clean(counted)'
      BY DEF Clean
    <2>1. Unharmed
      BY <1>2 DEF Unharmed
    <2> QED
      BY <1>2, <1>4, <1>5, <2>1, CursorClean DEF Kind
  <1> QED
    BY <1>1, <1>2, <1>6, SeekChunkMoves, MovesKind

LEMMA ReadChunkKind ==
    ASSUME NEW counted, Inv(counted), NEW c, Clients = {c}, Kind(c, counted), NEW reads,
           NEW cuts, ReadChunk(c, reads, cuts), \A a \in reads : MayCome(a)
    PROVE  Kind(c, counted)' /\ Moved(c)
  <1> DEFINE first == frame[c].at % ChunkSectors
             n == Lesser(ChunkSectors - first, frame[c].rest)
             taken(d) == IF n = ChunkSectors THEN Attempt(d, "ok")
                         ELSE Slice(d, first * SectorSize, (first + n) * SectorSize, cuts)
             Read(a) == IF a.out = "ok" THEN taken(a.gives) ELSE a
             more(b) == [frame[c] EXCEPT !.buf = @ \o b.gives, !.at = @ + n, !.rest = @ - n]
  <1>1. frame[c] \in Frames
    BY DEF Inv
  <1>2. pc[c] = "data" /\ opened' = opened /\ SetCursor(c, Elsewhere)
    BY Zenon DEF ReadChunk
  <1>3. PICK a \in reads :
          LET b == Read(a)
          IN  CASE b.out = "fault" -> Fault(c)
                [] b.out = "ok" -> Goto(c, "chunk", more(b)) /\ UNCHANGED faults
                [] OTHER -> Return(c, <<>>, b.out) /\ UNCHANGED faults
    BY Zenon DEF ReadChunk
  <1>4. faults' = faults \/ Fault(c)
    <2> DEFINE b == Read(a)
    <2> HIDE DEF b, more
    <2>1. CASE b.out = "fault"
      BY <1>3, <2>1 DEF b
    <2>2. CASE b.out = "ok"
      BY <1>3, <2>2 DEF b
    <2>3. CASE b.out \notin {"fault", "ok"}
      BY <1>3, <2>3 DEF b
    <2> QED
      BY <2>1, <2>2, <2>3
  <1>5. Elsewhere \in Cursors /\ Elsewhere.at # "section"
    BY DEF Elsewhere, At, Cursors
  <1>6. Clean(counted)'
    <2> SUFFICES ASSUME Unharmed'
                 PROVE  Clean(counted)'
      BY DEF Clean
    <2>1. faults' = 0
      BY DEF Unharmed
    <2>2. Unharmed
      BY <1>2, <1>4, <2>1, FaultCounts DEF Unharmed
    <2> QED
      BY <1>2, <1>5, <2>2, CursorClean DEF Kind
  <1> QED
    BY <1>1, <1>2, <1>6, ReadChunkMoves, MovesKind

\* Decode of the segment a call needs.
LEMMA DecodeSegmentKind ==
    ASSUME NEW counted, Inv(counted), NEW c, Clients = {c}, Kind(c, counted), NEW decodes,
           DecodeSegment(c, decodes),
           \A a \in decodes : DecodesTo(a, SegmentOf(c), LinkOf(c)),
           \A a \in decodes : MayCome(a),
           Unharmed => \A a \in decodes : GivesClean(a, counted)
    PROVE  Kind(c, counted)' /\ Moved(c)
  <1>1. pc[c] # "idle"
    BY Zenon DEF DecodeSegment
  <1>3. Moves(c)
    BY DecodeSegmentMoves
  <1>4. Clean(counted)'
    BY DecodeSegmentClean DEF Kind
  <1> QED
    BY <1>1, <1>3, <1>4, MovesKind

\* The beginning of a call.
LEMMA CallKind ==
    ASSUME NEW counted, Inv(counted), NEW c, Clients = {c}, Kind(c, counted), Call(c)
    PROVE  Kind(c, counted)' /\ Moved(c)
  <1>1. Course(c)'
    BY CourseCall DEF Kind
  <1>2. pc[c] = "idle" /\ UNCHANGED <<opened, segs, faults>>
    BY DEF Call, CallReadAt, CallRead, CallSegment, Seek, BeginRead, Begin, Idle
  <1>3. Clean(counted)'
    BY <1>2, CleanSame DEF Kind
  <1> QED
    BY <1>1, <1>3 DEF Kind, Moved

LEMMA OpenEWFKind ==
    ASSUME NEW counted, Inv(counted), NEW c, Clients = {c}, Kind(c, counted), AllGiven,
           NEW decodes, OpenEWF(decodes),
           \A f \in DOMAIN Files : \A a \in decodes[f] : DecodesTo(a, NewSegment(f), <<>>),
           \A f \in DOMAIN Files : \A a \in decodes[f] : f = 1 => GivesClean(a, counted)
    PROVE  Kind(c, counted)' /\ Moved(c)
  <1>1. Clean(counted)'
    BY OpenEWFClean
  <1>2. UNCHANGED <<position, pc, frame, result>>
    BY Zenon DEF OpenEWF
  <1> QED
    BY <1>1, <1>2 DEF Kind, Course, Moved

LEMMA SameKind ==
    ASSUME NEW counted, NEW c, Kind(c, counted), UNCHANGED vars
    PROVE  Kind(c, counted)' /\ Moved(c)
  <1>1. UNCHANGED <<opened, segs, position, pc, frame, result, faults>>
    BY DEF vars
  <1> QED
    BY <1>1 DEF Kind, Course, Moved, Clean, Unharmed, Sane, Filled, GoodSegment

\* One step of the EVF1 reader.
LEMMA NextEvf1Kind ==
    ASSUME NEW c, Clients = {c}, AllGiven, Inv(TRUE), More(TRUE), Kind(c, TRUE), [Next]_vars
    PROVE  Kind(c, TRUE)' /\ Moved(c)
  <1>1. CASE UNCHANGED vars
    BY <1>1, SameKind, Zenon
  <1>2. CASE OpenEWF([f \in DOMAIN Files |-> DecodeEvf1(NewSegment(f), <<>>)])
    <2> DEFINE decodes == [f \in DOMAIN Files |-> DecodeEvf1(NewSegment(f), <<>>)]
    <2>1. ASSUME NEW f \in DOMAIN Files, NEW a \in decodes[f]
          PROVE  DecodesTo(a, NewSegment(f), <<>>) /\ (f = 1 => GivesClean(a, TRUE))
      <3>1. SegmentOK(NewSegment(f)) /\ ~NewSegment(f).decoded
        BY NewSegmentOK DEF NewSegment
      <3>2. LinkOK(<<>>) /\ faults \in 0..MaxFaults
        BY DEF LinkOK, Inv
      <3>3. a \in DecodeEvf1(NewSegment(f), <<>>)
        OBVIOUS
      <3> QED
        BY <3>1, <3>2, <3>3, DecodeEvf1OK, DecodeEvf1New
    <2>2. OpenEWF(decodes)
      BY <1>2
    <2> HIDE DEF decodes
    <2> QED
      BY <2>1, <2>2, OpenEWFKind
  <1>3. CASE Call(c)
    BY <1>3, CallKind
  <1>4. CASE DecodeSegment(c, DecodeEvf1(SegmentOf(c), LinkOf(c)))
    <2> DEFINE decodes == DecodeEvf1(SegmentOf(c), LinkOf(c))
    <2>0. PICK i : frame[c].seg = i
      OBVIOUS
    <2>1. /\ i \in DOMAIN segs /\ ~segs[i].decoded /\ pc[c] \in {"find", "segment", "asked"}
          /\ pc[c] = "segment" => frame[c].count > 0
      BY <1>4, <2>0, Zenon DEF DecodeSegment
    <2>2. SegmentOK(SegmentOf(c)) /\ LinkOK(LinkOf(c)) /\ ~SegmentOf(c).decoded
      BY <2>0, <2>1, LinkOfOK DEF SegmentOf
    <2>3. faults \in 0..MaxFaults
      BY DEF Inv
    <2>4. \A a \in decodes : DecodesTo(a, SegmentOf(c), LinkOf(c))
      BY <2>2, <2>3, DecodeEvf1OK
    <2>5. \A a \in decodes : MayCome(a)
      BY DecodeEvf1Faults
    <2>6. ASSUME Unharmed, NEW a \in decodes
          PROVE  GivesClean(a, TRUE)
      <3>1. /\ i \in DOMAIN Files /\ SegmentOf(c) = NewSegment(i)
            /\ i = 1 \/ (LinkOf(c) # <<>> /\ LinkOf(c)[1].volume)
        BY <2>0, <2>1, <2>6, NewToDecode DEF Kind
      <3>2. a \in DecodeEvf1(NewSegment(i), LinkOf(c))
        BY <3>1
      <3> QED
        BY <2>2, <3>1, <3>2, DecodeEvf1New
    <2>7. DecodeSegment(c, decodes)
      BY <1>4
    <2> HIDE DEF decodes
    <2> QED
      BY <2>4, <2>5, <2>6, <2>7, DecodeSegmentKind
  <1>5. ASSUME \/ SegmentAsked(c) \/ Find(c) \/ NextSegment(c) \/ NextTable(c)
               \/ NextChunk(c, IndexEvf1(frame[c].at, Table(c)))
        PROVE  Kind(c, TRUE)' /\ Moved(c)
    <2>1. PICK index : index = IndexEvf1(frame[c].at, Table(c))
      OBVIOUS
    <2>2. \/ SegmentAsked(c) \/ Find(c) \/ NextSegment(c) \/ NextTable(c)
          \/ NextChunk(c, index)
      BY <1>5, <2>1
    <2> QED
      BY <2>2, LoopsKind
  <1>6. CASE AllocEntries(c) \/ FillEntries(c)
    BY <1>6, EntriesKind
  <1>7. CASE SeekChunk(c, SeekEvf1(frame[c]))
    <2>1. pc[c] = "seek"
      BY <1>7, Zenon DEF SeekChunk
    <2>2. \A a \in SeekEvf1(frame[c]) : /\ a.cursor \in Cursors /\ a.cursor.at # "section"
                                        /\ a.out # "none"
      BY <2>1, SeekEvf1Type
    <2> QED
      BY <1>7, <2>2, SeekChunkKind
  <1>8. CASE ReadChunk(c, ReadEvf1(frame[c]), FALSE)
    <2>1. \A a \in ReadEvf1(frame[c]) : MayCome(a)
      BY ReadEvf1Faults
    <2> QED
      BY <1>8, <2>1, ReadChunkKind
  <1>9. \/ UNCHANGED vars
        \/ OpenEWF([f \in DOMAIN Files |-> DecodeEvf1(NewSegment(f), <<>>)])
        \/ Call(c) \/ Step(c)
    BY Zenon DEF Next
  <1> QED
    BY <1>1, <1>2, <1>3, <1>4, <1>5, <1>6, <1>7, <1>8, <1>9, Zenon DEF Step

\* One step of the EVF2 reader.
LEMMA NextEvf2Kind ==
    ASSUME NEW c, Clients = {c}, AllGiven, Inv(FALSE), More(FALSE), Kind(c, FALSE),
           [Evf2!Next]_vars
    PROVE  Kind(c, FALSE)' /\ Moved(c)
  <1> DEFINE opens == [f \in DOMAIN Files |-> Evf2!DecodeEvf2(NewSegment(f), <<>>)]
  <1>1. CASE UNCHANGED vars
    BY <1>1, SameKind, Zenon
  <1>2. CASE OpenEWF(opens)
    <2>1. ASSUME NEW f \in DOMAIN Files, NEW a \in opens[f]
          PROVE  DecodesTo(a, NewSegment(f), <<>>) /\ GivesClean(a, FALSE)
      <3>1. SegmentOK(NewSegment(f)) /\ ~NewSegment(f).decoded
        BY NewSegmentOK DEF NewSegment
      <3>2. LinkOK(<<>>)
        BY DEF LinkOK
      <3>3. a \in Evf2!DecodeEvf2(NewSegment(f), <<>>)
        OBVIOUS
      <3> QED
        BY <3>1, <3>2, <3>3, DecodeEvf2OK, DecodeEvf2New
    <2> HIDE DEF opens
    <2> QED
      BY <1>2, <2>1, OpenEWFKind
  <1>3. CASE Call(c)
    BY <1>3, CallKind
  <1>4. CASE DecodeSegment(c, Evf2!DecodeEvf2(SegmentOf(c), LinkOf(c)))
    <2> DEFINE decodes == Evf2!DecodeEvf2(SegmentOf(c), LinkOf(c))
    <2>0. PICK i : frame[c].seg = i
      OBVIOUS
    <2>1. /\ i \in DOMAIN segs /\ ~segs[i].decoded /\ pc[c] \in {"find", "segment", "asked"}
          /\ pc[c] = "segment" => frame[c].count > 0
      BY <1>4, <2>0, Zenon DEF DecodeSegment
    <2>2. SegmentOK(SegmentOf(c)) /\ LinkOK(LinkOf(c)) /\ ~SegmentOf(c).decoded
      BY <2>0, <2>1, LinkOfOK DEF SegmentOf
    <2>4. \A a \in decodes : DecodesTo(a, SegmentOf(c), LinkOf(c))
      BY <2>2, DecodeEvf2OK
    <2>5. \A a \in decodes : MayCome(a)
      BY DecodeEvf2Faults
    <2>6. ASSUME Unharmed, NEW a \in decodes
          PROVE  GivesClean(a, FALSE)
      <3>1. i \in DOMAIN Files /\ SegmentOf(c) = NewSegment(i)
        BY <2>0, <2>1, <2>6, NewToDecode DEF Kind
      <3>2. a \in Evf2!DecodeEvf2(NewSegment(i), LinkOf(c))
        BY <3>1
      <3> QED
        BY <2>2, <3>1, <3>2, DecodeEvf2New
    <2>7. DecodeSegment(c, decodes)
      BY <1>4
    <2> HIDE DEF decodes
    <2> QED
      BY <2>4, <2>5, <2>6, <2>7, DecodeSegmentKind
  <1>5. ASSUME \/ SegmentAsked(c) \/ Find(c) \/ NextSegment(c) \/ NextTable(c)
               \/ NextChunk(c, Evf2!IndexEvf2(frame[c].at, Table(c)))
        PROVE  Kind(c, FALSE)' /\ Moved(c)
    <2>1. PICK index : index = Evf2!IndexEvf2(frame[c].at, Table(c))
      OBVIOUS
    <2>2. \/ SegmentAsked(c) \/ Find(c) \/ NextSegment(c) \/ NextTable(c)
          \/ NextChunk(c, index)
      BY <1>5, <2>1
    <2> QED
      BY <2>2, LoopsKind
  <1>6. CASE AllocEntries(c) \/ FillEntries(c)
    BY <1>6, EntriesKind
  <1>7. CASE SeekChunk(c, Evf2!SeekEvf2(frame[c]))
    <2>1. c \in Clients
      OBVIOUS
    <2>2. \A a \in Evf2!SeekEvf2(frame[c]) : /\ a.cursor \in Cursors /\ a.cursor.at # "section"
                                        /\ a.out # "none"
      BY <2>1, SeekEvf2Type
    <2> QED
      BY <1>7, <2>2, SeekChunkKind
  <1>8. CASE ReadChunk(c, Evf2!ReadEvf2(frame[c]), TRUE)
    <2>1. \A a \in Evf2!ReadEvf2(frame[c]) : MayCome(a)
      BY ReadEvf2Faults
    <2> QED
      BY <1>8, <2>1, ReadChunkKind
  <1>9. \/ UNCHANGED vars \/ OpenEWF(opens) \/ Evf2!Call(c) \/ Evf2!Step(c)
    <2>1. opens = [f \in DOMAIN Files |-> Evf2!DecodeEvf2(Evf2!NewSegment(f), <<>>)]
      BY Evf2NewSegment
    <2> HIDE DEF opens
    <2> QED
      BY <2>1, Evf2OpenEWF DEF Evf2!Next
  <1>10. Evf2!Call(c) \/ Evf2!Step(c) =>
           \/ Call(c) \/ DecodeSegment(c, Evf2!DecodeEvf2(SegmentOf(c), LinkOf(c)))
           \/ SegmentAsked(c) \/ Find(c) \/ NextSegment(c) \/ NextTable(c)
           \/ NextChunk(c, Evf2!IndexEvf2(frame[c].at, Table(c)))
           \/ AllocEntries(c) \/ FillEntries(c)
           \/ SeekChunk(c, Evf2!SeekEvf2(frame[c]))
           \/ ReadChunk(c, Evf2!ReadEvf2(frame[c]), TRUE)
    BY Evf2Call, Evf2DecodeSegment, Evf2SegmentOf, Evf2LinkOf, Evf2SegmentAsked,
       Evf2Find, Evf2NextSegment, Evf2NextTable, Evf2NextChunk, Evf2Table, Evf2AllocEntries,
       Evf2FillEntries, Evf2SeekChunk, Evf2ReadChunk
       DEF Evf2!Step
  <1> HIDE DEF opens
  <1> QED
    BY <1>1, <1>2, <1>3, <1>4, <1>5, <1>6, <1>7, <1>8, <1>9, <1>10, Zenon

(***************************************************************************)
(* Every step of the reader is one of the abstract reader, or none.        *)
(***************************************************************************)
\* The inductive invariant of a reader with the client c, and what follows from it.
Good(c, counted) == Inv(counted) /\ More(counted) /\ Kind(c, counted)

Answers(c) == Sound => IsRight(c)

\* EwfReads extends EwfReadAt with the same constants.
LEMMA ReadsNoOutcome == Reads!NoOutcome = NoOutcome
  BY DEF NoOutcome, Outcome, Reads!NoOutcome, Reads!Outcome

LEMMA ReadsReadAt ==
    ASSUME NEW sectors, NEW off, NEW len
    PROVE  Reads!ReadAt(sectors, off, len) = ReadAt(sectors, off, len)
  BY DEF ReadAt, SectorsAsked, CeilDiv, Lesser, CopyLength, Outcome, BytesFrom,
     Reads!ReadAt, Reads!SectorsAsked, Reads!CeilDiv, Reads!Lesser, Reads!CopyLength,
     Reads!Outcome, Reads!BytesFrom

\* The client whose calls and answers the refinement mapping looks at.
LEMMA TheOnlyClient ==
    ASSUME NEW c, Clients = {c}
    PROVE  Caller = c
  BY DEF Caller

\* A reader that is not open yet has given no answer.
LEMMA InitReads ==
    ASSUME NEW c, Clients = {c}, NEW counted, Init
    PROVE  Good(c, counted) /\ Reads!Init
  <1>1. /\ opened = "no" /\ position = 0 /\ pc[c] = "idle" /\ frame[c] = NoCall
        /\ result = [d \in Clients |-> NoOutcome]
    BY DEF Init
  <1>2. Course(c)
    BY <1>1 DEF Course, NoCall
  <1>3. Clean(counted)
    BY <1>1 DEF Clean, Unharmed
  <1>4. Inv(counted) /\ More(counted)
    BY InitOK, InitMore
  <1>5. result[Caller] = NoOutcome /\ frame[Caller] = NoCall
    BY <1>1, TheOnlyClient
  <1>6. Asked = Reads!NoRequest
    BY <1>5 DEF Asked, NoCall, Reads!NoRequest, Reads!Request
  <1>7. Reads!Init
    BY <1>1, <1>5, <1>6, ReadsNoOutcome DEF Reads!Init
  <1> QED
    BY <1>2, <1>3, <1>4, <1>7 DEF Good, Kind

\* While the reader is sound its last answer is right: a reader that is intact,
\* or that no failure and no call of Segment has touched, is pristine.
LEMMA GoodAnswers ==
    ASSUME NEW c, Clients = {c}, NEW counted, Good(c, counted)
    PROVE  Answers(c)
  <1> SUFFICES ASSUME Sound
               PROVE  IsRight(c)
    BY DEF Answers
  <1>1. c \in Clients /\ Inv(counted) /\ More(counted) /\ Course(c) /\ Clean(counted)
    BY DEF Good, Kind
  <1>2. CASE pc[c] # "idle"
    BY <1>1, <1>2, Zenon DEF More, Calling, IsRight
  <1>3. CASE opened # "yes"
    BY <1>1, <1>3, Zenon DEF More, Opened, IsRight
  <1>4. CASE pc[c] = "idle" /\ opened = "yes"
    <2>1. Pristine
      <3>1. CASE Intact
        BY <1>1, <3>1, IntactIsPristine
      <3>2. CASE faults = 0 /\ "Segment" \notin Calls
        <4>1. Unharmed
          BY <1>4, <3>2 DEF Unharmed
        <4> QED
          BY <1>1, <4>1, CleanIsPristine
      <3> QED
        BY <3>1, <3>2 DEF Sound
    <2> QED
      BY <1>1, <1>4, <2>1, Zenon DEF More, WentRight, Course
  <1> QED
    BY <1>2, <1>3, <1>4

\* The end of a call is the step of EwfReads that answers this call.
LEMMA EndReads ==
    ASSUME NEW d, Clients = {d}, NEW counted, Good(d, counted), Good(d, counted)', Answers(d)',
           pc[d] # "idle", NEW data, NEW err, err # "none", NEW hit, End(d, data, err, hit)
    PROVE  Reads!Next
  <1> DEFINE f == frame[d]
             r == result[Caller]
  <1>1. /\ d \in Clients /\ result \in [Clients -> Results] /\ frame \in [Clients -> Frames]
        /\ position \in Nat
    BY DEF Good, Inv
  <1>2. Caller = d
    BY TheOnlyClient
  <1>3. f.call \in {"ReadAt", "Read", "Segment"} /\ (f.call = "Read" => f.off = position)
    BY DEF Good, Kind, Course
  <1>4. Asked.call = f.call /\ Asked.off = f.off /\ Asked.len = f.len
    BY <1>2 DEF Asked
  <1>5. Asked' = Reads!NoRequest
    <2>1. frame'[d] = [NoCall EXCEPT !.alone = f.alone, !.hit = hit]
      BY <1>1, Zenon DEF End
    <2>2. frame'[d].call = "none" /\ frame'[d].off = 0 /\ frame'[d].len = 0
      BY <2>1 DEF NoCall
    <2> QED
      BY <1>2, <2>2 DEF Asked, Caller, Reads!NoRequest, Reads!Request
  <1>6. position' = IF f.call = "Read" THEN position + Len(data) ELSE position
    BY DEF End
  <1>7. CASE f.call = "Segment"
    <2>1. UNCHANGED <<result, position>>
      BY <1>6, <1>7 DEF End
    <2>2. Reads!SegmentStep
      BY <1>4, <1>5, <1>7, <2>1 DEF Reads!SegmentStep, Reads!Returns, Caller
    <2> QED
      BY <2>2 DEF Reads!Next
  <1>8. CASE f.call # "Segment"
    <2>1. r' = Outcome(f.off, f.len, data, err) /\ result'[d] = r'
      BY <1>1, <1>2, <1>8 DEF End, Caller
    <2>2. /\ r'.off = f.off /\ r'.len = f.len /\ r'.data = data /\ r'.err = err
          /\ r' # NoOutcome
      BY <2>1 DEF Outcome, NoOutcome
    <2>3. \/ ~Sound'
          \/ r' = ReadAt(ImageSectors, f.off, f.len)
          \/ FaultKinds # {} /\ r'.data = <<>> /\ r'.err \in {"failed", "EOF"}
      <3>1. frame[d].hit' => FaultKinds # {}
        BY DEF Good, Kind, Course
      <3>2. FaultErrors \subseteq {"failed", "EOF"}
        BY ReaderAssumption
      <3> QED
        BY <2>1, <2>2, <3>1, <3>2 DEF Answers, IsRight
    <2>4. Reads!Gives(f.off)
      <3>1. Reads!ReadAt(ImageSectors, f.off, f.len) = ReadAt(ImageSectors, f.off, f.len)
        BY ReadsReadAt
      <3> QED
        BY <1>4, <2>2, <2>3, <3>1 DEF Reads!Gives
    <2>5. CASE f.call = "Read"
      <3>1. Reads!Gives(position) /\ position' = position + Len(r'.data)
        BY <1>3, <1>6, <2>2, <2>4, <2>5
      <3>2. Reads!ReadStep
        BY <1>4, <1>5, <2>5, <3>1 DEF Reads!ReadStep, Reads!Returns
      <3> QED
        BY <3>2 DEF Reads!Next
    <2>6. CASE f.call = "ReadAt"
      <3>1. Reads!Gives(Asked.off) /\ position' = position
        BY <1>4, <1>6, <2>4, <2>6
      <3>2. Reads!ReadAtStep
        BY <1>4, <1>5, <2>6, <3>1 DEF Reads!ReadAtStep, Reads!Returns
      <3> QED
        BY <3>2 DEF Reads!Next
    <2> QED
      BY <1>3, <1>8, <2>5, <2>6
  <1> QED
    BY <1>7, <1>8

\* No call runs while the client is idle.
LEMMA NoneAsked ==
    ASSUME NEW c, Clients = {c}, NEW counted, Good(c, counted), pc[c] = "idle"
    PROVE  Asked = Reads!NoRequest
  BY TheOnlyClient DEF Good, Kind, Course, Asked, Reads!NoRequest, Reads!Request

\* The beginning of a call takes the answer of the last one away.
LEMMA BeginReads ==
    ASSUME NEW c, Clients = {c}, NEW counted, Good(c, counted), pc[c] = "idle", NEW place,
           NEW f, {"call", "off", "len"} \subseteq DOMAIN f, Begin(c, place, f),
           f.call \in {"ReadAt", "Read", "Segment"}, f.call = "Read" => f.off = position
    PROVE  Reads!Next
  <1>1. c \in Clients /\ result \in [Clients -> Results]
    BY DEF Good, Inv
  <1>2. result'[c] = NoOutcome /\ position' = position
    BY <1>1 DEF Begin
  <1>3. frame'[c] = [f EXCEPT !.alone = Others(c) = {}]
    BY <1>1, Zenon DEF Begin
  <1>4. frame'[c].call = f.call /\ frame'[c].off = f.off
    BY <1>3
  <1>5. Asked'.call = f.call /\ Asked'.off = f.off
    BY <1>4, TheOnlyClient DEF Asked, Caller
  <1>6. Reads!CallStep
    BY <1>2, <1>5, NoneAsked, TheOnlyClient, ReadsNoOutcome DEF Reads!CallStep, Caller
  <1> QED
    BY <1>6 DEF Reads!Next

LEMMA BeginReadReads ==
    ASSUME NEW c, Clients = {c}, NEW counted, Good(c, counted), pc[c] = "idle",
           NEW call \in {"ReadAt", "Read"}, NEW off, NEW len, BeginRead(c, call, off, len),
           call = "Read" => off = position
    PROVE  Reads!Next
  <1> DEFINE sector == off \div SectorSize
             count == SectorsAsked(off, len)
             f == [NoCall EXCEPT !.call = call, !.off = off, !.len = len, !.seg = 1,
                                 !.sector = sector, !.count = count]
  <1>1. Begin(c, "find", f)
    BY Zenon DEF BeginRead
  <1> HIDE DEF sector, count
  <1>2. f.call = call /\ f.off = off /\ {"call", "off", "len"} \subseteq DOMAIN f
    BY DEF NoCall
  <1> HIDE DEF f
  <1> QED
    BY <1>1, <1>2, BeginReads

\* A call begins, or is a Seek, which is done in one step.
LEMMA CallReads ==
    ASSUME NEW c, Clients = {c}, NEW counted, Good(c, counted), Call(c)
    PROVE  Reads!Next
  <1>1. pc[c] = "idle"
    BY DEF Call, CallReadAt, CallRead, CallSegment, Seek, Idle
  <1>2. CASE CallReadAt(c)
    <2>1. PICK off \in Offsets, len \in Lengths : BeginRead(c, "ReadAt", off, len)
      BY <1>2 DEF CallReadAt
    <2> QED
      BY <1>1, <2>1, BeginReadReads
  <1>3. CASE CallRead(c)
    <2>1. PICK len \in Lengths : BeginRead(c, "Read", position, len)
      BY <1>3 DEF CallRead
    <2> QED
      BY <1>1, <2>1, BeginReadReads
  <1>4. CASE CallSegment(c)
    <2>1. PICK i \in DOMAIN segs :
            Begin(c, "asked", [NoCall EXCEPT !.call = "Segment", !.seg = i])
      BY <1>4, Zenon DEF CallSegment
    <2> DEFINE f == [NoCall EXCEPT !.call = "Segment", !.seg = i]
    <2>2. f.call = "Segment" /\ {"call", "off", "len"} \subseteq DOMAIN f
      BY DEF NoCall
    <2>3. Begin(c, "asked", f)
      BY <2>1
    <2> HIDE DEF f
    <2> QED
      BY <1>1, <2>2, <2>3, BeginReads
  <1>5. CASE Seek(c)
    <2>1. position' \in 0..MaxPosition /\ UNCHANGED <<frame, result>>
      BY <1>5 DEF Seek
    <2>2. position' \in Nat
      BY <2>1, ReaderAssumption
    <2>3. Reads!SeekStep
      BY <1>1, <2>1, <2>2, NoneAsked DEF Reads!SeekStep, Asked, Caller
    <2> QED
      BY <2>3 DEF Reads!Next
  <1> QED
    BY <1>2, <1>3, <1>4, <1>5 DEF Call

\* A step that Moved allows is one of EwfReads, or stutters.
LEMMA Simulates ==
    ASSUME NEW d, Clients = {d}, NEW counted, Good(d, counted), Good(d, counted)',
           Answers(d)', Moved(d)
    PROVE  [Reads!Next]_<<position, Asked, result[Caller]>>
  <1>1. CASE UNCHANGED <<frame, position, result>>
    BY <1>1 DEF Asked, Caller
  <1>2. CASE Call(d)
    BY <1>2, CallReads
  <1>3. ASSUME pc[d] # "idle", NEW place, NEW g, Goto(d, place, g), SameCall(frame[d], g)
        PROVE  UNCHANGED <<position, Asked, result[Caller]>>
    <2>1. d \in Clients /\ frame \in [Clients -> Frames] /\ Caller = d
      BY TheOnlyClient DEF Good, Inv
    <2>2. frame'[d] = g /\ UNCHANGED <<position, result>>
      BY <1>3, <2>1 DEF Goto
    <2> QED
      BY <1>3, <2>1, <2>2 DEF SameCall, Asked, Caller
  <1>4. ASSUME pc[d] # "idle", NEW data, NEW err, Return(d, data, err), err # "none"
        PROVE  Reads!Next
    BY <1>4, EndReads DEF Return
  <1>5. ASSUME pc[d] # "idle", Fault(d)
        PROVE  Reads!Next
    <2>1. PICK err \in FaultErrors : End(d, <<>>, err, TRUE)
      BY <1>5 DEF Fault
    <2>2. err # "none"
      BY ReaderAssumption
    <2> QED
      BY <1>5, <2>1, <2>2, EndReads
  <1>6. CASE pc[d] # "idle" /\ Moves(d)
    <2>1. \/ \E place, g : Goto(d, place, g) /\ SameCall(frame[d], g)
          \/ \E data, err : Return(d, data, err) /\ err # "none"
          \/ Fault(d)
          \/ UNCHANGED <<frame, position, result>>
      BY <1>6, Zenon DEF Moves
    <2>2. \/ UNCHANGED <<position, Asked, result[Caller]>>
          \/ UNCHANGED <<frame, position, result>>
          \/ Reads!Next
      BY <1>3, <1>4, <1>5, <1>6, <2>1, Zenon
    <2> QED
      BY <1>1, <2>2
  <1> QED
    BY <1>1, <1>2, <1>6 DEF Moved

(***************************************************************************)
(* A reader of an EVF1 image that has one client and was given the files   *)
(* of the whole image, in any order, implements EwfReads: whatever its     *)
(* reads of the files come to, and however often they fail, the end of a   *)
(* Read moves the position by exactly the bytes it gave, and besides only  *)
(* a Seek, made while no call runs, moves it.  ReadAt and Read give the    *)
(* bytes of the image, Read those from the position on, or fail with no    *)
(* byte, as long as what the reader keeps of the image is sound.           *)
(***************************************************************************)
THEOREM Evf1ReaderImplementsReads ==
    ASSUME NEW d, Clients = {d}, AllGiven
    PROVE  Spec => ImplementsReads
  <1>1. Init => Good(d, TRUE) /\ Reads!Init
    BY InitReads
  <1>2. Good(d, TRUE) /\ [Next]_vars => Good(d, TRUE)' /\ Moved(d)
    <2> SUFFICES ASSUME Inv(TRUE), More(TRUE), Kind(d, TRUE), [Next]_vars
                 PROVE  Good(d, TRUE)' /\ Moved(d)
      BY Zenon DEF Good
    <2>1. Inv(TRUE)'
      BY NextEvf1OK
    <2>2. More(TRUE)'
      BY NextEvf1More
    <2>3. Kind(d, TRUE)' /\ Moved(d)
      BY NextEvf1Kind
    <2> QED
      BY <2>1, <2>2, <2>3 DEF Good
  <1>3. Good(d, TRUE) => Answers(d)
    BY GoodAnswers
  <1>4. Good(d, TRUE) /\ Good(d, TRUE)' /\ Answers(d)' /\ Moved(d)
          => [Reads!Next]_<<position, Asked, result[Caller]>>
    BY Simulates
  <1> QED
    BY <1>1, <1>2, <1>3, <1>4, PTL DEF Spec, ImplementsReads, Reads!Spec, AllGiven

\* The same of a reader of an EVF2 image.
THEOREM Evf2ReaderImplementsReads ==
    ASSUME NEW d, Clients = {d}, AllGiven
    PROVE  Evf2!Spec => ImplementsReads
  <1>1. Evf2!Init => Good(d, FALSE) /\ Reads!Init
    BY InitReads, Evf2Init
  <1>2. Good(d, FALSE) /\ [Evf2!Next]_Evf2!vars => Good(d, FALSE)' /\ Moved(d)
    <2> SUFFICES ASSUME Inv(FALSE), More(FALSE), Kind(d, FALSE), [Evf2!Next]_Evf2!vars
                 PROVE  Good(d, FALSE)' /\ Moved(d)
      BY Zenon DEF Good
    <2>0. [Evf2!Next]_vars
      BY DEF vars, Evf2!vars
    <2>1. Inv(FALSE)'
      BY <2>0, NextEvf2OK
    <2>2. More(FALSE)'
      BY <2>0, NextEvf2More
    <2>3. Kind(d, FALSE)' /\ Moved(d)
      BY <2>0, NextEvf2Kind
    <2> QED
      BY <2>1, <2>2, <2>3 DEF Good
  <1>3. Good(d, FALSE) => Answers(d)
    BY GoodAnswers
  <1>4. Good(d, FALSE) /\ Good(d, FALSE)' /\ Answers(d)' /\ Moved(d)
          => [Reads!Next]_<<position, Asked, result[Caller]>>
    BY Simulates
  <1> QED
    BY <1>1, <1>2, <1>3, <1>4, PTL DEF Evf2!Spec, ImplementsReads, Reads!Spec, AllGiven

\* ImplementsReads is the same formula in Evf2Reader, which extends EwfReader on
\* its own.
LEMMA Evf2ReadsReadAt ==
    ASSUME NEW sectors, NEW off, NEW len
    PROVE  Evf2!Reads!ReadAt(sectors, off, len) = Reads!ReadAt(sectors, off, len)
  BY DEF Evf2!Reads!ReadAt, Evf2!Reads!SectorsAsked, Evf2!Reads!CeilDiv, Evf2!Reads!Lesser,
     Evf2!Reads!CopyLength, Evf2!Reads!Outcome, Evf2!Reads!BytesFrom,
     Reads!ReadAt, Reads!SectorsAsked, Reads!CeilDiv, Reads!Lesser, Reads!CopyLength,
     Reads!Outcome, Reads!BytesFrom

LEMMA Evf2ReadsNoOutcome == Evf2!Reads!NoOutcome = Reads!NoOutcome
  BY DEF Evf2!Reads!NoOutcome, Reads!NoOutcome, Evf2!Reads!Outcome, Reads!Outcome

LEMMA Evf2Asked ==
    /\ Evf2!Caller = Caller /\ Evf2!Asked = Asked /\ Evf2!Asked' = Asked'
    /\ Evf2!Reads!NoRequest = Reads!NoRequest
  BY DEF Evf2!Caller, Caller, Evf2!Asked, Asked, Evf2!Reads!NoRequest, Evf2!Reads!Request,
     Reads!NoRequest, Reads!Request

LEMMA Evf2Sound == Evf2!Sound' <=> Sound'
  BY Evf2ChunksIn, Evf2ChunksBefore, Evf2TableStart, Evf2At
     DEF Sound, Evf2!Sound, Intact, Evf2!Intact

LEMMA Evf2Answer == result[Evf2!Caller]' = result[Caller]'
  BY DEF Evf2!Caller, Caller

LEMMA Evf2Gives == ASSUME NEW off PROVE Evf2!Reads!Gives(off) <=> Reads!Gives(off)
  BY Evf2Sound, Evf2ImageSectors, Evf2ReadsReadAt, Evf2Asked, Evf2Answer
     DEF Reads!Gives, Evf2!Reads!Gives

LEMMA Evf2Returns == ASSUME NEW call PROVE Evf2!Reads!Returns(call) <=> Reads!Returns(call)
  BY Evf2Asked DEF Reads!Returns, Evf2!Reads!Returns

LEMMA Evf2ImplementsReads == Evf2!ImplementsReads <=> ImplementsReads
  <1>1. Evf2!Reads!Init <=> Reads!Init
    BY Evf2ReadsNoOutcome, Evf2Asked DEF Evf2!Reads!Init, Reads!Init
  <1>2. Evf2!Reads!Next <=> Reads!Next
    <2>1. Evf2!Reads!CallStep <=> Reads!CallStep
      BY Evf2ReadsNoOutcome, Evf2Asked, Evf2Answer DEF Evf2!Reads!CallStep, Reads!CallStep
    <2>2. Evf2!Reads!SeekStep <=> Reads!SeekStep
      BY Evf2Asked, Evf2Answer DEF Evf2!Reads!SeekStep, Reads!SeekStep
    <2>3. Evf2!Reads!ReadStep <=> Reads!ReadStep
      BY Evf2Gives, Evf2Returns, Evf2Answer DEF Evf2!Reads!ReadStep, Reads!ReadStep
    <2>4. Evf2!Reads!ReadAtStep <=> Reads!ReadAtStep
      BY Evf2Gives, Evf2Returns, Evf2Asked DEF Evf2!Reads!ReadAtStep, Reads!ReadAtStep
    <2>5. Evf2!Reads!SegmentStep <=> Reads!SegmentStep
      BY Evf2Returns, Evf2Asked, Evf2Answer DEF Evf2!Reads!SegmentStep, Reads!SegmentStep
    <2> QED
      BY <2>1, <2>2, <2>3, <2>4, <2>5 DEF Evf2!Reads!Next, Reads!Next
  <1> QED
    BY <1>1, <1>2, PTL
       DEF Evf2!ImplementsReads, ImplementsReads, Reads!Spec, Evf2!Reads!Spec, Evf2!Asked,
           Asked, Evf2!Caller, Caller
=============================================================================
