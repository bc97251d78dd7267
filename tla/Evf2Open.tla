----------------------------- MODULE Evf2Open -----------------------------
(***************************************************************************)
(* What a reader gets from the file an Evf2Writer leaves, at any moment:   *)
(* OpenEWF with EWFSegment.Decode, and then ReadAt of every chunk in turn. *)
(* Bytes that are not an intact descriptor where one is expected count as  *)
(* an error, and so does a chain of descriptors that never ends.           *)
(***************************************************************************)
EXTENDS Evf2Writer

VARIABLE image   \* what a reader that opens the file now gets

EndOf(d) == IF d = {} THEN 0 ELSE Max({e.at + e.len : e \in d})

\* The loop of EWFSegment.Decode, from the last descriptor of the file to the
\* one that has no previous: the offsets at which it reads a descriptor.
Stops(d, p) == ~Holds(d, p, "section") \/ ObjAt(d, p).previous = 0

Walk(d) ==
    LET walk[n \in Nat] ==
          IF n = 0 THEN <<EndOf(d) - DescriptorSize>>
          ELSE LET w == walk[n - 1]
               IN  IF Stops(d, Head(w)) THEN w
                   ELSE <<ObjAt(d, Head(w)).previous>> \o w
    IN  walk[Cardinality(d)]

OfType(d, w, type) == SelectSeq(w, LAMBDA p : ObjAt(d, p).type = type)

\* The section types whose data Decode reads.
Decoded == {"device", "case", "table", "md5", "sha1"}

BodyAt(d, p) == p - ObjAt(d, p).size
Body(d, p) == ObjAt(d, BodyAt(d, p))

\* Segment.Decode returns no error and does not panic, for want of case data,
\* and OpenEWF finds the device information.
Opens(d, w) ==
    /\ Holds(d, 0, "file")
    /\ \A i \in DOMAIN w :
         /\ Holds(d, w[i], "section")
         /\ ObjAt(d, w[i]).type \in Decoded =>
              Holds(d, BodyAt(d, w[i]), ObjAt(d, w[i]).type)
    /\ Stops(d, Head(w))
    /\ OfType(d, w, "device") # <<>> /\ OfType(d, w, "case") # <<>>

TablesOf(d, w) ==
    LET ps == OfType(d, w, "table")
    IN  [i \in DOMAIN ps |-> [first |-> Body(d, ps[i]).first,
                              entries |-> Body(d, ps[i]).entries]]

\* Table.SectorOffset in chunks: the chunks of the tables before the i-th.
FirstChunk(ts, i) == SumFunction([j \in 1..(i - 1) |-> Len(ts[j].entries)])

\* EWFSegment.ReadSectors: the search among the tables' first sectors, and the
\* loop that moves on from a table with no sector left, end at the only table
\* that holds the chunk.
TableOfChunk(ts, chunk) ==
    CHOOSE i \in DOMAIN ts : /\ FirstChunk(ts, i) <= chunk
                             /\ chunk < FirstChunk(ts, i + 1)

\* EWFReader.ReadAt of one chunk: calculateIndex refuses one past the tables,
\* and EWFTableSection.readSectors takes its entry by the number the table
\* gives its first chunk.  No bytes when it fails.
ReadChunk(d, ts, chunk) ==
    LET t == ts[TableOfChunk(ts, chunk)]
        j == chunk - t.first + 1
        e == t.entries[j]
        data == ObjAt(d, e.offset).data
        readable == /\ chunk < FirstChunk(ts, Len(ts) + 1)
                    /\ j \in DOMAIN t.entries
                    /\ Holds(d, e.offset, "chunk")
                    /\ LenAt(d, e.offset) = e.size
                    /\ ObjAt(d, e.offset).packed = e.packed
    IN  IF readable THEN SubSeq(data, 1, Min({Len(data), ChunkSize})) ELSE <<>>

LastOf(s) == IF s = <<>> THEN <<>> ELSE <<Last(s)>>

\* OpenEWF, Size() from the case data, ReadAt chunk by chunk, and the sums of
\* the last MD5 and SHA1 sections.
Image(d) ==
    LET w == Walk(d)
        ts == TablesOf(d, w)
        count == Body(d, Head(OfType(d, w, "case"))).count
        sums == LastOf(OfType(d, w, "md5")) \o LastOf(OfType(d, w, "sha1"))
    IN  IF ~Opens(d, w) THEN NoImage
        ELSE ImageOf([i \in 1..count |-> ReadChunk(d, ts, i - 1)],
                     {Body(d, sums[i]).sum : i \in DOMAIN sums})

OpenInit == Init /\ image = Image(disk)
OpenNext == Next /\ image' = Image(disk')
OpenSpec == OpenInit /\ [][OpenNext]_<<vars, image>>

(***************************************************************************)
(* What the writer promises.                                               *)
(***************************************************************************)
Abstract == INSTANCE EwfImage WITH Atomic <- FALSE

\* A Close that returned nil leaves a whole image, provided the file begins
\* with its header (a Start that failed there may have been tried again behind
\* what it had written), no failure of the file was hidden, the client wrote as
\* many chunks as it declared, and no Close before it left tables behind unless
\* there is a single table to repeat.
ClosedImageIsComplete ==
    /\ result = "closed" /\ ~hidden /\ Holds(disk, 0, "file")
    /\ declared * ChunkSize = Len(stream)
    /\ closes = 1 \/ Len(tables) = 1
    => Abstract!IsWhole(image, stream)

\* After any failure, crash or repeated Close, a reader that can open the file
\* reads what the client wrote or gets an error, and the hashes are those of
\* the stream or of a beginning of it.
NeverWrongData == Abstract!Spec

\* README.md: "Close (computes and writes hashes)".
CloseWritesHashes ==
    result = "closed" => image.opened /\ image.hashes = {stream}
=============================================================================
