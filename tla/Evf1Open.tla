----------------------------- MODULE Evf1Open -----------------------------
(***************************************************************************)
(* What a reader gets from the file an Evf1Writer leaves, at any moment:   *)
(* OpenEWF with EWFSegment.Decode, and then ReadAt of every chunk in turn. *)
(*                                                                         *)
(* Opening is a function of the file, so a crash of the writer between two *)
(* of its steps is a state of Evf1Writer seen through Image.  Bytes that   *)
(* are not an intact descriptor where one is expected count as an error.   *)
(***************************************************************************)
EXTENDS Evf1Writer

VARIABLE image   \* what a reader that opens the file now gets

\* The for loop of EWFSegment.Decode: the offsets at which it reads a
\* descriptor.  It stops at a section that cannot be read, is "done", or is
\* its own Next; a file of n extents has no longer walk that ends.
Stops(d, p) == \/ ~Holds(d, p, "section")
               \/ ObjAt(d, p).type = "done"
               \/ ObjAt(d, p).next = p

Walk(d) ==
    LET walk[n \in Nat] ==
          IF n = 0 THEN <<FileHeaderSize>>
          ELSE LET w == walk[n - 1]
               IN  IF Stops(d, Last(w)) THEN w
                   ELSE Append(w, ObjAt(d, Last(w)).next)
    IN  walk[Cardinality(d)]

OfType(d, w, type) == SelectSeq(w, LAMBDA p : ObjAt(d, p).type = type)

\* The section types whose body Decode reads; it fails on a body cut short.
Decoded == {"header", "volume", "table", "digest", "hash", "data"}

Body(d, p) == ObjAt(d, p + DescriptorSize)

\* Segment.Decode returns no error, and OpenEWF finds a header and a volume.
Opens(d, w) ==
    /\ Holds(d, 0, "file")
    /\ \A i \in DOMAIN w :
         /\ Holds(d, w[i], "section")
         /\ ObjAt(d, w[i]).type \in Decoded =>
              Holds(d, w[i] + DescriptorSize, ObjAt(d, w[i]).type)
    /\ Stops(d, Last(w))
    /\ OfType(d, w, "header") # <<>> /\ OfType(d, w, "volume") # <<>>

\* The tables EWFSegment.Decode keeps: a table section, not its mirror.
TablesOf(d, w) ==
    LET ps == OfType(d, w, "table")
    IN  [i \in DOMAIN ps |->
           [at |-> ps[i], size |-> ObjAt(d, ps[i]).size - DescriptorSize,
            base |-> Body(d, ps[i]).base, entries |-> Body(d, ps[i]).entries]]

\* Table.SectorOffset in chunks: the chunks of the tables before the i-th.
FirstChunk(ts, i) == SumFunction([j \in 1..(i - 1) |-> Len(ts[j].entries)])

\* EWFSegment.ReadSectors: the search among the tables' first sectors, and the
\* loop that moves on from a table with no sector left, end at the only table
\* that holds the chunk.
TableOfChunk(ts, chunk) ==
    CHOOSE i \in DOMAIN ts : /\ FirstChunk(ts, i) <= chunk
                             /\ chunk < FirstChunk(ts, i + 1)

\* EWFTableSection.readChunk with calculateLastChunkSize: how many bytes are
\* read for the j-th entry, -1 when that is unknown.
ReadSize(t, j) ==
    LET offset == t.base + t.entries[j]
    IN  IF j < Len(t.entries) THEN t.base + t.entries[j + 1] - offset
        ELSE IF offset < t.at THEN t.at - offset
        ELSE IF offset < t.at + t.size THEN t.at + t.size - offset
        ELSE -1

\* The bytes ReadAt returns for a chunk; none when it fails, in calculateIndex
\* or below.  zlib ignores what follows its stream in the bytes read.
ReadChunk(d, ts, chunk) ==
    LET k == TableOfChunk(ts, chunk)
        t == ts[k]
        j == chunk - FirstChunk(ts, k) + 1
        offset == t.base + t.entries[j]
        end == offset + ReadSize(t, j)
        data == ObjAt(d, offset).data
        readable == /\ chunk < FirstChunk(ts, Len(ts) + 1)
                    /\ Holds(d, offset, "chunk")
                    /\ offset + LenAt(d, offset) <= end
                    /\ \E e \in d : end <= e.at + e.len
    IN  IF readable THEN SubSeq(data, 1, Min({Len(data), ChunkSize})) ELSE <<>>

\* OpenEWF, Size() from the volume section, ReadAt chunk by chunk, and the
\* sums of the last digest and hash sections.
Image(d) ==
    LET w == Walk(d)
        ts == TablesOf(d, w)
        count == Body(d, Head(OfType(d, w, "volume"))).count
        sums == OfType(d, w, "digest") \o OfType(d, w, "hash")
    IN  IF ~Opens(d, w) THEN NoImage
        ELSE ImageOf([i \in 1..count |-> ReadChunk(d, ts, i - 1)],
                     {Body(d, sums[i]).sum : i \in DOMAIN sums})

OpenInit == Init /\ image = Image(disk)
OpenNext == Next /\ image' = Image(disk')
OpenSpec == OpenInit /\ [][OpenNext]_<<vars, image>>

(***************************************************************************)
(* What the writer promises.                                               *)
(***************************************************************************)
Abstract == INSTANCE EwfImage WITH Atomic <- TRUE

\* Where sectors has its place when no Start failed before it came to it.
FirstSectors ==
    FileHeaderSize + 2 * (DescriptorSize + HeaderLen) + DescriptorSize + VolumeDataSize

\* When Close has returned nil the file opens, whatever failed before, and
\* what it reads back is the whole padded stream with its hashes; only a Start
\* that failed before its last section must not have been tried again.
ClosedImageIsComplete ==
    result = "closed" /\ sectorsPos = FirstSectors => Abstract!IsWhole(image, stream)

\* Publication is atomic: at every moment, between any two steps of Close and
\* after any failure, the file either does not open or opens as a whole image,
\* and an image once published changes only by being withdrawn.
PublishesAtomically == Abstract!Spec
=============================================================================
