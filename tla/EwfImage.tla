----------------------------- MODULE EwfImage -----------------------------
(***************************************************************************)
(* What a go-ewf writer promises a reader, whatever the format: the client *)
(* extends a stream; now and then an image of it appears in the file, or   *)
(* the one that was there stops being readable.                            *)
(*                                                                         *)
(* Atomic is the strong promise: an image that can be opened is whole, it  *)
(* holds every byte accepted and the hashes of exactly these bytes.        *)
(* Without it an image may be partial: a chunk of it may be missing, a     *)
(* hash may be missing or be that of a shorter stream, but every chunk     *)
(* that can be read is the one the client wrote there.                     *)
(***************************************************************************)
EXTENDS EwfDisk, SequencesExt

CONSTANTS ChunkSize, Atomic

VARIABLES stream, image

\* The stream cut in chunks.
ChunksOf(s) == [i \in 1..(Len(s) \div ChunkSize) |->
                  SubSeq(s, (i - 1) * ChunkSize + 1, i * ChunkSize)]

WholeImage(s) == ImageOf(ChunksOf(s), {s})

IsWhole(img, s) == Len(s) % ChunkSize = 0 /\ img = WholeImage(s)

IsPartial(img, s) ==
    /\ img.opened
    /\ \A i \in DOMAIN img.chunks :
         img.chunks[i] # <<>> =>
           i \in DOMAIN ChunksOf(s) /\ img.chunks[i] = ChunksOf(s)[i]
    /\ \A h \in img.hashes : IsPrefix(h, s)

Init == stream = <<>> /\ image = NoImage

\* The client writes, or Close pads; a published image is not touched.
Accept == IsStrictPrefix(stream, stream') /\ UNCHANGED image

\* The image stops being readable while its successor is written.
Withdraw == image' = NoImage /\ UNCHANGED stream

Publish == /\ \/ IsWhole(image', stream)
              \/ ~Atomic /\ IsPartial(image', stream)
           /\ UNCHANGED stream

Next == Accept \/ Withdraw \/ Publish

Spec == Init /\ [][Next]_<<stream, image>>
=============================================================================
