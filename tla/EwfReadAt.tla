----------------------------- MODULE EwfReadAt -----------------------------
(***************************************************************************)
(* What EWFReader.ReadAt returns for an image whose tables can be read:    *)
(* the reference for the readers, and the reader the command line sees.    *)
(*                                                                         *)
(* A byte of an image is its offset in the image, so a byte that is moved, *)
(* repeated or dropped shows.  Reading goes by whole sectors: ReadAt asks  *)
(* for a number of sectors and copies what the caller wanted out of them.  *)
(***************************************************************************)
EXTENDS Integers, Sequences

CONSTANTS
    SectorSize,       \* bytes in a sector
    FromSectorStart,  \* ReadAt counts sectors from the start of the first one (evf2)
    Width             \* MinUint32 takes its arguments modulo this (2^32)

ASSUME ReadAtAssumption ==
    /\ SectorSize \in Nat \ {0}
    /\ FromSectorStart \in BOOLEAN
    /\ Width \in Nat \ {0}

CeilDiv(a, b) == (a + b - 1) \div b

Lesser(a, b) == IF a < b THEN a ELSE b

\* sectorCount of ReadAt.  evf1 takes the length alone: from an offset inside
\* a sector the last sector touched may not be counted.
SectorsAsked(off, len) ==
    CeilDiv((IF FromSectorStart THEN off % SectorSize ELSE 0) + len, SectorSize)

\* copyLength: how much of the n bytes at hand a caller with a buffer of len
\* bytes gets.  Both lengths are converted to uint32 first.
CopyLength(n, len) == Lesser(n % Width, len % Width)

\* The n bytes of the image from off on.
BytesFrom(off, n) == [i \in 1..n |-> off + i - 1]

\* A call's outcome; n and err of Go are Len(data) and err.
Outcome(off, len, data, err) ==
    [off |-> off, len |-> len, data |-> data, err |-> err]

NoOutcome == Outcome(0, 0, <<>>, "none")

\* ReadAt on an image of the given number of sectors.  A read that starts
\* behind the last one fails, even an empty one; io.EOF is only returned when
\* sectors are missing and MinUint32 leaves nothing of the others.
ReadAt(sectors, off, len) ==
    LET sector == off \div SectorSize
        asked == SectorsAsked(off, len)
        read == Lesser(asked, sectors - sector) * SectorSize
        inside == off % SectorSize
        n == IF inside >= read THEN 0 ELSE CopyLength(read - inside, len)
    IN  IF sector >= sectors THEN Outcome(off, len, <<>>, "range")
        ELSE Outcome(off, len, BytesFrom(off, n),
                     IF n = 0 /\ asked > sectors - sector THEN "EOF" ELSE "nil")
=============================================================================
