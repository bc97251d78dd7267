-------------------------------- MODULE Cli --------------------------------
(***************************************************************************)
(* The loops of cmd/main.go: dump copies a range of an image to a file,    *)
(* verify reads all of it, create copies a raw file into a new image.  The *)
(* image is read with EWFReader.Read, which EwfReadAt describes; a read of *)
(* its files may fail, with io.EOF when one of them ends early.  The raw   *)
(* file of create may grow or shrink meanwhile.  Which segment files are   *)
(* opened is OpenAllSegments; the user names the first one.                *)
(***************************************************************************)
EXTENDS EwfReadAt, SequencesExt

CONSTANTS
    FileSectors,   \* sectors in each segment file of the image of dump and verify
    ImageFiles,    \* number of its segment files
    Directories,   \* the sets of their numbers that may be there
    Offsets,       \* values of -offset
    Lengths,       \* values of -length, with -1 for all
    Buffers,       \* values of -buffer
    SourceSizes,   \* sizes of create's source file, when it is opened and later
    FaultErrors,   \* how a read of the image may fail: "failed", "EOF"
    MaxFaults,     \* bound: reads and writes that fail
    MaxChanges,    \* bound: changes of the source file
    MaxSegments,   \* the limit of openAllSegments, 100 in the code
    MaxLong        \* the largest int64

ASSUME CliAssumption ==
    /\ FileSectors \in Nat /\ ImageFiles \in Nat \ {0}
    /\ \A d \in Directories : 1 \in d /\ d \subseteq 1..ImageFiles
    /\ MaxFaults \in Nat /\ MaxChanges \in Nat /\ MaxLong \in Nat
    /\ MaxSegments \in Nat \ {0, 1}
    /\ Offsets \subseteq Nat /\ Lengths \subseteq Nat \cup {-1}
    /\ Buffers \subseteq Nat /\ SourceSizes \subseteq Nat
    /\ FaultErrors \subseteq {"failed", "EOF"}

VARIABLES
    command,   \* the command that runs: "none", "dump", "verify", "evf1", "evf2"
    status,    \* "running", or what it returned: "ok", "error"
    want,      \* dump: the range to copy, after validation, [off, len]
    held,      \* sectors in the segment files found
    buffer,    \* len(buffer)
    position,  \* where the reader, or the source file, goes on
    out,       \* the bytes given to the target file or to the image's writer
    size,      \* create: the size of the source file
    declared,  \* create: sourceSize, which EVF2 writes into the image
    faults,    \* number of failures so far
    changes    \* number of changes of the source file

vars == <<command, status, want, held, buffer, position, out, size, declared, faults, changes>>

\* reader.Size(), from the volume section of the first file.
ImageSize == ImageFiles * FileSectors * SectorSize

\* The len bytes from off on.
Bytes(off, len) == [off |-> off, len |-> len]

Init == /\ command = "none" /\ status = "ok" /\ want = Bytes(0, 0)
        /\ held = 0 /\ buffer = 0 /\ position = 0 /\ out = <<>> /\ size = 0 /\ declared = 0
        /\ faults = 0 /\ changes = 0

\* openAllSegments: from number 2 on all files up to the first that is not
\* there.  The reader sorts them by number.
OpenAllSegments(present) ==
    LET missing == {i \in 2..MaxSegments : i = MaxSegments \/ i \notin present}
    IN  1..(Min(missing) - 1)

Start(c, s, w, b) ==
    /\ command = "none" /\ command' = c /\ status' = s /\ want' = w
    /\ buffer' = b /\ position' = w.off /\ out' = <<>>
    /\ UNCHANGED <<faults, changes>>

OpenImage == /\ \E d \in Directories : held' = Cardinality(OpenAllSegments(d)) * FileSectors
             /\ UNCHANGED <<size, declared>>

\* A sum of two int64.
Long(n) == IF n > MaxLong THEN n - 2 * (MaxLong + 1) ELSE n

\* Mutant: an offset behind the end is not refused.
DumpUnchecked ==
    /\ OpenImage
    /\ \E off \in Offsets, length \in Lengths, b \in Buffers :
         LET all == length = -1 \/ Long(off + length) > ImageSize
         IN  Start("dump", "running",
                   Bytes(off, IF all THEN ImageSize - off ELSE length), b)

\* dumpImage, up to the loop.
Dump ==
    /\ OpenImage
    /\ \E off \in Offsets, length \in Lengths, b \in Buffers :
         LET all == length = -1 \/ Long(off + length) > ImageSize
         IN  IF off >= ImageSize THEN Start("dump", "error", Bytes(off, 0), b)
             ELSE Start("dump", "running",
                        Bytes(off, IF all THEN ImageSize - off ELSE length), b)

\* verifyImage, up to the loop.
Verify == /\ OpenImage
          /\ \E b \in Buffers : Start("verify", "running", Bytes(0, ImageSize), b)

\* createImage: the size is asked for before anything is read.
Create == \E format \in {"evf1", "evf2"}, b \in Buffers, n \in SourceSizes :
            /\ Start(format, "running", Bytes(0, n), b)
            /\ size' = n /\ declared' = n /\ held' = 0

(***************************************************************************)
(* The loops.                                                              *)
(***************************************************************************)
Running(cs) == command \in cs /\ status = "running"

Done(s) == /\ status' = s
           /\ UNCHANGED <<command, want, held, buffer, position, out, size, declared, changes>>

\* A read of the image fails.  Another error ends the command; of io.EOF it
\* only sees that no byte came with it.
ReadFails == /\ Running({"dump", "verify"}) /\ faults < MaxFaults
             /\ command = "dump" => Len(out) < want.len
             /\ faults' = faults + 1
             /\ \E e \in FaultErrors : Done(IF e = "EOF" THEN "ok" ELSE "error")

\* Mutant: the loop does not end when no byte has come.
CopyFromOn(asked) ==
    LET r == ReadAt(held, position, asked)
    IN  /\ faults' = faults
        /\ IF r.err \notin {"nil", "EOF"} THEN Done("error")
           ELSE /\ out' = out \o r.data
                /\ position' = position + Len(r.data)
                /\ UNCHANGED <<command, status, want, held, buffer, size, declared, changes>>

\* One turn: `asked` bytes are read, and copied to the target if there is one.
CopyFrom(asked) ==
    LET r == ReadAt(held, position, asked)
    IN  /\ faults' = faults
        /\ IF r.err \notin {"nil", "EOF"} THEN Done("error")
           ELSE IF r.data = <<>> THEN Done("ok")
           ELSE /\ out' = out \o r.data
                /\ position' = position + Len(r.data)
                /\ UNCHANGED <<command, status, want, held, buffer, size, declared, changes>>

\* Mutant: the last read is not cut to what is left of the range.
DumpTurnUncut == /\ Running({"dump"})
                 /\ IF Len(out) < want.len THEN CopyFrom(buffer)
                    ELSE Done("ok") /\ UNCHANGED faults

DumpTurn == /\ Running({"dump"})
            /\ IF Len(out) < want.len THEN CopyFrom(Lesser(buffer, want.len - Len(out)))
               ELSE Done("ok") /\ UNCHANGED faults

VerifyTurn == Running({"verify"}) /\ CopyFrom(buffer)

\* Mutant: a read that does not fill the buffer is taken for the end.
CreateTurnShort ==
    LET n == Lesser(buffer, IF position < size THEN size - position ELSE 0)
    IN  /\ Running({"evf1", "evf2"})
        /\ IF n < buffer \/ n = 0 THEN Done("ok")
           ELSE /\ out' = out \o BytesFrom(position, n)
                /\ position' = position + n
                /\ UNCHANGED <<command, status, want, held, buffer, size, declared, changes>>
        /\ UNCHANGED faults

\* One turn of createEVF1Image and createEVF2Image: os.File.Read gives what
\* there is, up to the buffer; at the end the writer is closed.
CreateTurn ==
    LET n == Lesser(buffer, IF position < size THEN size - position ELSE 0)
    IN  /\ Running({"evf1", "evf2"})
        /\ IF n = 0 THEN Done("ok")
           ELSE /\ out' = out \o BytesFrom(position, n)
                /\ position' = position + n
                /\ UNCHANGED <<command, status, want, held, buffer, size, declared, changes>>
        /\ UNCHANGED faults

\* A write to the target, or the read, a Write or the Close of create, fails.
OtherFails == /\ Running({"dump", "evf1", "evf2"}) /\ faults < MaxFaults
              /\ Done("error") /\ faults' = faults + 1

\* Another program changes the length of the source file.
SourceChanges ==
    /\ Running({"evf1", "evf2"}) /\ changes < MaxChanges
    /\ size' \in SourceSizes /\ changes' = changes + 1
    /\ UNCHANGED <<command, status, want, held, buffer, position, out, declared, faults>>

Turn == DumpTurn \/ VerifyTurn \/ CreateTurn

Next == Dump \/ Verify \/ Create \/ Turn \/ ReadFails \/ OtherFails \/ SourceChanges

\* The program is one goroutine that runs until it returns.
Spec == Init /\ [][Next]_vars /\ WF_vars(Turn)

(***************************************************************************)
(* Properties.                                                             *)
(***************************************************************************)
TypeOK ==
    /\ command \in {"none", "dump", "verify", "evf1", "evf2"}
    /\ status \in {"running", "ok", "error"}
    /\ want \in [off : Nat, len : Nat] /\ out \in Seq(Nat)
    /\ {held, buffer, position, size, declared, faults, changes} \subseteq Nat

\* dump never writes a byte that is not the next of the range it was asked for
\* and in the image, and when it succeeds, with a buffer whose length, in whole
\* sectors, is below Width and no file that ends early, it has written them all:
\* a missing segment file that the range needs makes it fail, and so does a
\* length whose sum with the offset is more than an int64.
DumpCopiesTheRange ==
    command = "dump" =>
      /\ IsPrefix(out, BytesFrom(want.off, want.len))
      /\ out # <<>> => want.off + Len(out) <= ImageSize
      /\ status = "ok" /\ faults = 0 /\ buffer \in 1..(Width - 2 * SectorSize)
           => Len(out) = want.len

\* create stores a beginning of the source, without a gap, and when nothing
\* changed or failed all of it; the size it declared is then the size stored.
CreateStoresTheSource ==
    command \in {"evf1", "evf2"} =>
      /\ out = BytesFrom(0, Len(out))
      /\ status = "ok" /\ changes = 0 /\ buffer # 0 => Len(out) = declared

\* Every command ends: no loop goes on without a byte moved.
CommandsEnd == (status = "running") ~> (status # "running")
=============================================================================
