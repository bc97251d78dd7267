------------------------------ MODULE EwfReads ------------------------------
(***************************************************************************)
(* What shared.EWFReader promises: a reader of an image that does not      *)
(* change, with a position of its own.  ReadAt depends on nothing but its  *)
(* arguments, Read goes on where the last one ended, and nothing but Seek  *)
(* and what a Read gives moves the position; a call that fails gives no    *)
(* byte and moves nothing.                                                 *)
(***************************************************************************)
EXTENDS EwfReadAt

CONSTANTS
    Sectors,   \* sectors held by the tables of the image
    MayFail    \* the file may fail a read

VARIABLES
    position,  \* where Read goes on
    request,   \* the call that runs, and its arguments
    answer,    \* the outcome of the last read, none while a call runs
    sound      \* what the reader has in memory of the image is the image's

Request(call, off, len) == [call |-> call, off |-> off, len |-> len]
NoRequest == Request("none", 0, 0)

Init == position = 0 /\ request = NoRequest /\ answer = NoOutcome

\* ReadAt, Read or Segment is called; a Read is one from the position.
CallStep ==
    /\ request = NoRequest /\ request'.call \in {"ReadAt", "Read", "Segment"}
    /\ request'.call = "Read" => request'.off = position
    /\ answer' = NoOutcome /\ UNCHANGED position

Returns(call) == request.call = call /\ request' = NoRequest

\* What a read from off may come to: the bytes the image has there, or the
\* error of the file.  A read that failed half-way may have spoilt what the
\* reader keeps; no bytes are promised then.
Gives(off) ==
    /\ answer'.off = off /\ answer'.len = request.len
    /\ \/ answer' = ReadAt(Sectors, off, request.len)
       \/ MayFail /\ answer'.data = <<>> /\ answer'.err \in {"failed", "EOF"}
       \/ ~sound'

\* ReadAt(p, off) with len(p) = len.
ReadAtStep == Returns("ReadAt") /\ Gives(request.off) /\ UNCHANGED position

\* Read(p): the position moves by the bytes given, and by nothing else.
ReadStep == Returns("Read") /\ Gives(position) /\ position' = position + Len(answer'.data)

SegmentStep == Returns("Segment") /\ UNCHANGED <<answer, position>>

\* Seek, in one step: no other call runs, begins or ends.
SeekStep == request = NoRequest /\ position' \in Nat /\ UNCHANGED <<request, answer>>

Next == CallStep \/ ReadAtStep \/ ReadStep \/ SegmentStep \/ SeekStep

Spec == Init /\ [][Next]_<<position, request, answer>>
=============================================================================
