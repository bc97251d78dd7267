--------------------------- MODULE WriterLocking ---------------------------
(***************************************************************************)
(* EWFWriter used by several goroutines, in either package ("format").     *)
(* Write holds the mutex from beginning to end.  Close looks at the buffer *)
(* without it, holds it while it flushes the buffer, and runs its encoders *)
(* unlocked, though they write to the same file: EVF1's seek back to the   *)
(* sectors and volume sections and return, EVF2's count the position on.   *)
(* The module is cut at every access to the position of the file, to the   *)
(* file itself, to the tables, to the hashers and to the buffer.           *)
(* The entries of all tables are one list here, a section is the writes it *)
(* consists of; Evf1Writer and Evf2Writer have what is in them.            *)
(***************************************************************************)
EXTENDS EwfDisk, SequencesExt

CONSTANTS
    Goroutines,
    Nobody,          \* the mutex is free
    Formats,         \* the packages: "evf1" or "evf2"
    ChunkSize,       \* DefaultChunkSize
    Lengths,         \* lengths given to Write
    CompressedLens,  \* lengths a chunk may have in the file
    AlignLens,       \* lengths of what aligns it, in EVF2
    SectionLen,      \* length of each write of an encoder
    TornLens,        \* how much of a write that fails is stored
    MaxCalls,        \* bound: calls of Write and Close
    MaxFaults        \* bound: writes that fail

ASSUME LockingAssumption ==
    /\ Nobody \notin Goroutines
    /\ Formats \subseteq {"evf1", "evf2"}
    /\ ChunkSize \in Nat \ {0} /\ Lengths \subseteq Nat
    /\ CompressedLens \subseteq Nat \ {0} /\ AlignLens \subseteq Nat
    /\ SectionLen \in Nat \ {0} /\ TornLens \subseteq 0..SectionLen
    /\ MaxCalls \in Nat /\ MaxFaults \in Nat

VARIABLES
    format,    \* which package it is
    mu,        \* ewf.mu: who holds it
    buf,       \* ewf.buf
    disk,      \* the file
    offset,    \* where the file's next Write goes
    position,  \* EVF2: writer.position, what the writer takes it for
    entries,   \* the offsets in the tables, all tables together
    hashed,    \* what the hashers have seen
    pc,        \* pc[g]: where in its call goroutine g is
    part,      \* part[g]: what it is busy with there
    pieces,    \* pieces[g]: the writes its present section still takes
    given,     \* given[g]: the argument of its Write
    at,        \* at[g]: the position it has read
    draft,     \* draft[g]: what its Close has put into tables and hash sections
    alone,     \* alone[g]: no other call has run during its present one
    calls,     \* calls of Write and Close made
    made,      \* bytes given to them
    faults,    \* writes that have failed
    accepted,  \* ghost: the bytes appended to the buffer, in that order
    met,       \* ghost: two goroutines have been at the file at once
    image      \* ghost: what the last Close that returned nil has left

fileVars == <<disk, offset, position>>
ownVars == <<part, pieces, at, draft>>
callVars == <<format, given, alone, calls, made>>
vars == <<fileVars, ownVars, callVars, mu, buf, entries, hashed, pc, faults,
          accepted, met, image>>

\* The bytes given to Write are numbered from 1.
Padding == 0
Data(bytes) == FlattenSeq([i \in DOMAIN bytes |->
                  IF bytes[i] = Padding THEN <<>> ELSE <<bytes[i]>>])

\* shared.PadBytes.
Pad(bytes) == IF Len(bytes) >= ChunkSize THEN bytes
              ELSE bytes \o [i \in 1..(ChunkSize - Len(bytes)) |-> Padding]

NoDraft == [offsets |-> <<>>, sum |-> <<>>]
NotClosed == [draft |-> NoDraft, left |-> <<>>, all |-> <<>>, alone |-> FALSE]

(***************************************************************************)
(* After Start: the volume section, then the descriptor of sectors.        *)
(***************************************************************************)
PlaceOf(section) == IF section = "volume" THEN 0 ELSE SectionLen
Home == 2 * SectionLen

Init ==
    /\ format \in Formats
    /\ mu = Nobody /\ buf = <<>> /\ entries = <<>> /\ hashed = <<>>
    /\ disk = {[at |-> PlaceOf(s), len |-> SectionLen, obj |-> [kind |-> s]] :
                 s \in {"volume", "sectors"}}
    /\ offset = Home /\ position = Home
    /\ pc = [g \in Goroutines |-> "idle"] /\ part = [g \in Goroutines |-> "none"]
    /\ pieces = [g \in Goroutines |-> 0] /\ at = [g \in Goroutines |-> 0]
    /\ draft = [g \in Goroutines |-> NoDraft]
    /\ given = [g \in Goroutines |-> <<>>] /\ alone = [g \in Goroutines |-> TRUE]
    /\ calls = 0 /\ made = 0 /\ faults = 0
    /\ accepted = <<>> /\ met = FALSE /\ image = NotClosed

Goto(g, place) == pc' = [pc EXCEPT ![g] = place]

\* The call is over.
Return(g) ==
    /\ Goto(g, "idle")
    /\ part' = [part EXCEPT ![g] = "none"] /\ pieces' = [pieces EXCEPT ![g] = 0]
    /\ at' = [at EXCEPT ![g] = 0] /\ draft' = [draft EXCEPT ![g] = NoDraft]

Fault == faults < MaxFaults /\ faults' = faults + 1

(***************************************************************************)
(* The file, and who uses it.                                              *)
(***************************************************************************)
FilePlaces == {"store", "align", "enter", "hash", "mark", "seek", "rewrite", "back",
               "giveUp", "gather", "piece"}
Raced(g) == \E h \in Goroutines \ {g} : pc[h] \in FilePlaces

ComesToFile(g) == met' = (met \/ Raced(g))

\* What g may read of a list that another goroutine may be changing.
Seen(g, value) == {value} \cup (IF Raced(g) THEN {<<>>} ELSE {})

\* Write moves the offset of the file; EVF2's wrapper also adds what was
\* written to its position, which another goroutine may undo by doing the same.
Advance(g, n) ==
    /\ offset' = offset + n
    /\ \/ format = "evf1" /\ position' = position
       \/ format = "evf2" /\ position' = position + n
       \/ format = "evf2" /\ Raced(g) /\ position' = position

Written(g, n, object) == disk' = Put(disk, offset, n, object) /\ Advance(g, n)
WrittenInPart(g) == \E k \in TornLens : disk' = Tear(disk, offset, k) /\ Advance(g, k)

(***************************************************************************)
(* The beginning of a call, and the mutex.                                 *)
(***************************************************************************)
Begin(g, work) ==
    LET others == {h \in Goroutines \ {g} : pc[h] # "idle"}
    IN  /\ pc[g] = "idle" /\ calls < MaxCalls /\ calls' = calls + 1
        /\ part' = [part EXCEPT ![g] = work]
        /\ alone' = [h \in Goroutines |-> IF h = g THEN others = {}
                                          ELSE alone[h] /\ h \notin others]
        /\ UNCHANGED <<fileVars, format, mu, buf, entries, hashed, pieces, at, draft,
                       faults, accepted, met, image>>

CallWrite(g) ==
    /\ Begin(g, "write") /\ Goto(g, "lock")
    /\ \E n \in Lengths : /\ given' = [given EXCEPT ![g] = [i \in 1..n |-> made + i]]
                          /\ made' = made + n

CallClose(g) == Begin(g, "flush") /\ Goto(g, "test") /\ UNCHANGED <<given, made>>

\* Mutant: the mutex is taken from whoever has it.
LockHeld(g) ==
    /\ pc[g] = "lock" /\ mu' = g
    /\ Goto(g, IF part[g] = "write" THEN "append" ELSE "pad")
    /\ UNCHANGED <<fileVars, ownVars, callVars, buf, entries, hashed, faults, accepted,
                   met, image>>

Lock(g) ==
    /\ pc[g] = "lock" /\ mu = Nobody /\ mu' = g
    /\ Goto(g, IF part[g] = "write" THEN "append" ELSE "pad")
    /\ UNCHANGED <<fileVars, ownVars, callVars, buf, entries, hashed, faults, accepted,
                   met, image>>

(***************************************************************************)
(* writeData, of Write and of Close's flush.                               *)
(***************************************************************************)
Chunk(g) == IF part[g] = "write" THEN SubSeq(buf, 1, ChunkSize) ELSE buf

\* Mutant: the loop of Write goes on while there is anything in the buffer.
LocateRest(g) ==
    /\ pc[g] \in {"loop", "flush"}
    /\ pc[g] = "loop" => Len(buf) > 0
    /\ at' = [at EXCEPT ![g] = IF format = "evf1" THEN offset ELSE position]
    /\ ComesToFile(g) /\ Goto(g, "store")
    /\ UNCHANGED <<fileVars, callVars, mu, buf, entries, hashed, part, pieces, draft,
                   faults, accepted, image>>

\* The position of the chunk: what Seek answers in EVF1, dest.position in EVF2.
Locate(g) ==
    /\ pc[g] \in {"loop", "flush"}
    /\ pc[g] = "loop" => Len(buf) >= ChunkSize
    /\ at' = [at EXCEPT ![g] = IF format = "evf1" THEN offset ELSE position]
    /\ ComesToFile(g) /\ Goto(g, "store")
    /\ UNCHANGED <<fileVars, callVars, mu, buf, entries, hashed, part, pieces, draft,
                   faults, accepted, image>>

StoreChunk(g) ==
    /\ pc[g] = "store"
    /\ \E n \in CompressedLens : Written(g, n, [kind |-> "chunk", data |-> Chunk(g)])
    /\ Goto(g, IF format = "evf1" THEN "enter" ELSE "align")
    /\ UNCHANGED <<ownVars, callVars, mu, buf, entries, hashed, faults, accepted, met, image>>

AlignChunk(g) ==
    /\ pc[g] = "align"
    /\ \E n \in AlignLens : Written(g, n, [kind |-> "zeroes"])
    /\ Goto(g, "enter")
    /\ UNCHANGED <<ownVars, callVars, mu, buf, entries, hashed, faults, accepted, met, image>>

\* Mutants: the way out does not release the mutex; it empties the buffer.
StoreFailsLocked(g) ==
    /\ pc[g] \in {"store", "align"} /\ Fault /\ WrittenInPart(g)
    /\ Return(g)
    /\ UNCHANGED <<callVars, mu, buf, entries, hashed, accepted, met, image>>

StoreFailsEmptied(g) ==
    /\ pc[g] \in {"store", "align"} /\ Fault /\ WrittenInPart(g)
    /\ mu' = Nobody /\ buf' = <<>> /\ Return(g)
    /\ UNCHANGED <<callVars, entries, hashed, accepted, met, image>>

\* A write of writeData fails: Write's deferred Unlock, or Close's own, and
\* return.  The chunk, and the padding Close has added, stay in buf.
StoreFails(g) ==
    /\ pc[g] \in {"store", "align"} /\ Fault /\ WrittenInPart(g)
    /\ mu' = Nobody /\ Return(g)
    /\ UNCHANGED <<callVars, buf, entries, hashed, accepted, met, image>>

\* addTableEntry, and the count of chunks.
EnterChunk(g) ==
    /\ pc[g] = "enter" /\ entries' = Append(entries, at[g]) /\ Goto(g, "hash")
    /\ UNCHANGED <<fileVars, ownVars, callVars, mu, buf, hashed, faults, accepted, met, image>>

HashChunk(g) ==
    /\ pc[g] = "hash" /\ hashed' = hashed \o Chunk(g)
    /\ Goto(g, IF part[g] = "write" THEN "cut" ELSE "empty")
    /\ UNCHANGED <<fileVars, ownVars, callVars, mu, buf, entries, faults, accepted, met, image>>

(***************************************************************************)
(* Write.                                                                  *)
(***************************************************************************)
AppendGiven(g) ==
    /\ pc[g] = "append"
    /\ buf' = buf \o given[g] /\ accepted' = accepted \o given[g]
    /\ given' = [given EXCEPT ![g] = <<>>]
    /\ Goto(g, "loop")
    /\ UNCHANGED <<fileVars, ownVars, format, alone, calls, made, mu, entries, hashed,
                   faults, met, image>>

CutChunk(g) ==
    /\ pc[g] = "cut" /\ buf' = SubSeq(buf, ChunkSize + 1, Len(buf)) /\ Goto(g, "loop")
    /\ UNCHANGED <<fileVars, ownVars, callVars, mu, entries, hashed, faults, accepted,
                   met, image>>

\* The end of the loop, and the deferred Unlock.
WriteReturns(g) ==
    /\ pc[g] = "loop" /\ Len(buf) < ChunkSize
    /\ mu' = Nobody /\ Return(g)
    /\ UNCHANGED <<fileVars, callVars, buf, entries, hashed, faults, accepted, met, image>>

(***************************************************************************)
(* Close: its sections in their order, each of one or more writes.         *)
(***************************************************************************)
After(section) ==
    IF format = "evf1"
    THEN [flush |-> "sectors", sectors |-> "volume", volume |-> "table", table |-> "table2",
          table2 |-> "digest", digest |-> "hash", hash |-> "data", data |-> "done"][section]
    ELSE [flush |-> "sectors", sectors |-> "table", table |-> "md5", md5 |-> "sha1",
          sha1 |-> "done"][section]

InPlace(section) == format = "evf1" /\ section \in {"sectors", "volume"}
HashSections == {"digest", "hash", "md5", "sha1"}

Pieces(section) == CASE section \in {"sectors", "volume", "done"} -> 1
                     [] section \in {"md5", "sha1"} -> 3
                     [] OTHER -> 2

\* The section behind the present part of Close is begun.
NextSection(g) ==
    LET section == After(part[g])
    IN  /\ part' = [part EXCEPT ![g] = section]
        /\ pieces' = [pieces EXCEPT ![g] = Pieces(section)]
        /\ Goto(g, IF InPlace(section) THEN "mark"
                   ELSE IF section \in HashSections \cup {"table"} THEN "gather" ELSE "piece")

\* len(ewf.buf) > 0, without the mutex: whoever holds it may be changing that.
CloseFindsBytes(g) ==
    /\ pc[g] = "test" /\ (Len(buf) > 0 \/ mu # Nobody) /\ Goto(g, "lock")
    /\ UNCHANGED <<fileVars, ownVars, callVars, mu, buf, entries, hashed, faults, accepted,
                   met, image>>

\* Mutant: a buffer with less than a chunk is not flushed.
CloseFindsNoChunk(g) ==
    /\ pc[g] = "test" /\ (Len(buf) < ChunkSize \/ mu # Nobody) /\ NextSection(g)
    /\ ComesToFile(g)
    /\ UNCHANGED <<fileVars, callVars, mu, buf, entries, hashed, at, draft, faults,
                   accepted, image>>

CloseFindsNone(g) ==
    /\ pc[g] = "test" /\ (Len(buf) = 0 \/ mu # Nobody) /\ NextSection(g) /\ ComesToFile(g)
    /\ UNCHANGED <<fileVars, callVars, mu, buf, entries, hashed, at, draft, faults,
                   accepted, image>>

ClosePad(g) ==
    /\ pc[g] = "pad" /\ buf' = Pad(buf) /\ Goto(g, "flush")
    /\ UNCHANGED <<fileVars, ownVars, callVars, mu, entries, hashed, faults, accepted,
                   met, image>>

CloseEmpty(g) ==
    /\ pc[g] = "empty" /\ buf' = <<>> /\ mu' = Nobody
    /\ NextSection(g) /\ ComesToFile(g)
    /\ UNCHANGED <<fileVars, callVars, entries, hashed, at, draft, faults, accepted, image>>

(***************************************************************************)
(* EVF1's sectors and volume: note the offset, seek to the section, write  *)
(* it, and seek back, also when the write has failed.                      *)
(***************************************************************************)
Mark(g) ==
    /\ pc[g] = "mark" /\ at' = [at EXCEPT ![g] = offset] /\ Goto(g, "seek")
    /\ UNCHANGED <<fileVars, callVars, mu, buf, entries, hashed, part, pieces, draft,
                   faults, accepted, met, image>>

SeekSection(g) ==
    /\ pc[g] = "seek" /\ offset' = PlaceOf(part[g]) /\ Goto(g, "rewrite")
    /\ UNCHANGED <<disk, position, ownVars, callVars, mu, buf, entries, hashed, faults,
                   accepted, met, image>>

Rewrite(g) ==
    /\ pc[g] = "rewrite" /\ Written(g, SectionLen, [kind |-> part[g]]) /\ Goto(g, "back")
    /\ UNCHANGED <<ownVars, callVars, mu, buf, entries, hashed, faults, accepted, met, image>>

RewriteFails(g) ==
    /\ pc[g] = "rewrite" /\ Fault /\ WrittenInPart(g) /\ Goto(g, "giveUp")
    /\ UNCHANGED <<ownVars, callVars, mu, buf, entries, hashed, accepted, met, image>>

SeekBack(g) ==
    /\ pc[g] = "back" /\ offset' = at[g] /\ NextSection(g)
    /\ UNCHANGED <<disk, position, callVars, mu, buf, entries, hashed, at, draft, faults,
                   accepted, met, image>>

\* Mutant: a write that has failed is not followed by the Seek.
GiveUpThere(g) ==
    /\ pc[g] = "giveUp" /\ Return(g)
    /\ UNCHANGED <<fileVars, callVars, mu, buf, entries, hashed, faults, accepted, met, image>>

GiveUp(g) ==
    /\ pc[g] = "giveUp" /\ offset' = at[g] /\ Return(g)
    /\ UNCHANGED <<disk, position, callVars, mu, buf, entries, hashed, faults, accepted,
                   met, image>>

(***************************************************************************)
(* The sections that are appended to the file.                             *)
(***************************************************************************)
\* The entries of the tables, or the sums of the hashers.
Gather(g) ==
    /\ pc[g] = "gather" /\ Goto(g, "piece")
    /\ \/ /\ part[g] = "table"
          /\ \E s \in Seen(g, entries) : draft' = [draft EXCEPT ![g].offsets = s]
       \/ /\ part[g] \in HashSections
          /\ \E s \in Seen(g, hashed) : draft' = [draft EXCEPT ![g].sum = s]
    /\ UNCHANGED <<fileVars, callVars, mu, buf, entries, hashed, part, pieces, at, faults,
                   accepted, met, image>>

WritePiece(g) ==
    /\ pc[g] = "piece" /\ pieces[g] > 1
    /\ Written(g, SectionLen, [kind |-> part[g]])
    /\ pieces' = [pieces EXCEPT ![g] = @ - 1]
    /\ UNCHANGED <<callVars, mu, buf, entries, hashed, pc, part, at, draft, faults,
                   accepted, met, image>>

EndSection(g) ==
    /\ pc[g] = "piece" /\ pieces[g] = 1 /\ part[g] # "done"
    /\ Written(g, SectionLen, [kind |-> part[g]]) /\ NextSection(g)
    /\ UNCHANGED <<callVars, mu, buf, entries, hashed, at, draft, faults, accepted, met, image>>

\* The done section is written: Close returns nil.
CloseReturns(g) ==
    /\ pc[g] = "piece" /\ part[g] = "done"
    /\ Written(g, SectionLen, [kind |-> "done"]) /\ Return(g)
    /\ image' = [draft |-> draft[g], left |-> buf, all |-> accepted, alone |-> alone[g]]
    /\ UNCHANGED <<callVars, mu, buf, entries, hashed, faults, accepted, met>>

\* EVF2's md5 and sha1 sections report no failure but that of the descriptor.
Unreported(g) == part[g] \in {"md5", "sha1"} /\ pieces[g] > 1

PieceFails(g) ==
    /\ pc[g] = "piece" /\ ~Unreported(g) /\ Fault /\ WrittenInPart(g) /\ Return(g)
    /\ UNCHANGED <<callVars, mu, buf, entries, hashed, accepted, met, image>>

HashFailsUnreported(g) ==
    /\ pc[g] = "piece" /\ Unreported(g) /\ Fault /\ WrittenInPart(g) /\ NextSection(g)
    /\ UNCHANGED <<callVars, mu, buf, entries, hashed, at, draft, accepted, met, image>>

(***************************************************************************)
(* The specification.                                                      *)
(***************************************************************************)
Call(g) == CallWrite(g) \/ CallClose(g)

WriteDataStep(g) == \/ Locate(g) \/ StoreChunk(g) \/ AlignChunk(g) \/ StoreFails(g)
                    \/ EnterChunk(g) \/ HashChunk(g)

BufferStep(g) == \/ AppendGiven(g) \/ CutChunk(g) \/ WriteReturns(g) \/ CloseFindsBytes(g)
                 \/ CloseFindsNone(g) \/ ClosePad(g) \/ CloseEmpty(g)

InPlaceStep(g) == \/ Mark(g) \/ SeekSection(g) \/ Rewrite(g) \/ RewriteFails(g)
                  \/ SeekBack(g) \/ GiveUp(g)

SectionStep(g) == \/ Gather(g) \/ WritePiece(g) \/ EndSection(g) \/ CloseReturns(g)
                  \/ PieceFails(g) \/ HashFailsUnreported(g)

Step(g) == WriteDataStep(g) \/ BufferStep(g) \/ InPlaceStep(g) \/ SectionStep(g)

Next == \E g \in Goroutines : Call(g) \/ Lock(g) \/ Step(g)

\* Go runs every goroutine, and sync.Mutex gives itself to one that has waited
\* long enough, however often others come.
Fairness == \A g \in Goroutines : WF_vars(Step(g)) /\ SF_vars(Lock(g))

Spec == Init /\ [][Next]_vars /\ Fairness

(***************************************************************************)
(* Properties.                                                             *)
(***************************************************************************)
StorePlaces == {"store", "align", "enter", "hash"}
Holding == StorePlaces \cup {"append", "loop", "cut", "pad", "flush", "empty"}
Waiting == (FilePlaces \ StorePlaces) \cup {"idle", "lock", "test"}
Parts == HashSections \cup {"none", "write", "flush", "sectors", "volume", "table",
                            "table2", "data", "done"}

Drafts == [offsets : Seq(Nat), sum : Seq(Nat)]

\* The type invariant.  A Write that is storing has a chunk in the buffer, so
\* the slice buf[:ChunkSize] that it hands on is in range.
TypeOK ==
    /\ format \in Formats /\ mu \in Goroutines \cup {Nobody}
    /\ pc \in [Goroutines -> Waiting \cup Holding] /\ part \in [Goroutines -> Parts]
    /\ pieces \in [Goroutines -> 0..3] /\ at \in [Goroutines -> Nat]
    /\ buf \in Seq(Nat) /\ accepted \in Seq(Nat) /\ hashed \in Seq(Nat)
    /\ entries \in Seq(Nat) /\ offset \in Nat /\ position \in Nat
    /\ given \in [Goroutines -> Seq(Nat)] /\ draft \in [Goroutines -> Drafts]
    /\ alone \in [Goroutines -> BOOLEAN] /\ met \in BOOLEAN
    /\ calls \in Nat /\ made \in Nat /\ faults \in Nat
    /\ image \in [draft : Drafts, left : Seq(Nat), all : Seq(Nat), alone : BOOLEAN]
    /\ \A g \in Goroutines : part[g] = "write" /\ pc[g] \in StorePlaces \cup {"cut"} =>
                               Len(buf) >= ChunkSize

\* Whoever touches the buffer or stores a chunk holds the mutex: so no two do.
MutualExclusion == \A g \in Goroutines : (pc[g] \in Holding) = (mu = g)

\* Every byte given to any Write is hashed or in the buffer, once, and those of
\* a Write are together, however the calls interleave, even with the unlocked
\* part of Close, and whatever fails.
NothingLost == mu = Nobody => Data(hashed \o buf) = accepted

\* What a list of offsets leads to: intact chunks whose data are these bytes.
LeadTo(offsets, bytes) ==
    /\ \A i \in DOMAIN offsets : Holds(disk, offsets[i], "chunk")
    /\ FlattenSeq([i \in DOMAIN offsets |-> ObjAt(disk, offsets[i]).data]) = bytes

\* As long as no two goroutines have been at the file at once, the tables lead
\* to what was hashed, whatever failed in Writes and in Closes before.
IndexedDataIsHashed == mu = Nobody /\ ~met => LeadTo(entries, hashed)

\* A Close that no other call overlaps, after calls that overlapped in any way
\* but at the file, gives tables that lead to what its hash sections are of,
\* which is all that was ever accepted, and leaves nothing in the buffer.
LoneCloseIsComplete ==
    image.alone /\ ~met =>
      /\ image.left = <<>>
      /\ LeadTo(image.draft.offsets, image.draft.sum)
      /\ Data(image.draft.sum) = image.all

\* Every call of Write and Close returns: every way out releases the mutex.
EveryCallReturns == \A g \in Goroutines : (pc[g] # "idle") ~> (pc[g] = "idle")
=============================================================================
