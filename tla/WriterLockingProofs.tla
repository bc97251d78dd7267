------------------------ MODULE WriterLockingProofs ------------------------
(***************************************************************************)
(* Theorems about WriterLocking, for either package, any set of            *)
(* goroutines, any lengths and any number of calls and faults: type        *)
(* correctness, the exclusion of the mutex, that no byte given to a Write  *)
(* is lost or repeated, and, as long as no two goroutines have been at the *)
(* file at once, that the tables lead to what was hashed and that a Close  *)
(* which no other call overlaps leaves an image that holds all there is.   *)
(***************************************************************************)
EXTENDS WriterLocking, EwfLemmas

\* What a step of goroutine g may be.
Does(g) == Call(g) \/ Lock(g) \/ Step(g)

(***************************************************************************)
(* Which part of a call is at which place.                                 *)
(***************************************************************************)
Sections == IF format = "evf1"
            THEN {"sectors", "volume", "table", "table2", "digest", "hash", "data", "done"}
            ELSE {"sectors", "table", "md5", "sha1", "done"}

Rewriting == {"rewrite", "back", "giveUp"}
InPlacePlaces == {"mark", "seek"} \cup Rewriting
EncoderPlaces == InPlacePlaces \cup {"gather", "piece"}

PlaceFits(place, work, count) ==
    /\ place \in {"append", "loop", "cut"} => work = "write"
    /\ place \in {"test", "pad", "flush", "empty"} => work = "flush"
    /\ place \in {"lock"} \cup StorePlaces => work \in {"write", "flush"}
    /\ place \in EncoderPlaces => work \in Sections
    /\ place \in InPlacePlaces => InPlace(work)
    /\ place = "gather" => work \in HashSections \cup {"table"}
    /\ place \in {"gather", "piece"} => count \in 1..Pieces(work) /\ ~InPlace(work)

PlaceOK(g) == PlaceFits(pc[g], part[g], pieces[g])

PlaceInv == \A g \in Goroutines : PlaceOK(g)

\* The sections of a format are parts of a call, each of one to three writes.
LEMMA SectionsAre ==
    ASSUME format \in {"evf1", "evf2"}
    PROVE  /\ Sections \subseteq Parts
           /\ "flush" \notin Sections /\ "write" \notin Sections
           /\ \A s \in Sections : Pieces(s) \in 1..3
           /\ \A s \in {"flush"} \cup Sections : s # "done" => After(s) \in Sections
<1>1. \A s \in Sections : Pieces(s) \in 1..3
  BY DEF Pieces
<1>2. Sections \subseteq Parts /\ "flush" \notin Sections /\ "write" \notin Sections
  BY DEF Sections, Parts, HashSections
<1>3. ASSUME NEW s \in {"flush"} \cup Sections, s # "done"
      PROVE  After(s) \in Sections
  <2>1. CASE format = "evf1"
    BY <1>3, <2>1 DEF After, Sections
  <2>2. CASE format = "evf2"
    BY <1>3, <2>2 DEF After, Sections
  <2>. QED
    BY <2>1, <2>2
<1>. QED
  BY <1>1, <1>2, <1>3

\* The section that NextSection begins.
LEMMA NextSectionIs ==
    ASSUME TypeOK, NEW g \in Goroutines, part[g] \in {"flush"} \cup Sections,
           part[g] # "done", NextSection(g)
    PROVE  \E section \in Sections, place \in {"mark", "gather", "piece"} :
             /\ section = After(part[g])
             /\ part' = [part EXCEPT ![g] = section]
             /\ pieces' = [pieces EXCEPT ![g] = Pieces(section)]
             /\ pc' = [pc EXCEPT ![g] = place]
             /\ place = "mark" => InPlace(section)
             /\ place = "gather" => section \in HashSections \cup {"table"}
             /\ place = "piece" =>
                  /\ ~InPlace(section)
                  /\ section \notin HashSections \cup {"table"}
<1>. DEFINE section == After(part[g])
<1>1. format \in {"evf1", "evf2"}
  BY LockingAssumption DEF TypeOK
<1>2. section \in Sections
  BY <1>1, SectionsAre
<1>3. /\ part' = [part EXCEPT ![g] = section]
      /\ pieces' = [pieces EXCEPT ![g] = Pieces(section)]
  BY DEF NextSection
<1>4. Goto(g, IF InPlace(section) THEN "mark"
              ELSE IF section \in HashSections \cup {"table"} THEN "gather" ELSE "piece")
  BY DEF NextSection
<1>. HIDE DEF section
<1>5. CASE InPlace(section)
  <2>1. pc' = [pc EXCEPT ![g] = "mark"]
    BY <1>4, <1>5, Zenon DEF Goto
  <2>. QED
    BY <1>2, <1>3, <1>5, <2>1 DEF section
<1>6. CASE ~InPlace(section) /\ section \in HashSections \cup {"table"}
  <2>1. pc' = [pc EXCEPT ![g] = "gather"]
    BY <1>4, <1>6, Zenon DEF Goto
  <2>. QED
    BY <1>2, <1>3, <1>6, <2>1 DEF section
<1>7. CASE ~InPlace(section) /\ section \notin HashSections \cup {"table"}
  <2>1. pc' = [pc EXCEPT ![g] = "piece"]
    BY <1>4, <1>7, Zenon DEF Goto
  <2>. QED
    BY <1>2, <1>3, <1>7, <2>1 DEF section
<1>. QED
  BY <1>5, <1>6, <1>7

(***************************************************************************)
(* Type correctness, the places, and mutual exclusion, which need each     *)
(* other: what a Write finds in the buffer stays there while it has the    *)
(* mutex.                                                                  *)
(***************************************************************************)

\* A padded buffer is one of bytes: PadBytes adds only padding.
LEMMA PadType ==
    ASSUME NEW s \in Seq(Nat)
    PROVE  Pad(s) \in Seq(Nat)
<1>1. Padding \in Nat
  BY DEF Padding
<1>2. ChunkSize \in Nat \ {0} /\ Len(s) \in Nat
  BY LockingAssumption
<1>3. CASE Len(s) >= ChunkSize
  BY <1>3 DEF Pad
<1>4. CASE ~(Len(s) >= ChunkSize)
  <2>1. ChunkSize - Len(s) \in Nat
    BY <1>2, <1>4
  <2>2. [i \in 1..(ChunkSize - Len(s)) |-> Padding] \in Seq(Nat)
    BY <1>1, <2>1
  <2>. QED
    BY <1>4, <2>2 DEF Pad
<1>. QED
  BY <1>3, <1>4

\* The bytes of a chunk.
LEMMA ChunkType ==
    ASSUME TypeOK, NEW g \in Goroutines, pc[g] \in StorePlaces
    PROVE  Chunk(g) \in Seq(Nat)
<1>1. ChunkSize \in Nat \ {0} /\ buf \in Seq(Nat) /\ Len(buf) \in Nat
  BY LockingAssumption DEF TypeOK
<1>2. part[g] = "write" => Len(buf) >= ChunkSize
  BY DEF TypeOK
<1>. QED
  BY <1>1, <1>2 DEF Chunk

\* A write moves both positions by a natural number.
LEMMA AdvanceType ==
    ASSUME TypeOK, NEW g, NEW n \in Nat, Advance(g, n)
    PROVE  offset' \in Nat /\ position' \in Nat
  BY DEF TypeOK, Advance

LEMMA WrittenType ==
    ASSUME TypeOK, NEW g, NEW n \in Nat, NEW object, Written(g, n, object)
    PROVE  offset' \in Nat /\ position' \in Nat
  BY AdvanceType DEF Written

LEMMA InPartType ==
    ASSUME TypeOK, NEW g, WrittenInPart(g)
    PROVE  offset' \in Nat /\ position' \in Nat
  BY AdvanceType, LockingAssumption DEF WrittenInPart

\* Nor does a racing read of a list give anything but a list.
LEMMA SeenType ==
    ASSUME TypeOK, NEW g
    PROVE  \A s \in Seen(g, entries) \cup Seen(g, hashed) : s \in Seq(Nat)
<1>1. entries \in Seq(Nat) /\ hashed \in Seq(Nat) /\ <<>> \in Seq(Nat)
  BY DEF TypeOK
<1>2. \A x : \A s \in Seen(g, x) : s = x \/ s = <<>>
  BY Zenon DEF Seen
<1>. QED
  BY <1>1, <1>2

\* What has a type besides the buffer's length.
Types ==
    /\ format \in Formats /\ mu \in Goroutines \cup {Nobody}
    /\ pc \in [Goroutines -> Waiting \cup Holding] /\ part \in [Goroutines -> Parts]
    /\ pieces \in [Goroutines -> 0..3] /\ at \in [Goroutines -> Nat]
    /\ buf \in Seq(Nat) /\ accepted \in Seq(Nat) /\ hashed \in Seq(Nat)
    /\ entries \in Seq(Nat) /\ offset \in Nat /\ position \in Nat
    /\ given \in [Goroutines -> Seq(Nat)] /\ draft \in [Goroutines -> Drafts]
    /\ alone \in [Goroutines -> BOOLEAN] /\ met \in BOOLEAN
    /\ calls \in Nat /\ made \in Nat /\ faults \in Nat
    /\ image \in [draft : Drafts, left : Seq(Nat), all : Seq(Nat), alone : BOOLEAN]

SliceInRange ==
    \A g \in Goroutines : part[g] = "write" /\ pc[g] \in StorePlaces \cup {"cut"} =>
                            Len(buf) >= ChunkSize

LEMMA TypeOKIs == TypeOK <=> Types /\ SliceInRange
  BY DEF TypeOK, Types, SliceInRange

\* The types of what Return resets.
LEMMA ReturnType ==
    ASSUME TypeOK, NEW g \in Goroutines, Return(g)
    PROVE  /\ pc' \in [Goroutines -> Waiting \cup Holding] /\ part' \in [Goroutines -> Parts]
           /\ pieces' \in [Goroutines -> 0..3] /\ at' \in [Goroutines -> Nat]
           /\ draft' \in [Goroutines -> Drafts]
<1>1. NoDraft \in Drafts
  BY DEF NoDraft, Drafts
<1>2. "idle" \in Waiting \cup Holding /\ "none" \in Parts
  BY DEF Waiting, Parts
<1>. QED
  BY <1>1, <1>2 DEF Return, Goto, TypeOK

LEMMA NextSectionType ==
    ASSUME TypeOK, NEW g \in Goroutines, part[g] \in {"flush"} \cup Sections,
           part[g] # "done", NextSection(g)
    PROVE  /\ pc' \in [Goroutines -> Waiting \cup Holding] /\ part' \in [Goroutines -> Parts]
           /\ pieces' \in [Goroutines -> 0..3]
<1>1. PICK section \in Sections, place \in {"mark", "gather", "piece"} :
        /\ part' = [part EXCEPT ![g] = section]
        /\ pieces' = [pieces EXCEPT ![g] = Pieces(section)]
        /\ pc' = [pc EXCEPT ![g] = place]
  BY NextSectionIs
<1>2. format \in {"evf1", "evf2"}
  BY LockingAssumption DEF TypeOK
<1>3. section \in Parts /\ Pieces(section) \in 0..3
  BY <1>2, SectionsAre
<1>4. place \in Waiting
  BY DEF Waiting, FilePlaces, StorePlaces
<1>. QED
  BY <1>1, <1>3, <1>4 DEF TypeOK

\* Every step keeps the types.
LEMMA TypesStep == TypeOK /\ PlaceInv /\ [Next]_vars => Types'
<1>. SUFFICES ASSUME TypeOK, PlaceInv, [Next]_vars
              PROVE  Types'
  OBVIOUS
<1>. USE DEF Types
<1>1. CASE UNCHANGED vars
  BY <1>1 DEF vars, fileVars, ownVars, callVars, TypeOK
<1>2. ASSUME NEW g \in Goroutines, Does(g)
      PROVE  Types'
  <2>0. PlaceOK(g) /\ format \in {"evf1", "evf2"}
    BY LockingAssumption DEF PlaceInv, TypeOK
  <2>1. \A place \in Waiting \cup Holding :
          Goto(g, place) => pc' \in [Goroutines -> Waiting \cup Holding]
    BY DEF Goto, TypeOK
  <2>2. /\ CompressedLens \subseteq Nat /\ AlignLens \subseteq Nat /\ SectionLen \in Nat
        /\ ChunkSize \in Nat \ {0} /\ Nobody \in Goroutines \cup {Nobody} /\ Lengths \subseteq Nat
    BY LockingAssumption
  <2>3. Fault => faults' \in Nat
    BY DEF Fault, TypeOK
  <2>4. ComesToFile(g) => met' \in BOOLEAN
    BY DEF ComesToFile
  <2>5. CASE Call(g)
    <3>1. PICK work \in {"write", "flush"} : Begin(g, work)
      BY <2>5 DEF Call, CallWrite, CallClose
    <3>2. /\ part' = [part EXCEPT ![g] = work] /\ calls' = calls + 1
          /\ UNCHANGED <<fileVars, format, mu, buf, entries, hashed, pieces, at, draft,
                         faults, accepted, met, image>>
      BY <3>1 DEF Begin
    <3>3. part' \in [Goroutines -> Parts]
      BY <3>2 DEF TypeOK, Parts
    <3>4. alone' \in [Goroutines -> BOOLEAN]
      <4>1. alone \in [Goroutines -> BOOLEAN]
        BY DEF TypeOK
      <4>2. \A h \in Goroutines :
              (IF h = g THEN {k \in Goroutines \ {g} : pc[k] # "idle"} = {}
               ELSE alone[h] /\ h \notin {k \in Goroutines \ {g} : pc[k] # "idle"})
              \in BOOLEAN
        BY <4>1, Zenon
      <4>. QED
        BY <3>1, <4>2, Zenon DEF Begin
    <3>5. pc' \in [Goroutines -> Waiting \cup Holding]
      <4>1. PICK place \in {"lock", "test"} : Goto(g, place)
        BY <2>5 DEF Call, CallWrite, CallClose
      <4>. QED
        BY <2>1, <4>1 DEF Waiting
    <3>6. given' \in [Goroutines -> Seq(Nat)] /\ made' \in Nat
      <4>1. CASE CallWrite(g)
        <5>1. PICK n \in Lengths : /\ given' = [given EXCEPT ![g] = [i \in 1..n |-> made + i]]
                                   /\ made' = made + n
          BY <4>1 DEF CallWrite
        <5>2. made \in Nat /\ n \in Nat
          BY <2>2 DEF TypeOK
        <5>3. [i \in 1..n |-> made + i] \in Seq(Nat)
          BY <5>2
        <5>. QED
          BY <5>1, <5>2, <5>3 DEF TypeOK
      <4>2. CASE CallClose(g)
        BY <4>2 DEF CallClose, TypeOK
      <4>. QED
        BY <2>5, <4>1, <4>2 DEF Call
    <3>7. calls' \in Nat
      BY <3>2 DEF TypeOK
    <3>. QED
      BY <3>2, <3>3, <3>4, <3>5, <3>6, <3>7 DEF fileVars, TypeOK
  <2>6. CASE Lock(g)
    <3>1. PICK place \in {"append", "pad"} : Goto(g, place)
      BY <2>6, Zenon DEF Lock
    <3>2. pc' \in [Goroutines -> Waiting \cup Holding]
      BY <2>1, <3>1 DEF Holding
    <3>. QED
      BY <2>6, <3>2 DEF Lock, fileVars, ownVars, callVars, TypeOK
  <2>7. CASE WriteDataStep(g)
    <3>1. CASE Locate(g)
      <4>1. at' \in [Goroutines -> Nat]
        BY <3>1 DEF Locate, TypeOK
      <4>2. pc' \in [Goroutines -> Waiting \cup Holding] /\ met' \in BOOLEAN
        BY <2>1, <2>4, <3>1 DEF Locate, Holding, StorePlaces
      <4>. QED
        BY <3>1, <4>1, <4>2 DEF Locate, fileVars, callVars, TypeOK
    <3>2. CASE StoreChunk(g)
      <4>1. PICK n \in CompressedLens : Written(g, n, [kind |-> "chunk", data |-> Chunk(g)])
        BY <3>2 DEF StoreChunk
      <4>2. offset' \in Nat /\ position' \in Nat
        BY <2>2, <4>1, WrittenType
      <4>3. PICK place \in {"enter", "align"} : Goto(g, place)
        BY <3>2, Zenon DEF StoreChunk
      <4>4. pc' \in [Goroutines -> Waiting \cup Holding]
        BY <2>1, <4>3 DEF Holding, StorePlaces
      <4>. QED
        BY <3>2, <4>2, <4>4 DEF StoreChunk, ownVars, callVars, TypeOK
    <3>3. CASE AlignChunk(g)
      <4>1. PICK n \in AlignLens : Written(g, n, [kind |-> "zeroes"])
        BY <3>3 DEF AlignChunk
      <4>2. offset' \in Nat /\ position' \in Nat
        BY <2>2, <4>1, WrittenType
      <4>3. pc' \in [Goroutines -> Waiting \cup Holding]
        BY <2>1, <3>3 DEF AlignChunk, Holding, StorePlaces
      <4>. QED
        BY <3>3, <4>2, <4>3 DEF AlignChunk, ownVars, callVars, TypeOK
    <3>4. CASE StoreFails(g)
      <4>1. offset' \in Nat /\ position' \in Nat
        BY <3>4, InPartType DEF StoreFails
      <4>2. /\ pc' \in [Goroutines -> Waiting \cup Holding] /\ part' \in [Goroutines -> Parts]
            /\ pieces' \in [Goroutines -> 0..3] /\ at' \in [Goroutines -> Nat]
            /\ draft' \in [Goroutines -> Drafts]
        BY <3>4, ReturnType DEF StoreFails
      <4>. QED
        BY <2>2, <2>3, <3>4, <4>1, <4>2 DEF StoreFails, callVars, TypeOK
    <3>5. CASE EnterChunk(g)
      <4>1. entries' \in Seq(Nat)
        BY <3>5 DEF EnterChunk, TypeOK
      <4>2. pc' \in [Goroutines -> Waiting \cup Holding]
        BY <2>1, <3>5 DEF EnterChunk, Holding, StorePlaces
      <4>. QED
        BY <3>5, <4>1, <4>2 DEF EnterChunk, fileVars, ownVars, callVars, TypeOK
    <3>6. CASE HashChunk(g)
      <4>1. Chunk(g) \in Seq(Nat)
        BY <3>6, ChunkType DEF HashChunk, StorePlaces
      <4>2. hashed' \in Seq(Nat)
        BY <3>6, <4>1 DEF HashChunk, TypeOK
      <4>3. PICK place \in {"cut", "empty"} : Goto(g, place)
        BY <3>6, Zenon DEF HashChunk
      <4>4. pc' \in [Goroutines -> Waiting \cup Holding]
        BY <2>1, <4>3 DEF Holding
      <4>. QED
        BY <3>6, <4>2, <4>4 DEF HashChunk, fileVars, ownVars, callVars, TypeOK
    <3>. QED
      BY <2>7, <3>1, <3>2, <3>3, <3>4, <3>5, <3>6 DEF WriteDataStep
  <2>8. CASE BufferStep(g)
    <3>1. CASE AppendGiven(g)
      <4>1. given[g] \in Seq(Nat) /\ <<>> \in Seq(Nat)
        BY DEF TypeOK
      <4>2. buf' \in Seq(Nat) /\ accepted' \in Seq(Nat) /\ given' \in [Goroutines -> Seq(Nat)]
        BY <3>1, <4>1 DEF AppendGiven, TypeOK
      <4>3. pc' \in [Goroutines -> Waiting \cup Holding]
        BY <2>1, <3>1 DEF AppendGiven, Holding
      <4>. QED
        BY <3>1, <4>2, <4>3 DEF AppendGiven, fileVars, ownVars, TypeOK
    <3>2. CASE CutChunk(g)
      <4>1. buf' \in Seq(Nat)
        BY <2>2, <3>2 DEF CutChunk, TypeOK
      <4>2. pc' \in [Goroutines -> Waiting \cup Holding]
        BY <2>1, <3>2 DEF CutChunk, Holding
      <4>. QED
        BY <3>2, <4>1, <4>2 DEF CutChunk, fileVars, ownVars, callVars, TypeOK
    <3>3. CASE WriteReturns(g)
      <4>1. /\ pc' \in [Goroutines -> Waiting \cup Holding] /\ part' \in [Goroutines -> Parts]
            /\ pieces' \in [Goroutines -> 0..3] /\ at' \in [Goroutines -> Nat]
            /\ draft' \in [Goroutines -> Drafts]
        BY <3>3, ReturnType DEF WriteReturns
      <4>. QED
        BY <2>2, <3>3, <4>1 DEF WriteReturns, fileVars, callVars, TypeOK
    <3>4. CASE CloseFindsBytes(g)
      <4>1. pc' \in [Goroutines -> Waiting \cup Holding]
        BY <2>1, <3>4 DEF CloseFindsBytes, Waiting
      <4>. QED
        BY <3>4, <4>1 DEF CloseFindsBytes, fileVars, ownVars, callVars, TypeOK
    <3>5. CASE CloseFindsNone(g)
      <4>1. part[g] = "flush" /\ NextSection(g) /\ met' \in BOOLEAN
        BY <2>0, <2>4, <3>5 DEF CloseFindsNone, PlaceOK, PlaceFits
      <4>2. /\ pc' \in [Goroutines -> Waiting \cup Holding] /\ part' \in [Goroutines -> Parts]
            /\ pieces' \in [Goroutines -> 0..3]
        BY <4>1, NextSectionType
      <4>. QED
        BY <3>5, <4>1, <4>2 DEF CloseFindsNone, fileVars, callVars, TypeOK
    <3>6. CASE ClosePad(g)
      <4>1. buf' \in Seq(Nat)
        BY <3>6, PadType DEF ClosePad, TypeOK
      <4>2. pc' \in [Goroutines -> Waiting \cup Holding]
        BY <2>1, <3>6 DEF ClosePad, Holding
      <4>. QED
        BY <3>6, <4>1, <4>2 DEF ClosePad, fileVars, ownVars, callVars, TypeOK
    <3>7. CASE CloseEmpty(g)
      <4>1. part[g] = "flush" /\ NextSection(g) /\ met' \in BOOLEAN
        BY <2>0, <2>4, <3>7 DEF CloseEmpty, PlaceOK, PlaceFits
      <4>2. /\ pc' \in [Goroutines -> Waiting \cup Holding] /\ part' \in [Goroutines -> Parts]
            /\ pieces' \in [Goroutines -> 0..3]
        BY <4>1, NextSectionType
      <4>3. buf' \in Seq(Nat) /\ mu' \in Goroutines \cup {Nobody}
        BY <2>2, <3>7 DEF CloseEmpty
      <4>. QED
        BY <3>7, <4>1, <4>2, <4>3 DEF CloseEmpty, fileVars, callVars, TypeOK
    <3>. QED
      BY <2>8, <3>1, <3>2, <3>3, <3>4, <3>5, <3>6, <3>7 DEF BufferStep
  <2>9. CASE InPlaceStep(g)
    <3>1. CASE Mark(g)
      <4>1. at' \in [Goroutines -> Nat] /\ pc' \in [Goroutines -> Waiting \cup Holding]
        BY <2>1, <3>1 DEF Mark, Waiting, FilePlaces, StorePlaces, TypeOK
      <4>. QED
        BY <3>1, <4>1 DEF Mark, fileVars, callVars, TypeOK
    <3>2. CASE SeekSection(g)
      <4>1. offset' \in Nat
        BY <2>2, <3>2 DEF SeekSection, PlaceOf
      <4>2. pc' \in [Goroutines -> Waiting \cup Holding]
        BY <2>1, <3>2 DEF SeekSection, Waiting, FilePlaces, StorePlaces
      <4>. QED
        BY <3>2, <4>1, <4>2 DEF SeekSection, ownVars, callVars, TypeOK
    <3>3. CASE Rewrite(g)
      <4>1. offset' \in Nat /\ position' \in Nat
        BY <2>2, <3>3, WrittenType DEF Rewrite
      <4>2. pc' \in [Goroutines -> Waiting \cup Holding]
        BY <2>1, <3>3 DEF Rewrite, Waiting, FilePlaces, StorePlaces
      <4>. QED
        BY <3>3, <4>1, <4>2 DEF Rewrite, ownVars, callVars, TypeOK
    <3>4. CASE RewriteFails(g)
      <4>1. offset' \in Nat /\ position' \in Nat
        BY <3>4, InPartType DEF RewriteFails
      <4>2. pc' \in [Goroutines -> Waiting \cup Holding]
        BY <2>1, <3>4 DEF RewriteFails, Waiting, FilePlaces, StorePlaces
      <4>. QED
        BY <2>3, <3>4, <4>1, <4>2 DEF RewriteFails, ownVars, callVars, TypeOK
    <3>5. CASE SeekBack(g)
      <4>1. part[g] \in Sections /\ part[g] # "done" /\ NextSection(g)
        BY <2>0, <3>5 DEF SeekBack, PlaceOK, PlaceFits, InPlacePlaces, EncoderPlaces, Rewriting, InPlace
      <4>2. /\ pc' \in [Goroutines -> Waiting \cup Holding] /\ part' \in [Goroutines -> Parts]
            /\ pieces' \in [Goroutines -> 0..3]
        BY <4>1, NextSectionType
      <4>3. offset' \in Nat
        BY <3>5 DEF SeekBack, TypeOK
      <4>. QED
        BY <3>5, <4>2, <4>3 DEF SeekBack, callVars, TypeOK
    <3>6. CASE GiveUp(g)
      <4>1. /\ pc' \in [Goroutines -> Waiting \cup Holding] /\ part' \in [Goroutines -> Parts]
            /\ pieces' \in [Goroutines -> 0..3] /\ at' \in [Goroutines -> Nat]
            /\ draft' \in [Goroutines -> Drafts]
        BY <3>6, ReturnType DEF GiveUp
      <4>2. offset' \in Nat
        BY <3>6 DEF GiveUp, TypeOK
      <4>. QED
        BY <3>6, <4>1, <4>2 DEF GiveUp, callVars, TypeOK
    <3>. QED
      BY <2>9, <3>1, <3>2, <3>3, <3>4, <3>5, <3>6 DEF InPlaceStep
  <2>10. CASE SectionStep(g)
    <3>1. CASE Gather(g)
      <4>1. draft' \in [Goroutines -> Drafts]
        <5>1. \A s \in Seen(g, entries) \cup Seen(g, hashed) : s \in Seq(Nat)
          BY SeenType
        <5>2. draft \in [Goroutines -> Drafts]
          BY DEF TypeOK
        <5>3. PICK s \in Seq(Nat) : \/ draft' = [draft EXCEPT ![g].offsets = s]
                                    \/ draft' = [draft EXCEPT ![g].sum = s]
          BY <3>1, <5>1 DEF Gather
        <5>. QED
          BY <5>2, <5>3 DEF Drafts
      <4>2. pc' \in [Goroutines -> Waiting \cup Holding]
        BY <2>1, <3>1 DEF Gather, Waiting, FilePlaces, StorePlaces
      <4>. QED
        BY <3>1, <4>1, <4>2 DEF Gather, fileVars, callVars, TypeOK
    <3>2. CASE WritePiece(g)
      <4>1. offset' \in Nat /\ position' \in Nat
        BY <2>2, <3>2, WrittenType DEF WritePiece
      <4>2. pieces' \in [Goroutines -> 0..3]
        BY <3>2 DEF WritePiece, TypeOK
      <4>. QED
        BY <3>2, <4>1, <4>2 DEF WritePiece, callVars, TypeOK
    <3>3. CASE EndSection(g)
      <4>1. offset' \in Nat /\ position' \in Nat
        BY <2>2, <3>3, WrittenType DEF EndSection
      <4>2. part[g] \in Sections /\ part[g] # "done" /\ NextSection(g)
        BY <2>0, <3>3 DEF EndSection, PlaceOK, PlaceFits, EncoderPlaces
      <4>3. /\ pc' \in [Goroutines -> Waiting \cup Holding] /\ part' \in [Goroutines -> Parts]
            /\ pieces' \in [Goroutines -> 0..3]
        BY <4>2, NextSectionType
      <4>. QED
        BY <3>3, <4>1, <4>3 DEF EndSection, callVars, TypeOK
    <3>4. CASE CloseReturns(g)
      <4>1. offset' \in Nat /\ position' \in Nat
        BY <2>2, <3>4, WrittenType DEF CloseReturns
      <4>2. /\ pc' \in [Goroutines -> Waiting \cup Holding] /\ part' \in [Goroutines -> Parts]
            /\ pieces' \in [Goroutines -> 0..3] /\ at' \in [Goroutines -> Nat]
            /\ draft' \in [Goroutines -> Drafts]
        BY <3>4, ReturnType DEF CloseReturns
      <4>3. image' \in [draft : Drafts, left : Seq(Nat), all : Seq(Nat), alone : BOOLEAN]
        BY <3>4 DEF CloseReturns, TypeOK
      <4>. QED
        BY <3>4, <4>1, <4>2, <4>3 DEF CloseReturns, callVars, TypeOK
    <3>5. CASE PieceFails(g)
      <4>1. offset' \in Nat /\ position' \in Nat
        BY <3>5, InPartType DEF PieceFails
      <4>2. /\ pc' \in [Goroutines -> Waiting \cup Holding] /\ part' \in [Goroutines -> Parts]
            /\ pieces' \in [Goroutines -> 0..3] /\ at' \in [Goroutines -> Nat]
            /\ draft' \in [Goroutines -> Drafts]
        BY <3>5, ReturnType DEF PieceFails
      <4>. QED
        BY <2>3, <3>5, <4>1, <4>2 DEF PieceFails, callVars, TypeOK
    <3>6. CASE HashFailsUnreported(g)
      <4>1. offset' \in Nat /\ position' \in Nat
        BY <3>6, InPartType DEF HashFailsUnreported
      <4>2. part[g] \in Sections /\ part[g] # "done" /\ NextSection(g)
        BY <2>0, <3>6 DEF HashFailsUnreported, Unreported, PlaceOK, PlaceFits, EncoderPlaces
      <4>3. /\ pc' \in [Goroutines -> Waiting \cup Holding] /\ part' \in [Goroutines -> Parts]
            /\ pieces' \in [Goroutines -> 0..3]
        BY <4>2, NextSectionType
      <4>. QED
        BY <2>3, <3>6, <4>1, <4>3 DEF HashFailsUnreported, callVars, TypeOK
    <3>. QED
      BY <2>10, <3>1, <3>2, <3>3, <3>4, <3>5, <3>6 DEF SectionStep
  <2>. QED
    BY <1>2, <2>5, <2>6, <2>7, <2>8, <2>9, <2>10 DEF Does, Step
<1>. QED
  BY <1>1, <1>2 DEF Next, Does

\* Every step of a goroutine takes it to a place that fits the part it is in.
LEMMA PlaceStep == TypeOK /\ PlaceInv /\ [Next]_vars => PlaceInv'
<1>. SUFFICES ASSUME TypeOK, PlaceInv, [Next]_vars
              PROVE  PlaceInv'
  OBVIOUS
<1>1. CASE UNCHANGED vars
  BY <1>1 DEF vars, ownVars, callVars, PlaceInv, PlaceOK, PlaceFits, Sections, InPlace
<1>2. ASSUME NEW g \in Goroutines, Does(g)
      PROVE  PlaceInv'
  <2>1. /\ pc \in [Goroutines -> Waiting \cup Holding] /\ part \in [Goroutines -> Parts]
        /\ pieces \in [Goroutines -> 0..3] /\ format \in {"evf1", "evf2"}
    BY LockingAssumption DEF TypeOK
  <2>2. PlaceOK(g) /\ \A h \in Goroutines : PlaceOK(h)
    BY DEF PlaceInv
  <2>3. format' = format => \A place, work, count :
          PlaceFits(place, work, count)' <=> PlaceFits(place, work, count)
    BY DEF PlaceFits, Sections, InPlace
  <2>4. ASSUME NEW place, NEW work, NEW count, format' = format,
               pc' = [pc EXCEPT ![g] = place], part' = [part EXCEPT ![g] = work],
               pieces' = [pieces EXCEPT ![g] = count], PlaceFits(place, work, count)
        PROVE  PlaceInv'
    <3>1. SUFFICES ASSUME NEW h \in Goroutines
                   PROVE  PlaceOK(h)'
      BY DEF PlaceInv
    <3>2. CASE h = g
      <4>1. pc'[h] = place /\ part'[h] = work /\ pieces'[h] = count
        BY <2>1, <2>4, <3>2
      <4>. QED
        BY <2>4, <4>1 DEF PlaceOK, PlaceFits, Sections, InPlace
    <3>3. CASE h # g
      <4>1. pc'[h] = pc[h] /\ part'[h] = part[h] /\ pieces'[h] = pieces[h]
        BY <2>1, <2>4, <3>3
      <4>2. PlaceOK(h)
        BY <2>2
      <4>. QED
        BY <2>4, <4>1, <4>2 DEF PlaceOK, PlaceFits, Sections, InPlace
    <3>. QED
      BY <3>2, <3>3
  <2>5. ASSUME NEW place, format' = format, pc' = [pc EXCEPT ![g] = place],
               UNCHANGED <<part, pieces>>, PlaceFits(place, part[g], pieces[g])
        PROVE  PlaceInv'
    <3>1. part' = [part EXCEPT ![g] = part[g]] /\ pieces' = [pieces EXCEPT ![g] = pieces[g]]
      BY <2>1, <2>5
    <3>. QED
      BY <2>4, <2>5, <3>1
  <2>6. ASSUME Return(g), format' = format
        PROVE  PlaceInv'
    <3>1. PlaceFits("idle", "none", 0)
      BY DEF PlaceFits, StorePlaces, EncoderPlaces, InPlacePlaces, Rewriting
    <3>. QED
      BY <2>4, <2>6, <3>1 DEF Return, Goto
  <2>7. ASSUME part[g] \in {"flush"} \cup Sections, part[g] # "done", NextSection(g),
               format' = format
        PROVE  PlaceInv'
    <3>1. PICK section \in Sections, place \in {"mark", "gather", "piece"} :
             /\ part' = [part EXCEPT ![g] = section]
             /\ pieces' = [pieces EXCEPT ![g] = Pieces(section)]
             /\ pc' = [pc EXCEPT ![g] = place]
             /\ place = "mark" => InPlace(section)
             /\ place = "gather" => section \in HashSections \cup {"table"}
             /\ place = "piece" => ~InPlace(section)
      BY <2>7, NextSectionIs
    <3>2. Pieces(section) \in 1..Pieces(section)
      BY <2>1, SectionsAre
    <3>3. place = "gather" => ~InPlace(section)
      BY <3>1 DEF InPlace, HashSections
    <3>4. PlaceFits(place, section, Pieces(section))
      BY <3>1, <3>2, <3>3 DEF PlaceFits, StorePlaces, InPlacePlaces, Rewriting
    <3>. QED
      BY <2>4, <2>7, <3>1, <3>4
  <2>. USE DEF callVars, ownVars, Goto
  <2>8. CASE Call(g)
    <3>1. CASE CallWrite(g)
      <4>1. PlaceFits("lock", "write", pieces[g])
        BY DEF PlaceFits, StorePlaces, EncoderPlaces, InPlacePlaces, Rewriting
      <4>2. pieces' = [pieces EXCEPT ![g] = pieces[g]]
        BY <2>1, <3>1 DEF CallWrite, Begin
      <4>. QED
        BY <2>4, <3>1, <4>1, <4>2 DEF CallWrite, Begin
    <3>2. CASE CallClose(g)
      <4>1. PlaceFits("test", "flush", pieces[g])
        BY DEF PlaceFits, StorePlaces, EncoderPlaces, InPlacePlaces, Rewriting
      <4>2. pieces' = [pieces EXCEPT ![g] = pieces[g]]
        BY <2>1, <3>2 DEF CallClose, Begin
      <4>. QED
        BY <2>4, <3>2, <4>1, <4>2 DEF CallClose, Begin
    <3>. QED
      BY <2>8, <3>1, <3>2 DEF Call
  <2>9. CASE Lock(g)
    <3>1. part[g] \in {"write", "flush"} /\ UNCHANGED <<part, pieces, format>>
      BY <2>2, <2>9 DEF Lock, PlaceOK, PlaceFits
    <3>2. CASE part[g] = "write"
      <4>1. pc' = [pc EXCEPT ![g] = "append"]
        BY <2>9, <3>2, Zenon DEF Lock
      <4>2. PlaceFits("append", part[g], pieces[g])
        BY <3>2 DEF PlaceFits, StorePlaces, EncoderPlaces, InPlacePlaces, Rewriting
      <4>. QED
        BY <2>5, <3>1, <4>1, <4>2
    <3>3. CASE part[g] # "write"
      <4>1. pc' = [pc EXCEPT ![g] = "pad"]
        BY <2>9, <3>3, Zenon DEF Lock
      <4>2. PlaceFits("pad", part[g], pieces[g])
        BY <3>1, <3>3 DEF PlaceFits, StorePlaces, EncoderPlaces, InPlacePlaces, Rewriting
      <4>. QED
        BY <2>5, <3>1, <4>1, <4>2
    <3>. QED
      BY <3>2, <3>3
  <2>10. CASE WriteDataStep(g)
    <3>1. ASSUME NEW place \in {"store", "align", "enter", "hash"},
                 part[g] \in {"write", "flush"}
          PROVE  PlaceFits(place, part[g], pieces[g])
      BY <3>1 DEF PlaceFits, StorePlaces, EncoderPlaces, InPlacePlaces, Rewriting
    <3>2. CASE Locate(g)
      <4>1. part[g] \in {"write", "flush"}
        BY <2>2, <3>2 DEF Locate, PlaceOK, PlaceFits
      <4>. QED
        BY <2>5, <3>1, <3>2, <4>1 DEF Locate
    <3>3. CASE StoreChunk(g) \/ AlignChunk(g) \/ EnterChunk(g)
      <4>1. part[g] \in {"write", "flush"}
        BY <2>2, <3>3 DEF StoreChunk, AlignChunk, EnterChunk, PlaceOK, PlaceFits, StorePlaces
      <4>2. PICK place \in {"store", "align", "enter", "hash"} : Goto(g, place)
        BY <3>3, Zenon DEF StoreChunk, AlignChunk, EnterChunk
      <4>. QED
        BY <2>5, <3>1, <3>3, <4>1, <4>2 DEF StoreChunk, AlignChunk, EnterChunk
    <3>4. CASE StoreFails(g)
      BY <2>6, <3>4 DEF StoreFails
    <3>5. CASE HashChunk(g)
      <4>1. part[g] \in {"write", "flush"} /\ UNCHANGED <<part, pieces, format>>
        BY <2>2, <3>5 DEF HashChunk, PlaceOK, PlaceFits, StorePlaces
      <4>2. CASE part[g] = "write"
        <5>1. pc' = [pc EXCEPT ![g] = "cut"]
          BY <3>5, <4>2, Zenon DEF HashChunk
        <5>2. PlaceFits("cut", part[g], pieces[g])
          BY <4>2 DEF PlaceFits, StorePlaces, EncoderPlaces, InPlacePlaces, Rewriting
        <5>. QED
          BY <2>5, <4>1, <5>1, <5>2
      <4>3. CASE part[g] # "write"
        <5>1. pc' = [pc EXCEPT ![g] = "empty"]
          BY <3>5, <4>3, Zenon DEF HashChunk
        <5>2. PlaceFits("empty", part[g], pieces[g])
          BY <4>1, <4>3 DEF PlaceFits, StorePlaces, EncoderPlaces, InPlacePlaces, Rewriting
        <5>. QED
          BY <2>5, <4>1, <5>1, <5>2
      <4>. QED
        BY <4>2, <4>3
    <3>. QED
      BY <2>10, <3>2, <3>3, <3>4, <3>5 DEF WriteDataStep
  <2>11. CASE BufferStep(g)
    <3>1. CASE AppendGiven(g) \/ CutChunk(g)
      <4>1. PlaceFits("loop", part[g], pieces[g])
        BY <2>2, <3>1 DEF AppendGiven, CutChunk, PlaceOK, PlaceFits, StorePlaces,
                          EncoderPlaces, InPlacePlaces, Rewriting
      <4>. QED
        BY <2>5, <3>1, <4>1 DEF AppendGiven, CutChunk
    <3>2. CASE WriteReturns(g)
      BY <2>6, <3>2 DEF WriteReturns
    <3>3. CASE CloseFindsBytes(g)
      <4>1. PlaceFits("lock", part[g], pieces[g])
        BY <2>2, <3>3 DEF CloseFindsBytes, PlaceOK, PlaceFits, StorePlaces,
                          EncoderPlaces, InPlacePlaces, Rewriting
      <4>. QED
        BY <2>5, <3>3, <4>1 DEF CloseFindsBytes
    <3>4. CASE CloseFindsNone(g) \/ CloseEmpty(g)
      <4>1. part[g] = "flush"
        BY <2>2, <3>4 DEF CloseFindsNone, CloseEmpty, PlaceOK, PlaceFits
      <4>. QED
        BY <2>7, <3>4, <4>1 DEF CloseFindsNone, CloseEmpty
    <3>5. CASE ClosePad(g)
      <4>1. PlaceFits("flush", part[g], pieces[g])
        BY <2>2, <3>5 DEF ClosePad, PlaceOK, PlaceFits, StorePlaces,
                          EncoderPlaces, InPlacePlaces, Rewriting
      <4>. QED
        BY <2>5, <3>5, <4>1 DEF ClosePad
    <3>. QED
      BY <2>11, <3>1, <3>2, <3>3, <3>4, <3>5 DEF BufferStep
  <2>12. CASE InPlaceStep(g)
    <3>1. pc[g] \in InPlacePlaces => part[g] \in Sections /\ InPlace(part[g])
      BY <2>2 DEF PlaceOK, PlaceFits, EncoderPlaces
    <3>2. CASE Mark(g) \/ SeekSection(g) \/ Rewrite(g) \/ RewriteFails(g)
      <4>1. part[g] \in Sections /\ InPlace(part[g])
        BY <3>1, <3>2 DEF Mark, SeekSection, Rewrite, RewriteFails, InPlacePlaces, Rewriting
      <4>2. \A place \in {"seek", "rewrite", "back", "giveUp"} :
              PlaceFits(place, part[g], pieces[g])
        BY <4>1 DEF PlaceFits, StorePlaces
      <4>. QED
        BY <2>5, <3>2, <4>2 DEF Mark, SeekSection, Rewrite, RewriteFails
    <3>3. CASE SeekBack(g)
      <4>1. part[g] \in Sections /\ part[g] # "done"
        BY <3>1, <3>3 DEF SeekBack, InPlacePlaces, Rewriting, InPlace
      <4>. QED
        BY <2>7, <3>3, <4>1 DEF SeekBack
    <3>4. CASE GiveUp(g)
      BY <2>6, <3>4 DEF GiveUp
    <3>. QED
      BY <2>12, <3>2, <3>3, <3>4 DEF InPlaceStep
  <2>13. CASE SectionStep(g)
    <3>1. pc[g] = "piece" => /\ part[g] \in Sections /\ ~InPlace(part[g])
                             /\ pieces[g] \in 1..Pieces(part[g])
      BY <2>2 DEF PlaceOK, PlaceFits, EncoderPlaces
    <3>2. CASE Gather(g)
      <4>1. part[g] \in Sections /\ part[g] \in HashSections \cup {"table"}
        BY <2>2, <3>2 DEF Gather, PlaceOK, PlaceFits, EncoderPlaces
      <4>2. PlaceFits("piece", part[g], pieces[g])
        <5>1. pieces[g] \in 1..Pieces(part[g])
          BY <2>2, <3>2 DEF Gather, PlaceOK, PlaceFits
        <5>2. ~InPlace(part[g])
          BY <4>1 DEF InPlace, HashSections
        <5>. QED
          BY <4>1, <5>1, <5>2 DEF PlaceFits, StorePlaces, InPlacePlaces, Rewriting
      <4>. QED
        BY <2>5, <3>2, <4>2 DEF Gather
    <3>3. CASE WritePiece(g)
      <4>1. pieces[g] > 1 /\ pieces[g] \in 0..3 /\ Pieces(part[g]) \in 1..3
        BY <2>1, <3>1, <3>3, SectionsAre DEF WritePiece
      <4>2. pieces[g] - 1 \in 1..Pieces(part[g])
        BY <3>1, <3>3, <4>1 DEF WritePiece
      <4>3. PlaceFits("piece", part[g], pieces[g] - 1)
        BY <3>1, <3>3, <4>2 DEF WritePiece, PlaceFits, StorePlaces, InPlacePlaces, Rewriting
      <4>4. /\ pc' = [pc EXCEPT ![g] = "piece"] /\ part' = [part EXCEPT ![g] = part[g]]
            /\ pieces' = [pieces EXCEPT ![g] = pieces[g] - 1] /\ format' = format
        BY <2>1, <3>3 DEF WritePiece
      <4>. QED
        BY <2>4, <4>3, <4>4
    <3>4. CASE EndSection(g) \/ HashFailsUnreported(g)
      <4>1. part[g] \in Sections /\ part[g] # "done"
        BY <3>1, <3>4 DEF EndSection, HashFailsUnreported, Unreported
      <4>. QED
        BY <2>7, <3>4, <4>1 DEF EndSection, HashFailsUnreported
    <3>5. CASE CloseReturns(g) \/ PieceFails(g)
      BY <2>6, <3>5 DEF CloseReturns, PieceFails
    <3>. QED
      BY <2>13, <3>2, <3>3, <3>4, <3>5 DEF SectionStep
  <2>. QED
    BY <1>2, <2>8, <2>9, <2>10, <2>11, <2>12, <2>13 DEF Does, Step
<1>. QED
  BY <1>1, <1>2 DEF Next, Does

\* Every step keeps the exclusion: only Lock enters the part of a call that
\* holds the mutex, only an Unlock leaves it.
LEMMA ExclusionStep ==
    TypeOK /\ PlaceInv /\ MutualExclusion /\ [Next]_vars => MutualExclusion'
<1>. SUFFICES ASSUME TypeOK, PlaceInv, MutualExclusion, [Next]_vars
              PROVE  MutualExclusion'
  OBVIOUS
<1>1. CASE UNCHANGED vars
  BY <1>1 DEF vars, MutualExclusion
<1>2. ASSUME NEW g \in Goroutines, Does(g)
      PROVE  MutualExclusion'
  <2>. DEFINE Moves(to) == pc' = [pc EXCEPT ![g] = to]
  <2>1. /\ pc \in [Goroutines -> Waiting \cup Holding]
        /\ \A h \in Goroutines : (pc[h] \in Holding) = (mu = h)
        /\ Nobody \notin Goroutines
    BY LockingAssumption DEF TypeOK, MutualExclusion
  <2>2. ASSUME NEW to, Moves(to), mu' = mu, pc[g] \in Holding <=> to \in Holding
        PROVE  MutualExclusion'
    BY <2>1, <2>2 DEF MutualExclusion
  <2>3. ASSUME NEW to, Moves(to), mu = Nobody, mu' = g, to \in Holding
        PROVE  MutualExclusion'
    BY <2>1, <2>3 DEF MutualExclusion
  <2>4. ASSUME NEW to, Moves(to), pc[g] \in Holding, mu' = Nobody, to \notin Holding
        PROVE  MutualExclusion'
    BY <2>1, <2>4 DEF MutualExclusion
  <2>5. Return(g) => Moves("idle")
    BY DEF Return, Goto
  <2>6. /\ PlaceOK(g)
        /\ part[g] \in {"flush"} \cup Sections /\ part[g] # "done" /\ NextSection(g) =>
             \E to \in {"mark", "gather", "piece"} : Moves(to)
    BY NextSectionIs DEF PlaceInv
  <2>. USE DEF Goto, Holding, StorePlaces
  <2>7. CASE Call(g)
    <3>1. PICK to \in {"lock", "test"} : Moves(to)
      BY <2>7 DEF Call, CallWrite, CallClose
    <3>2. mu' = mu /\ pc[g] = "idle"
      BY <2>7 DEF Call, CallWrite, CallClose, Begin
    <3>. QED
      BY <2>2, <3>1, <3>2
  <2>8. CASE Lock(g)
    <3>1. PICK to \in {"append", "pad"} : Moves(to)
      BY <2>8, Zenon DEF Lock
    <3>. QED
      BY <2>3, <2>8, <3>1 DEF Lock
  <2>9. CASE WriteDataStep(g)
    <3>1. CASE StoreFails(g)
      BY <2>4, <2>5, <3>1 DEF StoreFails
    <3>2. CASE Locate(g) \/ AlignChunk(g) \/ EnterChunk(g)
      BY <2>2, <3>2 DEF Locate, AlignChunk, EnterChunk
    <3>3. CASE StoreChunk(g)
      <4>1. PICK to \in {"enter", "align"} : Moves(to)
        BY <3>3, Zenon DEF StoreChunk
      <4>. QED
        BY <2>2, <3>3, <4>1 DEF StoreChunk
    <3>4. CASE HashChunk(g)
      <4>1. PICK to \in {"cut", "empty"} : Moves(to)
        BY <3>4, Zenon DEF HashChunk
      <4>. QED
        BY <2>2, <3>4, <4>1 DEF HashChunk
    <3>. QED
      BY <2>9, <3>1, <3>2, <3>3, <3>4 DEF WriteDataStep
  <2>10. CASE BufferStep(g)
    <3>1. CASE AppendGiven(g) \/ CutChunk(g) \/ ClosePad(g) \/ CloseFindsBytes(g)
      BY <2>2, <3>1 DEF AppendGiven, CutChunk, ClosePad, CloseFindsBytes
    <3>2. CASE WriteReturns(g)
      BY <2>4, <2>5, <3>2 DEF WriteReturns
    <3>3. CASE CloseFindsNone(g)
      <4>1. part[g] = "flush"
        BY <2>6, <3>3 DEF CloseFindsNone, PlaceOK, PlaceFits
      <4>2. PICK to \in {"mark", "gather", "piece"} : Moves(to)
        BY <2>6, <3>3, <4>1 DEF CloseFindsNone
      <4>. QED
        BY <2>2, <3>3, <4>2 DEF CloseFindsNone
    <3>4. CASE CloseEmpty(g)
      <4>1. part[g] = "flush"
        BY <2>6, <3>4 DEF CloseEmpty, PlaceOK, PlaceFits
      <4>2. PICK to \in {"mark", "gather", "piece"} : Moves(to)
        BY <2>6, <3>4, <4>1 DEF CloseEmpty
      <4>. QED
        BY <2>4, <3>4, <4>2 DEF CloseEmpty
    <3>. QED
      BY <2>10, <3>1, <3>2, <3>3, <3>4 DEF BufferStep
  <2>11. CASE InPlaceStep(g)
    <3>1. CASE Mark(g) \/ SeekSection(g) \/ Rewrite(g) \/ RewriteFails(g)
      BY <2>2, <3>1 DEF Mark, SeekSection, Rewrite, RewriteFails
    <3>2. CASE SeekBack(g)
      <4>1. part[g] \in Sections /\ part[g] # "done"
        BY <2>6, <3>2 DEF SeekBack, PlaceOK, PlaceFits, EncoderPlaces, InPlacePlaces,
                          Rewriting, InPlace
      <4>2. PICK to \in {"mark", "gather", "piece"} : Moves(to)
        BY <2>6, <3>2, <4>1 DEF SeekBack
      <4>. QED
        BY <2>2, <3>2, <4>2 DEF SeekBack
    <3>3. CASE GiveUp(g)
      BY <2>2, <2>5, <3>3 DEF GiveUp
    <3>. QED
      BY <2>11, <3>1, <3>2, <3>3 DEF InPlaceStep
  <2>12. CASE SectionStep(g)
    <3>1. CASE Gather(g)
      BY <2>2, <3>1 DEF Gather
    <3>2. CASE WritePiece(g)
      BY <2>1, <3>2 DEF WritePiece, MutualExclusion
    <3>3. CASE EndSection(g) \/ HashFailsUnreported(g)
      <4>1. part[g] \in Sections /\ part[g] # "done"
        BY <2>6, <3>3 DEF EndSection, HashFailsUnreported, Unreported, PlaceOK, PlaceFits,
                          EncoderPlaces
      <4>2. PICK to \in {"mark", "gather", "piece"} : Moves(to)
        BY <2>6, <3>3, <4>1 DEF EndSection, HashFailsUnreported
      <4>. QED
        BY <2>2, <3>3, <4>2 DEF EndSection, HashFailsUnreported
    <3>4. CASE CloseReturns(g) \/ PieceFails(g)
      BY <2>2, <2>5, <3>4 DEF CloseReturns, PieceFails
    <3>. QED
      BY <2>12, <3>1, <3>2, <3>3, <3>4 DEF SectionStep
  <2>. QED
    BY <1>2, <2>7, <2>8, <2>9, <2>10, <2>11, <2>12 DEF Does, Step
<1>. QED
  BY <1>1, <1>2 DEF Next, Does

\* A step of one goroutine leaves the others where they are.
LEMMA OthersStay ==
    ASSUME TypeOK, NEW g \in Goroutines, Does(g)
    PROVE  \A h \in Goroutines \ {g} :
             /\ pc'[h] = pc[h] /\ part'[h] = part[h]
             /\ at'[h] = at[h] /\ draft'[h] = draft[h] /\ given'[h] = given[h]
<1>1. /\ pc \in [Goroutines -> Waiting \cup Holding] /\ part \in [Goroutines -> Parts]
      /\ at \in [Goroutines -> Nat] /\ draft \in [Goroutines -> Drafts]
      /\ given \in [Goroutines -> Seq(Nat)]
  BY DEF TypeOK
<1>. DEFINE Stays(f, r) == \A h \in Goroutines \ {g} : r[h] = f[h]
<1>2. \A to : Goto(g, to) => Stays(pc, pc')
  BY <1>1 DEF Goto
<1>3. Return(g) => Stays(pc, pc') /\ Stays(part, part') /\ Stays(at, at') /\ Stays(draft, draft')
  BY <1>1 DEF Return, Goto
<1>4. NextSection(g) => Stays(pc, pc') /\ Stays(part, part')
  <2>1. ASSUME NextSection(g)
        PROVE  Stays(pc, pc') /\ Stays(part, part')
    <3>1. \E to : Goto(g, to)
      BY <2>1, Zenon DEF NextSection
    <3>2. \E s : part' = [part EXCEPT ![g] = s]
      BY <2>1, Zenon DEF NextSection
    <3>. QED
      BY <1>1, <1>2, <3>1, <3>2
  <2>. QED
    BY <2>1
<1>5. /\ \A x : at' = [at EXCEPT ![g] = x] => Stays(at, at')
      /\ \A x : part' = [part EXCEPT ![g] = x] => Stays(part, part')
      /\ \A x : given' = [given EXCEPT ![g] = x] => Stays(given, given')
      /\ \A x : draft' = [draft EXCEPT ![g].offsets = x] => Stays(draft, draft')
      /\ \A x : draft' = [draft EXCEPT ![g].sum = x] => Stays(draft, draft')
  BY <1>1
<1>6. /\ pc' = pc => Stays(pc, pc')
      /\ part' = part => Stays(part, part')
      /\ at' = at => Stays(at, at')
      /\ draft' = draft => Stays(draft, draft')
      /\ given' = given => Stays(given, given')
  OBVIOUS
<1>. SUFFICES Stays(pc, pc') /\ Stays(part, part') /\ Stays(at, at')
              /\ Stays(draft, draft') /\ Stays(given, given')
  OBVIOUS
<1>7. UNCHANGED part => Stays(part, part')
  OBVIOUS
<1>. HIDE DEF Stays
<1>8. CASE Call(g)
  <2>1. PICK work : Begin(g, work)
    BY <1>8 DEF Call, CallWrite, CallClose
  <2>2. Stays(part, part') /\ Stays(at, at') /\ Stays(draft, draft')
    BY <1>5, <1>6, <2>1 DEF Begin
  <2>3. Stays(pc, pc') /\ Stays(given, given')
    BY <1>2, <1>5, <1>6, <1>8 DEF Call, CallWrite, CallClose
  <2>. QED
    BY <2>2, <2>3
<1>9. CASE Lock(g)
  <2>1. \E to : Goto(g, to)
    BY <1>9, Zenon DEF Lock
  <2>. QED
    BY <1>2, <1>6, <1>7, <1>9, <2>1 DEF Lock, ownVars, callVars
<1>10. CASE WriteDataStep(g)
  <2>1. CASE Locate(g)
    BY <1>2, <1>5, <1>6, <1>7, <2>1 DEF Locate, callVars
  <2>2. CASE StoreFails(g)
    BY <1>3, <1>6, <2>2 DEF StoreFails, callVars
  <2>3. CASE StoreChunk(g) \/ AlignChunk(g) \/ EnterChunk(g) \/ HashChunk(g)
    <3>1. \E to : Goto(g, to)
      BY <2>3, Zenon DEF StoreChunk, AlignChunk, EnterChunk, HashChunk
    <3>. QED
      BY <1>2, <1>6, <1>7, <2>3, <3>1
      DEF StoreChunk, AlignChunk, EnterChunk, HashChunk, ownVars, callVars
  <2>. QED
    BY <1>10, <2>1, <2>2, <2>3 DEF WriteDataStep
<1>11. CASE BufferStep(g)
  <2>1. CASE AppendGiven(g)
    BY <1>2, <1>5, <1>6, <1>7, <2>1 DEF AppendGiven, ownVars
  <2>2. CASE CutChunk(g) \/ CloseFindsBytes(g) \/ ClosePad(g)
    BY <1>2, <1>6, <1>7, <2>2 DEF CutChunk, CloseFindsBytes, ClosePad, ownVars, callVars
  <2>3. CASE WriteReturns(g)
    BY <1>3, <1>6, <2>3 DEF WriteReturns, callVars
  <2>4. CASE CloseFindsNone(g) \/ CloseEmpty(g)
    BY <1>4, <1>6, <2>4 DEF CloseFindsNone, CloseEmpty, callVars
  <2>. QED
    BY <1>11, <2>1, <2>2, <2>3, <2>4 DEF BufferStep
<1>12. CASE InPlaceStep(g)
  <2>1. CASE Mark(g)
    BY <1>2, <1>5, <1>6, <1>7, <2>1 DEF Mark, callVars
  <2>2. CASE SeekSection(g) \/ Rewrite(g) \/ RewriteFails(g)
    BY <1>2, <1>6, <1>7, <2>2 DEF SeekSection, Rewrite, RewriteFails, ownVars, callVars
  <2>3. CASE SeekBack(g)
    BY <1>4, <1>6, <2>3 DEF SeekBack, callVars
  <2>4. CASE GiveUp(g)
    BY <1>3, <1>6, <2>4 DEF GiveUp, callVars
  <2>. QED
    BY <1>12, <2>1, <2>2, <2>3, <2>4 DEF InPlaceStep
<1>13. CASE SectionStep(g)
  <2>1. CASE Gather(g)
    <3>1. Stays(draft, draft')
      BY <1>5, <2>1 DEF Gather
    <3>. QED
      BY <1>2, <1>6, <1>7, <2>1, <3>1 DEF Gather, callVars
  <2>2. CASE WritePiece(g)
    <3>1. Stays(pc, pc')
      BY <2>2 DEF WritePiece, Stays
    <3>. QED
      BY <1>6, <1>7, <2>2, <3>1 DEF WritePiece, callVars
  <2>3. CASE EndSection(g)
    BY <1>4, <1>6, <2>3 DEF EndSection, callVars
  <2>4. CASE CloseReturns(g) \/ PieceFails(g)
    BY <1>3, <1>6, <2>4 DEF CloseReturns, PieceFails, callVars
  <2>5. CASE HashFailsUnreported(g)
    BY <1>4, <1>5, <1>6, <2>5 DEF HashFailsUnreported, callVars
  <2>. QED
    BY <1>13, <2>1, <2>2, <2>3, <2>4, <2>5 DEF SectionStep
<1>. QED
  BY <1>8, <1>9, <1>10, <1>11, <1>12, <1>13 DEF Does, Step

\* What a goroutine without the mutex cannot change.
LEMMA UnheldStep ==
    ASSUME NEW g \in Goroutines, Does(g), pc[g] \notin Holding
    PROVE  UNCHANGED <<buf, hashed, entries, accepted>>
<1>. USE DEF Holding, StorePlaces
<1>1. CASE Call(g)
  BY <1>1 DEF Call, CallWrite, CallClose, Begin
<1>2. CASE Lock(g)
  BY <1>2 DEF Lock
<1>3. CASE WriteDataStep(g)
  BY <1>3 DEF WriteDataStep, Locate, StoreChunk, AlignChunk, StoreFails, EnterChunk, HashChunk
<1>4. CASE BufferStep(g)
  BY <1>4 DEF BufferStep, AppendGiven, CutChunk, WriteReturns, CloseFindsBytes,
              CloseFindsNone, ClosePad, CloseEmpty
<1>5. CASE InPlaceStep(g)
  BY <1>5 DEF InPlaceStep, Mark, SeekSection, Rewrite, RewriteFails, SeekBack, GiveUp
<1>6. CASE SectionStep(g)
  BY <1>6 DEF SectionStep, Gather, WritePiece, EndSection, CloseReturns, PieceFails,
              HashFailsUnreported
<1>. QED
  BY <1>1, <1>2, <1>3, <1>4, <1>5, <1>6 DEF Does, Step

\* What a Write has found in the buffer is there while it has the mutex.
LEMMA SliceStep ==
    TypeOK /\ PlaceInv /\ MutualExclusion /\ [Next]_vars => SliceInRange'
<1>. SUFFICES ASSUME TypeOK, PlaceInv, MutualExclusion, [Next]_vars
              PROVE  SliceInRange'
  OBVIOUS
<1>1. CASE UNCHANGED vars
  BY <1>1 DEF vars, ownVars, TypeOK, SliceInRange
<1>2. ASSUME NEW g \in Goroutines, Does(g)
      PROVE  SliceInRange'
  <2>. DEFINE Places == StorePlaces \cup {"cut"}
  <2>1. /\ pc \in [Goroutines -> Waiting \cup Holding] /\ part \in [Goroutines -> Parts]
        /\ \A h \in Goroutines : part[h] = "write" /\ pc[h] \in Places => Len(buf) >= ChunkSize
    BY DEF TypeOK
  <2>2. ASSUME NEW h \in Goroutines \ {g}, part'[h] = "write", pc'[h] \in Places
        PROVE  Len(buf') >= ChunkSize
    <3>1. part[h] = "write" /\ pc[h] \in Places
      BY <1>2, <2>2, OthersStay
    <3>2. pc[g] \notin Holding
      BY <3>1 DEF MutualExclusion, Holding
    <3>. QED
      BY <1>2, <2>1, <3>1, <3>2, UnheldStep
  <2>3. ASSUME part'[g] = "write", pc'[g] \in Places
        PROVE  Len(buf') >= ChunkSize
    <3>. USE DEF StorePlaces, Goto
    <3>1. /\ PlaceOK(g)
          /\ part[g] \in {"flush"} \cup Sections /\ part[g] # "done" /\ NextSection(g) =>
               pc'[g] \notin Places
      <4>1. \A to \in {"mark", "gather", "piece"} :
              pc' = [pc EXCEPT ![g] = to] => pc'[g] \notin Places
        BY <2>1
      <4>. QED
        BY <4>1, NextSectionIs DEF PlaceInv
    <3>2. ~Return(g)
      BY <2>1, <2>3 DEF Return
    <3>3. ~Call(g)
      BY <2>1, <2>3 DEF Call, CallWrite, CallClose
    <3>4. ~Lock(g)
      <4>1. \A to \in {"append", "pad"} : Goto(g, to) => pc'[g] \notin Places
        BY <2>1
      <4>2. Lock(g) => \E to \in {"append", "pad"} : Goto(g, to)
        BY Zenon DEF Lock
      <4>. QED
        BY <2>3, <4>1, <4>2
    <3>5. CASE WriteDataStep(g)
      <4>1. CASE Locate(g)
        <5>1. part[g] = "write" /\ buf' = buf
          BY <2>3, <4>1 DEF Locate
        <5>2. pc[g] = "loop"
          BY <3>1, <4>1, <5>1 DEF Locate, PlaceOK, PlaceFits
        <5>. QED
          BY <4>1, <5>1, <5>2 DEF Locate
      <4>2. CASE StoreChunk(g) \/ AlignChunk(g) \/ EnterChunk(g) \/ HashChunk(g)
        <5>1. part'[g] = part[g] /\ pc[g] \in Places /\ buf' = buf
          BY <4>2 DEF StoreChunk, AlignChunk, EnterChunk, HashChunk, ownVars
        <5>. QED
          BY <2>1, <2>3, <5>1
      <4>3. ~StoreFails(g)
        BY <3>2 DEF StoreFails
      <4>. QED
        BY <3>5, <4>1, <4>2, <4>3 DEF WriteDataStep
    <3>6. ~BufferStep(g)
      <4>1. ~(AppendGiven(g) \/ CutChunk(g) \/ ClosePad(g) \/ CloseFindsBytes(g))
        BY <2>1, <2>3 DEF AppendGiven, CutChunk, ClosePad, CloseFindsBytes
      <4>2. ~(CloseFindsNone(g) \/ CloseEmpty(g))
        BY <2>3, <3>1 DEF CloseFindsNone, CloseEmpty, PlaceOK, PlaceFits
      <4>. QED
        BY <3>2, <4>1, <4>2 DEF BufferStep, WriteReturns
    <3>7. ~InPlaceStep(g)
      <4>1. ~(Mark(g) \/ SeekSection(g) \/ Rewrite(g) \/ RewriteFails(g))
        BY <2>1, <2>3 DEF Mark, SeekSection, Rewrite, RewriteFails
      <4>2. ~SeekBack(g)
        BY <2>3, <3>1 DEF SeekBack, PlaceOK, PlaceFits, EncoderPlaces, InPlacePlaces,
                          Rewriting, InPlace
      <4>. QED
        BY <3>2, <4>1, <4>2 DEF InPlaceStep, GiveUp
    <3>8. ~SectionStep(g)
      <4>1. ~(Gather(g) \/ WritePiece(g))
        BY <2>1, <2>3 DEF Gather, WritePiece
      <4>2. ~(EndSection(g) \/ HashFailsUnreported(g))
        BY <2>3, <3>1 DEF EndSection, HashFailsUnreported, Unreported, PlaceOK, PlaceFits,
                          EncoderPlaces
      <4>. QED
        BY <3>2, <4>1, <4>2 DEF SectionStep, CloseReturns, PieceFails
    <3>. QED
      BY <1>2, <3>3, <3>4, <3>5, <3>6, <3>7, <3>8 DEF Does, Step
  <2>. QED
    BY <2>2, <2>3 DEF SliceInRange
<1>. QED
  BY <1>1, <1>2 DEF Next, Does

\* The initial state.
LEMMA TypeInit == Init => TypeOK /\ PlaceInv /\ MutualExclusion
<1>. SUFFICES ASSUME Init
              PROVE  TypeOK /\ PlaceInv /\ MutualExclusion
  OBVIOUS
<1>1. NoDraft \in Drafts /\ NotClosed \in [draft : Drafts, left : Seq(Nat), all : Seq(Nat),
                                           alone : BOOLEAN]
  BY DEF NoDraft, Drafts, NotClosed
<1>2. \A g \in Goroutines : pc[g] = "idle" /\ part[g] = "none"
  BY DEF Init
<1>3. SliceInRange
  BY <1>2 DEF SliceInRange
<1>4. Types
  <2>1. /\ "idle" \in Waiting /\ "none" \in Parts /\ Home \in Nat
        /\ <<>> \in Seq(Nat) /\ 0 \in Nat /\ 0 \in 0..3
    BY LockingAssumption DEF Waiting, Parts, Home
  <2>2. /\ pc \in [Goroutines -> Waiting \cup Holding] /\ part \in [Goroutines -> Parts]
        /\ pieces \in [Goroutines -> 0..3] /\ at \in [Goroutines -> Nat]
    BY <2>1 DEF Init
  <2>3. /\ given \in [Goroutines -> Seq(Nat)] /\ draft \in [Goroutines -> Drafts]
        /\ alone \in [Goroutines -> BOOLEAN]
    BY <1>1, <2>1 DEF Init
  <2>4. /\ format \in Formats /\ mu \in Goroutines \cup {Nobody}
        /\ buf \in Seq(Nat) /\ accepted \in Seq(Nat) /\ hashed \in Seq(Nat)
        /\ entries \in Seq(Nat) /\ offset \in Nat /\ position \in Nat
        /\ met \in BOOLEAN /\ calls \in Nat /\ made \in Nat /\ faults \in Nat
        /\ image = NotClosed
    BY <2>1 DEF Init
  <2>. QED
    BY <1>1, <2>2, <2>3, <2>4 DEF Types
<1>5. PlaceInv
  BY <1>2 DEF PlaceInv, PlaceOK, PlaceFits, StorePlaces, EncoderPlaces, InPlacePlaces, Rewriting
<1>6. MutualExclusion
  BY <1>2, LockingAssumption DEF Init, MutualExclusion, Holding, StorePlaces
<1>. QED
  BY <1>3, <1>4, <1>5, <1>6, TypeOKIs

\* Types, places and exclusion hold together.
LEMMA Basics == Spec => [](TypeOK /\ PlaceInv /\ MutualExclusion)
<1>1. TypeOK /\ PlaceInv /\ MutualExclusion /\ [Next]_vars
        => (TypeOK /\ PlaceInv /\ MutualExclusion)'
  <2>1. TypeOK' <=> Types' /\ SliceInRange'
    BY DEF TypeOK, Types, SliceInRange
  <2>. QED
    BY <2>1, TypesStep, PlaceStep, ExclusionStep, SliceStep
<1>. QED
  BY <1>1, TypeInit, PTL DEF Spec

\* Every variable of the writer keeps its type, however the calls interleave,
\* and the slice of the buffer that a Write hands on is always in range.
THEOREM TypeCorrect == Spec => []TypeOK
  BY Basics, PTL

\* Whoever appends to the buffer, stores a chunk or cuts the buffer holds the
\* mutex of the writer, and nobody else does.
THEOREM Exclusion == Spec => []MutualExclusion
  BY Basics, PTL

(***************************************************************************)
(* Data: a sequence of bytes without its padding.                          *)
(***************************************************************************)

Runs(s) == [i \in DOMAIN s |-> IF s[i] = Padding THEN <<>> ELSE <<s[i]>>]

LEMMA RunsType ==
    ASSUME NEW s \in Seq(Nat)
    PROVE  /\ Runs(s) \in Seq(Seq(Nat))
           /\ Len(Runs(s)) = Len(s)
           /\ \A i \in 1..Len(s) :
                Runs(s)[i] = IF s[i] = Padding THEN <<>> ELSE <<s[i]>>
<1>1. PICK n \in Nat : Len(s) = n /\ DOMAIN s = 1..n
  BY LenProperties
<1>2. \A i \in 1..n : (IF s[i] = Padding THEN <<>> ELSE <<s[i]>>) \in Seq(Nat)
  <2>. SUFFICES ASSUME NEW i \in 1..n
                PROVE  (IF s[i] = Padding THEN <<>> ELSE <<s[i]>>) \in Seq(Nat)
    OBVIOUS
  <2>1. s[i] \in Nat
    BY <1>1, ElementOfSeq
  <2>. QED
    BY <2>1
<1>. QED
  BY <1>1, <1>2 DEF Runs

LEMMA DataType ==
    ASSUME NEW s \in Seq(Nat)
    PROVE  Data(s) \in Seq(Nat)
  BY RunsType, FlattenType DEF Data, Runs

LEMMA DataEmpty == Data(<<>>) = <<>>
  BY FlattenEmpty DEF Data

LEMMA DataAppend ==
    ASSUME NEW s \in Seq(Nat), NEW b \in Nat
    PROVE  Data(Append(s, b)) = IF b = Padding THEN Data(s) ELSE Append(Data(s), b)
<1>. DEFINE r == Append(s, b)
            run == IF b = Padding THEN <<>> ELSE <<b>>
            l == Runs(r)
            a == Append(Runs(s), run)
<1>1. PICK n \in Nat : Len(s) = n
  BY LenProperties
<1>2. /\ r \in Seq(Nat) /\ Len(r) = n + 1 /\ r[n + 1] = b
      /\ \A i \in 1..n : r[i] = s[i]
  BY <1>1, AppendProperties
<1>. HIDE DEF r
<1>3. /\ Runs(s) \in Seq(Seq(Nat)) /\ Len(Runs(s)) = n
      /\ \A i \in 1..n : Runs(s)[i] = IF s[i] = Padding THEN <<>> ELSE <<s[i]>>
  BY <1>1, RunsType
<1>4. /\ l \in Seq(Seq(Nat)) /\ Len(l) = n + 1
      /\ \A i \in 1..(n + 1) : l[i] = IF r[i] = Padding THEN <<>> ELSE <<r[i]>>
  BY <1>2, RunsType
<1>5. run \in Seq(Nat)
  OBVIOUS
<1>6. /\ a \in Seq(Seq(Nat)) /\ Len(a) = n + 1 /\ a[n + 1] = run
      /\ \A i \in 1..n : a[i] = Runs(s)[i]
  BY <1>3, <1>5, AppendProperties
<1>. HIDE DEF l, a
<1>7. \A i \in 1..(n + 1) : l[i] = a[i]
  <2>1. l[n + 1] = a[n + 1]
    <3>1. n + 1 \in 1..(n + 1)
      OBVIOUS
    <3>2. l[n + 1] = IF r[n + 1] = Padding THEN <<>> ELSE <<r[n + 1]>>
      BY <1>4, <3>1, Zenon
    <3>. QED
      BY <1>2, <1>6, <3>2, Zenon
  <2>2. ASSUME NEW i \in 1..n
        PROVE  l[i] = a[i]
    <3>1. i \in 1..(n + 1)
      OBVIOUS
    <3>2. l[i] = (IF r[i] = Padding THEN <<>> ELSE <<r[i]>>) /\ r[i] = s[i]
      BY <1>2, <1>4, <3>1, Zenon
    <3>3. a[i] = IF s[i] = Padding THEN <<>> ELSE <<s[i]>>
      BY <1>3, <1>6, Zenon
    <3>. QED
      BY <3>2, <3>3, Zenon
  <2>3. \A i \in 1..(n + 1) : i \in 1..n \/ i = n + 1
    OBVIOUS
  <2>. QED
    BY <2>1, <2>2, <2>3
<1>8. l = a
  BY <1>4, <1>6, <1>7, SeqEqual
<1>9. FlattenSeq(a) = FlattenSeq(Runs(s)) \o run
  BY <1>3, <1>5, FlattenAppend DEF a
<1>10. Data(r) = Data(s) \o run
  BY <1>8, <1>9 DEF Data, Runs, l
<1>11. Data(s) \in Seq(Nat)
  BY DataType
<1>12. Data(s) \o <<>> = Data(s) /\ Data(s) \o <<b>> = Append(Data(s), b)
  BY <1>11, ConcatEmptySeq, AppendIsConcat
<1>. QED
  BY <1>10, <1>12 DEF r

\* The data of two sequences, one after the other.
LEMMA DataConcat ==
    \A s \in Seq(Nat) : \A t \in Seq(Nat) : Data(s \o t) = Data(s) \o Data(t)
<1>. SUFFICES ASSUME NEW s \in Seq(Nat)
              PROVE  \A t \in Seq(Nat) : Data(s \o t) = Data(s) \o Data(t)
  OBVIOUS
<1>. DEFINE S == {n \in Nat : \A t \in Seq(Nat) :
                    Len(t) = n => Data(s \o t) = Data(s) \o Data(t)}
<1>1. 0 \in S
  <2>1. \A t \in Seq(Nat) : Len(t) = 0 => t = <<>>
    BY EmptySeq
  <2>2. s \o <<>> = s /\ Data(s) \o <<>> = Data(s)
    BY DataType, ConcatEmptySeq
  <2>. QED
    BY <2>1, <2>2, DataEmpty
<1>2. ASSUME NEW n \in Nat, n \in S
      PROVE  n + 1 \in S
  <2>. SUFFICES ASSUME NEW t \in Seq(Nat), Len(t) = n + 1
                PROVE  Data(s \o t) = Data(s) \o Data(t)
    OBVIOUS
  <2>1. PICK f \in Seq(Nat), b \in Nat : t = Append(f, b)
    <3>1. t # <<>>
      OBVIOUS
    <3>. QED
      BY <3>1, SequenceEmptyOrAppend
  <2>2. Len(f) = n
    BY <2>1, AppendProperties, LenProperties
  <2>3. Data(s \o f) = Data(s) \o Data(f)
    BY <1>2, <2>2
  <2>4. s \o t = Append(s \o f, b) /\ s \o f \in Seq(Nat)
    BY <2>1, ConcatAppend, ConcatProperties
  <2>5. Data(s) \in Seq(Nat) /\ Data(f) \in Seq(Nat)
    BY DataType
  <2>. HIDE DEF S
  <2>6. CASE b = Padding
    BY <2>1, <2>3, <2>4, <2>6, DataAppend
  <2>7. CASE b # Padding
    <3>1. Data(t) = Append(Data(f), b) /\ Data(s \o t) = Append(Data(s \o f), b)
      BY <2>1, <2>4, <2>7, DataAppend
    <3>2. Data(s) \o Append(Data(f), b) = Append(Data(s) \o Data(f), b)
      BY <2>5, ConcatAppend
    <3>. QED
      BY <2>3, <3>1, <3>2
  <2>. QED
    BY <2>6, <2>7
<1>3. Nat \subseteq S
  <2>. HIDE DEF S
  <2>. QED
    BY <1>1, <1>2, SetInduction
<1>. QED
  BY <1>3, LenProperties

\* Bytes of which none is padding are all data; padding holds none.
LEMMA DataOfGiven ==
    \A t \in Seq(Nat) : (\A i \in 1..Len(t) : t[i] # Padding) => Data(t) = t
<1>. DEFINE S == {n \in Nat : \A t \in Seq(Nat) :
                    Len(t) = n /\ (\A i \in 1..n : t[i] # Padding) => Data(t) = t}
<1>1. 0 \in S
  <2>1. \A t \in Seq(Nat) : Len(t) = 0 => t = <<>>
    BY EmptySeq
  <2>. QED
    BY <2>1, DataEmpty
<1>2. ASSUME NEW n \in Nat, n \in S
      PROVE  n + 1 \in S
  <2>. SUFFICES ASSUME NEW t \in Seq(Nat), Len(t) = n + 1,
                       \A i \in 1..(n + 1) : t[i] # Padding
                PROVE  Data(t) = t
    OBVIOUS
  <2>1. PICK f \in Seq(Nat), b \in Nat : t = Append(f, b)
    <3>1. t # <<>>
      OBVIOUS
    <3>. QED
      BY <3>1, SequenceEmptyOrAppend
  <2>2. /\ Len(f) = n /\ t[n + 1] = b
        /\ \A i \in 1..n : t[i] = f[i]
    BY <2>1, AppendProperties, LenProperties
  <2>3. b # Padding /\ \A i \in 1..n : f[i] # Padding
    <3>1. n + 1 \in 1..(n + 1) /\ \A i \in 1..n : i \in 1..(n + 1)
      OBVIOUS
    <3>. QED
      BY <2>2, <3>1, Zenon
  <2>4. Data(f) = f
    BY <1>2, <2>2, <2>3
  <2>. QED
    BY <2>1, <2>3, <2>4, DataAppend
<1>3. Nat \subseteq S
  <2>. HIDE DEF S
  <2>. QED
    BY <1>1, <1>2, SetInduction
<1>. QED
  BY <1>3, LenProperties

LEMMA DataOfPadding ==
    \A t \in Seq(Nat) : (\A i \in 1..Len(t) : t[i] = Padding) => Data(t) = <<>>
<1>. DEFINE S == {n \in Nat : \A t \in Seq(Nat) :
                    Len(t) = n /\ (\A i \in 1..n : t[i] = Padding) => Data(t) = <<>>}
<1>1. 0 \in S
  <2>1. \A t \in Seq(Nat) : Len(t) = 0 => t = <<>>
    BY EmptySeq
  <2>. QED
    BY <2>1, DataEmpty
<1>2. ASSUME NEW n \in Nat, n \in S
      PROVE  n + 1 \in S
  <2>. SUFFICES ASSUME NEW t \in Seq(Nat), Len(t) = n + 1,
                       \A i \in 1..(n + 1) : t[i] = Padding
                PROVE  Data(t) = <<>>
    OBVIOUS
  <2>1. PICK f \in Seq(Nat), b \in Nat : t = Append(f, b)
    <3>1. t # <<>>
      OBVIOUS
    <3>. QED
      BY <3>1, SequenceEmptyOrAppend
  <2>2. /\ Len(f) = n /\ t[n + 1] = b
        /\ \A i \in 1..n : t[i] = f[i]
    BY <2>1, AppendProperties, LenProperties
  <2>3. b = Padding /\ \A i \in 1..n : f[i] = Padding
    <3>1. n + 1 \in 1..(n + 1) /\ \A i \in 1..n : i \in 1..(n + 1)
      OBVIOUS
    <3>. QED
      BY <2>2, <3>1, Zenon
  <2>4. Data(f) = <<>>
    BY <1>2, <2>2, <2>3
  <2>. QED
    BY <2>1, <2>3, <2>4, DataAppend
<1>3. Nat \subseteq S
  <2>. HIDE DEF S
  <2>. QED
    BY <1>1, <1>2, SetInduction
<1>. QED
  BY <1>3, LenProperties

(***************************************************************************)
(* NothingLost.  Between the step that hashes a chunk and the one that     *)
(* takes it from the buffer, its bytes are in both; whoever is there holds *)
(* the mutex.  Unstored is the buffer without them.                        *)
(***************************************************************************)
InPhase(place) == \E g \in Goroutines : pc[g] = place

Unstored == IF InPhase("cut") THEN SubSeq(buf, ChunkSize + 1, Len(buf))
            ELSE IF InPhase("empty") THEN <<>> ELSE buf

KeptInv == /\ Data(hashed \o Unstored) = accepted
           /\ \A g \in Goroutines : \A i \in 1..Len(given[g]) : given[g][i] # Padding

\* The holder of the mutex says what is unstored.
LEMMA HolderUnstored ==
    ASSUME TypeOK, MutualExclusion, NEW g \in Goroutines, pc[g] \in Holding
    PROVE  /\ \A h \in Goroutines \ {g} : pc[h] \notin {"cut", "empty"}
           /\ Unstored = CASE pc[g] = "cut" -> SubSeq(buf, ChunkSize + 1, Len(buf))
                           [] pc[g] = "empty" -> <<>>
                           [] OTHER -> buf
<1>1. \A h \in Goroutines \ {g} : pc[h] \notin {"cut", "empty"}
  BY DEF MutualExclusion, Holding
<1>2. (InPhase("cut") <=> pc[g] = "cut") /\ (InPhase("empty") <=> pc[g] = "empty")
  BY <1>1 DEF InPhase
<1>. QED
  BY <1>1, <1>2 DEF Unstored

\* Only who has hashed a chunk goes on to take it from the buffer.
LEMMA UnheldPlace ==
    ASSUME TypeOK, PlaceInv, NEW g \in Goroutines, Does(g), pc[g] \notin Holding
    PROVE  pc'[g] \notin {"cut", "empty"}
<1>. USE DEF Holding, StorePlaces, Goto
<1>1. PlaceOK(g) /\ pc \in [Goroutines -> Waiting \cup Holding]
  BY DEF PlaceInv, TypeOK
<1>2. part[g] \in {"flush"} \cup Sections /\ part[g] # "done" /\ NextSection(g) =>
        pc'[g] \notin {"cut", "empty"}
  <2>1. \A to \in {"mark", "gather", "piece"} :
          pc' = [pc EXCEPT ![g] = to] => pc'[g] \notin {"cut", "empty"}
    BY <1>1
  <2>. QED
    BY <2>1, NextSectionIs
<1>3. CASE Call(g)
  BY <1>1, <1>3 DEF Call, CallWrite, CallClose
<1>4. CASE Lock(g)
  <2>1. PICK to \in {"append", "pad"} : Goto(g, to)
    BY <1>4, Zenon DEF Lock
  <2>. QED
    BY <1>1, <2>1
<1>5. ~WriteDataStep(g)
  BY DEF WriteDataStep, Locate, StoreChunk, AlignChunk, StoreFails, EnterChunk, HashChunk
<1>6. CASE BufferStep(g)
  <2>1. CASE CloseFindsBytes(g)
    BY <1>1, <2>1 DEF CloseFindsBytes
  <2>2. CASE CloseFindsNone(g)
    BY <1>1, <1>2, <2>2 DEF CloseFindsNone, PlaceOK, PlaceFits
  <2>. QED
    BY <1>6, <2>1, <2>2 DEF BufferStep, AppendGiven, CutChunk, WriteReturns, ClosePad, CloseEmpty
<1>7. CASE InPlaceStep(g)
  <2>1. CASE SeekBack(g)
    BY <1>1, <1>2, <2>1 DEF SeekBack, PlaceOK, PlaceFits, EncoderPlaces, InPlacePlaces,
                            Rewriting, InPlace
  <2>2. CASE GiveUp(g)
    BY <1>1, <2>2 DEF GiveUp, Return
  <2>3. CASE Mark(g) \/ SeekSection(g) \/ Rewrite(g) \/ RewriteFails(g)
    BY <1>1, <2>3 DEF Mark, SeekSection, Rewrite, RewriteFails
  <2>. QED
    BY <1>7, <2>1, <2>2, <2>3 DEF InPlaceStep
<1>8. CASE SectionStep(g)
  <2>1. CASE Gather(g) \/ WritePiece(g)
    BY <1>1, <2>1 DEF Gather, WritePiece
  <2>2. CASE EndSection(g) \/ HashFailsUnreported(g)
    BY <1>1, <1>2, <2>2 DEF EndSection, HashFailsUnreported, Unreported, PlaceOK, PlaceFits,
                            EncoderPlaces
  <2>3. CASE CloseReturns(g) \/ PieceFails(g)
    BY <1>1, <2>3 DEF CloseReturns, PieceFails, Return
  <2>. QED
    BY <1>8, <2>1, <2>2, <2>3 DEF SectionStep
<1>. QED
  BY <1>3, <1>4, <1>5, <1>6, <1>7, <1>8 DEF Does, Step

LEMMA KeptStep ==
    TypeOK /\ PlaceInv /\ MutualExclusion /\ KeptInv /\ [Next]_vars => KeptInv'
<1>. SUFFICES ASSUME TypeOK, PlaceInv, MutualExclusion, KeptInv, [Next]_vars
              PROVE  KeptInv'
  OBVIOUS
<1>1. CASE UNCHANGED vars
  BY <1>1 DEF vars, callVars, KeptInv, Unstored, InPhase
<1>2. ASSUME NEW g \in Goroutines, Does(g)
      PROVE  KeptInv'
  <2>1. /\ pc \in [Goroutines -> Waiting \cup Holding]
        /\ given \in [Goroutines -> Seq(Nat)]
        /\ buf \in Seq(Nat) /\ accepted \in Seq(Nat) /\ hashed \in Seq(Nat)
        /\ ChunkSize \in Nat \ {0} /\ Len(buf) \in Nat /\ made \in Nat
    BY LockingAssumption, LenProperties DEF TypeOK
  <2>2. PlaceOK(g) /\ Data(hashed \o Unstored) = accepted
    BY DEF KeptInv, PlaceInv
  <2>3. \A h \in Goroutines : \A i \in 1..Len(given[h]) : given[h][i] # Padding
    BY DEF KeptInv
  <2>4. \A h \in Goroutines \ {g} : pc'[h] = pc[h]
    BY <1>2, OthersStay
  \* The steps that move no byte.
  <2>5. ASSUME pc[g] \notin {"cut", "empty"}, pc'[g] \notin {"cut", "empty"},
               UNCHANGED <<buf, hashed, accepted>>,
               \A h \in Goroutines : \A i \in 1..Len(given'[h]) : given'[h][i] # Padding
        PROVE  KeptInv'
    <3>1. \A place \in {"cut", "empty"} : InPhase(place)' <=> InPhase(place)
      BY <2>4, <2>5 DEF InPhase
    <3>2. Unstored' = Unstored
      BY <2>5, <3>1 DEF Unstored
    <3>. QED
      BY <2>2, <2>5, <3>2 DEF KeptInv
  \* The steps that do: what is unstored after them.
  <2>6. ASSUME pc[g] \in Holding
        PROVE  /\ pc'[g] = "cut" => Unstored' = SubSeq(buf', ChunkSize + 1, Len(buf'))
               /\ pc'[g] = "empty" => Unstored' = <<>>
               /\ pc'[g] \notin {"cut", "empty"} => Unstored' = buf'
    <3>1. \A h \in Goroutines \ {g} : pc'[h] \notin {"cut", "empty"}
      BY <2>4, <2>6, HolderUnstored
    <3>2. (InPhase("cut")' <=> pc'[g] = "cut") /\ (InPhase("empty")' <=> pc'[g] = "empty")
      BY <3>1 DEF InPhase
    <3>. QED
      BY <3>2 DEF Unstored
  <2>7. CASE pc[g] \notin Holding
    <3>1. UNCHANGED <<buf, hashed, accepted>> /\ pc'[g] \notin {"cut", "empty"}
      BY <1>2, <2>7, UnheldStep, UnheldPlace
    <3>2. \A h \in Goroutines : \A i \in 1..Len(given'[h]) : given'[h][i] # Padding
      <4>1. CASE CallWrite(g)
        <5>1. PICK n \in Lengths : given' = [given EXCEPT ![g] = [i \in 1..n |-> made + i]]
          BY <4>1 DEF CallWrite
        <5>. DEFINE p == [i \in 1..n |-> made + i]
        <5>2. n \in Nat
          BY LockingAssumption
        <5>3. Len(p) = n /\ \A i \in 1..n : p[i] = made + i
          BY <5>2
        <5>4. \A i \in 1..n : p[i] # Padding
          BY <2>1, <5>2, <5>3 DEF Padding
        <5>5. given' = [given EXCEPT ![g] = p]
          BY <5>1
        <5>. HIDE DEF p
        <5>. QED
          BY <2>1, <2>3, <5>3, <5>4, <5>5
      <4>2. CASE ~CallWrite(g)
        <5>1. given' = given
          BY <1>2, <2>7, <4>2
          DEF Does, Step, Call, CallClose, Lock, WriteDataStep, Locate, StoreChunk, AlignChunk,
              StoreFails, EnterChunk, HashChunk, BufferStep, AppendGiven, CutChunk,
              WriteReturns, CloseFindsBytes, CloseFindsNone, ClosePad, CloseEmpty,
              InPlaceStep, Mark, SeekSection, Rewrite, RewriteFails, SeekBack, GiveUp,
              SectionStep, Gather, WritePiece, EndSection, CloseReturns, PieceFails,
              HashFailsUnreported, callVars, Holding
        <5>. QED
          BY <2>3, <5>1
      <4>. QED
        BY <4>1, <4>2
    <3>. QED
      BY <2>5, <2>7, <3>1, <3>2 DEF Holding
  <2>8. CASE pc[g] \in Holding
    <3>. USE DEF Goto
    <3>1. ~Call(g) /\ ~Lock(g)
      BY <2>8 DEF Call, CallWrite, CallClose, Begin, Lock, Holding, StorePlaces
    <3>2. ~InPlaceStep(g) /\ ~SectionStep(g)
      BY <2>8 DEF InPlaceStep, Mark, SeekSection, Rewrite, RewriteFails, SeekBack, GiveUp,
                  SectionStep, Gather, WritePiece, EndSection, CloseReturns, PieceFails,
                  HashFailsUnreported, Holding, StorePlaces
    <3>3. CASE Locate(g) \/ StoreFails(g) \/ AlignChunk(g) \/ EnterChunk(g) \/ WriteReturns(g)
      <4>1. PICK to \in {"store", "idle", "enter", "hash"} : pc' = [pc EXCEPT ![g] = to]
        BY <3>3, Zenon DEF Locate, StoreFails, AlignChunk, EnterChunk, WriteReturns, Return
      <4>. QED
        BY <2>1, <2>3, <2>5, <3>3, <4>1
        DEF Locate, StoreFails, AlignChunk, EnterChunk, WriteReturns, callVars
    <3>4. CASE StoreChunk(g)
      <4>1. PICK to \in {"enter", "align"} : pc' = [pc EXCEPT ![g] = to]
        BY <3>4, Zenon DEF StoreChunk
      <4>. QED
        BY <2>1, <2>3, <2>5, <3>4, <4>1 DEF StoreChunk, callVars
    <3>5. CASE HashChunk(g)
      <4>1. /\ pc[g] = "hash" /\ hashed' = hashed \o Chunk(g)
            /\ UNCHANGED <<buf, accepted, given>> /\ part[g] \in {"write", "flush"}
        BY <2>2, <3>5 DEF HashChunk, callVars, PlaceOK, PlaceFits, StorePlaces
      <4>2. Unstored = buf
        BY <2>8, <4>1, HolderUnstored
      <4>3. Chunk(g) \o Unstored' = buf
        <5>1. CASE part[g] = "write"
          <6>1. pc' = [pc EXCEPT ![g] = "cut"]
            BY <3>5, <5>1, Zenon DEF HashChunk
          <6>2. Unstored' = SubSeq(buf, ChunkSize + 1, Len(buf))
            BY <2>1, <2>6, <2>8, <4>1, <6>1
          <6>3. ChunkSize \in 0..Len(buf)
            BY <2>1, <4>1, <5>1 DEF TypeOK, StorePlaces
          <6>. QED
            BY <2>1, <5>1, <6>2, <6>3, CutInTwo DEF Chunk
        <5>2. CASE part[g] # "write"
          <6>1. pc' = [pc EXCEPT ![g] = "empty"]
            BY <3>5, <5>2, Zenon DEF HashChunk
          <6>2. Unstored' = <<>>
            BY <2>1, <2>6, <2>8, <6>1
          <6>. QED
            BY <2>1, <5>2, <6>2, ConcatEmptySeq DEF Chunk
        <5>. QED
          BY <5>1, <5>2
      <4>4. Chunk(g) \in Seq(Nat) /\ Unstored' \in Seq(Nat)
        <5>1. Chunk(g) \in Seq(Nat)
          BY <4>1, ChunkType DEF StorePlaces
        <5>2. Unstored' = SubSeq(buf, ChunkSize + 1, Len(buf)) \/ Unstored' = <<>>
              \/ Unstored' = buf
          BY <2>6, <2>8, <4>1
        <5>3. SubSeq(buf, ChunkSize + 1, Len(buf)) \in Seq(Nat) /\ <<>> \in Seq(Nat)
          BY <2>1
        <5>. QED
          BY <2>1, <5>1, <5>2, <5>3
      <4>5. (hashed \o Chunk(g)) \o Unstored' = hashed \o buf
        BY <2>1, <4>3, <4>4, Associative, Zenon
      <4>. QED
        BY <2>2, <2>3, <4>1, <4>2, <4>5 DEF KeptInv
    <3>6. CASE AppendGiven(g)
      <4>1. /\ pc[g] = "append" /\ pc' = [pc EXCEPT ![g] = "loop"]
            /\ buf' = buf \o given[g] /\ accepted' = accepted \o given[g]
            /\ given' = [given EXCEPT ![g] = <<>>] /\ UNCHANGED hashed
        BY <3>6 DEF AppendGiven
      <4>2. Unstored = buf /\ Unstored' = buf'
        BY <2>1, <2>6, <2>8, <4>1, HolderUnstored
      <4>3. given[g] \in Seq(Nat) /\ Data(given[g]) = given[g]
        BY <2>1, <2>3, DataOfGiven
      <4>4. hashed \o (buf \o given[g]) = (hashed \o buf) \o given[g]
        BY <2>1, <4>3, Associative, Zenon
      <4>5. hashed \o buf \in Seq(Nat)
        BY <2>1, ConcatProperties
      <4>6. Data((hashed \o buf) \o given[g]) = Data(hashed \o buf) \o given[g]
        BY <4>3, <4>5, DataConcat
      <4>7. Data(hashed' \o Unstored') = accepted'
        BY <2>2, <4>1, <4>2, <4>4, <4>6
      <4>8. \A h \in Goroutines : \A i \in 1..Len(given'[h]) : given'[h][i] # Padding
        BY <2>1, <2>3, <4>1
      <4>. QED
        BY <4>7, <4>8 DEF KeptInv
    <3>7. CASE CutChunk(g)
      <4>1. /\ pc[g] = "cut" /\ pc' = [pc EXCEPT ![g] = "loop"]
            /\ buf' = SubSeq(buf, ChunkSize + 1, Len(buf))
            /\ UNCHANGED <<hashed, accepted, given>>
        BY <3>7 DEF CutChunk, callVars
      <4>2. Unstored = buf' /\ Unstored' = buf'
        BY <2>1, <2>6, <2>8, <4>1, HolderUnstored
      <4>. QED
        BY <2>2, <2>3, <4>1, <4>2 DEF KeptInv
    <3>8. CASE ClosePad(g)
      <4>1. /\ pc[g] = "pad" /\ pc' = [pc EXCEPT ![g] = "flush"]
            /\ buf' = Pad(buf) /\ UNCHANGED <<hashed, accepted, given>>
        BY <3>8 DEF ClosePad, callVars
      <4>2. Unstored = buf /\ Unstored' = buf'
        BY <2>1, <2>6, <2>8, <4>1, HolderUnstored
      <4>3. Data(hashed \o Pad(buf)) = Data(hashed \o buf)
        <5>1. CASE Len(buf) >= ChunkSize
          BY <5>1 DEF Pad
        <5>2. CASE ~(Len(buf) >= ChunkSize)
          <6>1. PICK m \in Nat : m = ChunkSize - Len(buf)
            <7>1. ChunkSize - Len(buf) \in Nat
              BY <2>1, <5>2
            <7>. QED
              BY <7>1
          <6>. DEFINE p == [i \in 1..m |-> Padding]
          <6>2. Padding \in Nat
            BY DEF Padding
          <6>3. p \in Seq(Nat) /\ Len(p) = m /\ \A i \in 1..m : p[i] = Padding
            BY <6>2
          <6>4. Pad(buf) = buf \o p
            BY <5>2, <6>1 DEF Pad
          <6>. HIDE DEF p
          <6>5. Data(p) = <<>>
            BY <6>3, DataOfPadding
          <6>6. hashed \o buf \in Seq(Nat) /\ hashed \o (buf \o p) = (hashed \o buf) \o p
            BY <2>1, <6>3, ConcatProperties, Associative, Zenon
          <6>7. Data((hashed \o buf) \o p) = Data(hashed \o buf) \o <<>>
            BY <6>3, <6>5, <6>6, DataConcat
          <6>8. Data(hashed \o buf) \o <<>> = Data(hashed \o buf)
            BY <6>6, DataType, ConcatEmptySeq
          <6>. QED
            BY <6>4, <6>6, <6>7, <6>8
        <5>. QED
          BY <5>1, <5>2
      <4>. QED
        BY <2>2, <2>3, <4>1, <4>2, <4>3 DEF KeptInv
    <3>9. CASE CloseEmpty(g)
      <4>1. /\ pc[g] = "empty" /\ buf' = <<>> /\ UNCHANGED <<hashed, accepted, given>>
            /\ part[g] = "flush"
        BY <2>2, <3>9 DEF CloseEmpty, callVars, PlaceOK, PlaceFits
      <4>2. Unstored = <<>>
        BY <2>8, <4>1, HolderUnstored
      <4>3. \E to \in {"mark", "gather", "piece"} : pc' = [pc EXCEPT ![g] = to]
        BY <3>9, <4>1, NextSectionIs DEF CloseEmpty
      <4>4. Unstored' = <<>>
        BY <2>1, <2>6, <2>8, <4>1, <4>3
      <4>. QED
        BY <2>2, <2>3, <4>1, <4>2, <4>4 DEF KeptInv
    <3>10. ~CloseFindsBytes(g) /\ ~CloseFindsNone(g)
      BY <2>8 DEF CloseFindsBytes, CloseFindsNone, Holding, StorePlaces
    <3>. QED
      BY <1>2, <3>1, <3>2, <3>3, <3>4, <3>5, <3>6, <3>7, <3>8, <3>9, <3>10
      DEF Does, Step, WriteDataStep, BufferStep
  <2>. QED
    BY <2>7, <2>8
<1>. QED
  BY <1>1, <1>2 DEF Next, Does

LEMMA KeptInit == Init => KeptInv
<1>. SUFFICES ASSUME Init
              PROVE  KeptInv
  OBVIOUS
<1>1. hashed = <<>> /\ buf = <<>> /\ accepted = <<>> /\ Unstored = <<>>
      /\ given = [g \in Goroutines |-> <<>>]
  BY DEF Init, Unstored, InPhase
<1>2. <<>> \o <<>> = <<>>
  BY EmptySeq, ConcatEmptySeq
<1>. QED
  BY <1>1, <1>2, DataEmpty DEF KeptInv

LEMMA KeptNow == TypeOK /\ MutualExclusion /\ KeptInv => NothingLost
<1>. SUFFICES ASSUME MutualExclusion, KeptInv, mu = Nobody
              PROVE  Data(hashed \o buf) = accepted
  BY DEF NothingLost
<1>1. Unstored = buf
  BY LockingAssumption DEF MutualExclusion, Holding, Unstored, InPhase
<1>. QED
  BY <1>1 DEF KeptInv

\* Whenever the mutex is free, what the hashers have seen and the buffer hold,
\* apart from padding, exactly the bytes given to the Writes that have appended
\* theirs, in the order they did, whatever calls interleaved and failed before,
\* even if they met at the file.
THEOREM NothingIsLost == Spec => []NothingLost
  BY KeptInit, KeptNow, KeptStep, Basics, PTL DEF Spec

(***************************************************************************)
(* The file.  Its extents have a place of their own, whatever happens to   *)
(* its offset.                                                             *)
(***************************************************************************)
SolidInv == Solid(disk) /\ BytesInChunks(disk)

LEMMA PutInv ==
    ASSUME NEW d, Solid(d), BytesInChunks(d), NEW p \in Nat, NEW n \in Nat, NEW o,
           o.kind = "chunk" => o.data \in Seq(Nat)
    PROVE  Solid(Put(d, p, n, o)) /\ BytesInChunks(Put(d, p, n, o))
<1>1. \A e \in Put(d, p, n, o) : e \in d \/ e.obj = o
  BY DEF Put
<1>. QED
  BY <1>1, PutSolid DEF BytesInChunks, ChunkExtents

LEMMA WrittenSolid ==
    ASSUME TypeOK, SolidInv, NEW g, NEW n \in Nat, NEW o, Written(g, n, o),
           o.kind = "chunk" => o.data \in Seq(Nat)
    PROVE  SolidInv'
<1>1. disk' = Put(disk, offset, n, o) /\ offset \in Nat
  BY DEF Written, TypeOK
<1>. QED
  BY <1>1, PutInv DEF SolidInv

LEMMA InPartSolid ==
    ASSUME TypeOK, SolidInv, NEW g, WrittenInPart(g)
    PROVE  SolidInv'
<1>1. PICK k \in TornLens : disk' = Tear(disk, offset, k)
  BY DEF WrittenInPart
<1>2. offset \in Nat /\ k \in Nat /\ Torn.kind # "chunk"
  BY LockingAssumption DEF TypeOK, Torn
<1>. QED
  BY <1>1, <1>2, PutInv DEF SolidInv, Tear

LEMMA SolidStep == TypeOK /\ PlaceInv /\ SolidInv /\ [Next]_vars => SolidInv'
<1>. SUFFICES ASSUME TypeOK, PlaceInv, SolidInv, [Next]_vars
              PROVE  SolidInv'
  OBVIOUS
<1>1. CASE disk' = disk
  BY <1>1 DEF SolidInv
<1>2. ASSUME NEW g \in Goroutines, Does(g), disk' # disk
      PROVE  SolidInv'
  <2>1. /\ CompressedLens \subseteq Nat /\ AlignLens \subseteq Nat /\ SectionLen \in Nat
    BY LockingAssumption
  <2>2. CASE StoreChunk(g)
    <3>1. Chunk(g) \in Seq(Nat)
      BY <2>2, ChunkType DEF StoreChunk, StorePlaces
    <3>. QED
      BY <2>1, <2>2, <3>1, WrittenSolid DEF StoreChunk
  <2>3. CASE AlignChunk(g)
    BY <2>1, <2>3, WrittenSolid DEF AlignChunk
  <2>4. CASE StoreFails(g) \/ RewriteFails(g) \/ PieceFails(g) \/ HashFailsUnreported(g)
    BY <2>4, InPartSolid DEF StoreFails, RewriteFails, PieceFails, HashFailsUnreported
  <2>5. CASE Rewrite(g) \/ WritePiece(g) \/ EndSection(g)
    <3>1. part[g] # "chunk"
      BY DEF TypeOK, Parts, HashSections
    <3>2. Written(g, SectionLen, [kind |-> part[g]])
      BY <2>5 DEF Rewrite, WritePiece, EndSection
    <3>. QED
      BY <2>1, <3>1, <3>2, WrittenSolid
  <2>6. CASE CloseReturns(g)
    BY <2>1, <2>6, WrittenSolid DEF CloseReturns
  <2>7. ~Call(g) /\ ~Lock(g)
    BY <1>2 DEF Call, CallWrite, CallClose, Begin, Lock, fileVars
  <2>8. ~BufferStep(g)
    BY <1>2 DEF BufferStep, AppendGiven, CutChunk, WriteReturns, CloseFindsBytes,
                CloseFindsNone, ClosePad, CloseEmpty, fileVars
  <2>9. ~(Locate(g) \/ EnterChunk(g) \/ HashChunk(g) \/ Mark(g) \/ SeekSection(g)
          \/ SeekBack(g) \/ GiveUp(g) \/ Gather(g))
    BY <1>2 DEF Locate, EnterChunk, HashChunk, Mark, SeekSection, SeekBack, GiveUp, Gather,
                fileVars
  <2>. QED
    BY <1>2, <2>2, <2>3, <2>4, <2>5, <2>6, <2>7, <2>8, <2>9
    DEF Does, Step, WriteDataStep, InPlaceStep, SectionStep
<1>3. UNCHANGED vars => disk' = disk
  BY DEF vars, fileVars
<1>. QED
  BY <1>1, <1>2, <1>3 DEF Next, Does

(***************************************************************************)
(* As long as no two goroutines have been at the file at once: the chunks  *)
(* are behind the sections Start has written and before the place where    *)
(* the next is appended, to which the offset of the file returns, and the  *)
(* entries lead to what is hashed, up to the chunk that is being stored.   *)
(***************************************************************************)
Behind(d, p) ==
    /\ Home <= p
    /\ \A e \in ChunkExtents(d) : Home <= e.at /\ e.at + e.len <= p

Leads(d, offsets, bytes) == Indexed(d, offsets, Len(offsets), bytes)

AfterTable == {"table2", "data", "done"} \cup HashSections
AfterSum == {"hash", "sha1", "data", "done"}

\* What a Close has copied is what there still is.
Gathered(place, work, copy) ==
    /\ work \in AfterTable \/ (work = "table" /\ place = "piece") => copy.offsets = entries
    /\ work \in AfterSum \/ (work \in {"digest", "md5"} /\ place = "piece") => copy.sum = hashed

AtRest == Behind(disk, offset) /\ Leads(disk, entries, hashed)

AtWork(g) ==
    /\ pc[g] = "store" => at[g] = offset
    /\ pc[g] \in {"align", "enter", "hash"} =>
         Holds(disk, at[g], "chunk") /\ ObjAt(disk, at[g]).data = Chunk(g)
    /\ pc[g] = "hash" => Leads(disk, entries, hashed \o Chunk(g))
    /\ pc[g] # "hash" => Leads(disk, entries, hashed)
    /\ pc[g] \in {"seek"} \cup Rewriting => Behind(disk, at[g])
    /\ pc[g] \notin Rewriting => Behind(disk, offset)
    /\ pc[g] = "rewrite" => offset = PlaceOf(part[g])
    /\ Gathered(pc[g], part[g], draft[g])

FileInv == ~met =>
    /\ format = "evf2" => position = offset
    /\ Leads(disk, image.draft.offsets, image.draft.sum)
    /\ \A g, h \in Goroutines : pc[g] \in FilePlaces /\ pc[h] \in FilePlaces => g = h
    /\ \A g \in Goroutines : pc[g] \in FilePlaces => AtWork(g)
    /\ (\A g \in Goroutines : pc[g] \notin FilePlaces) => AtRest

\* A write behind all chunks keeps them.
LEMMA PutBehind ==
    ASSUME NEW d, Solid(d), NEW p \in Nat, NEW n \in Nat, NEW o, Behind(d, p)
    PROVE  ChunkExtents(d) \subseteq ChunkExtents(Put(d, p, n, o)) /\ Behind(Put(d, p, n, o), p + n)
<1>1. Home \in Nat
  BY LockingAssumption DEF Home
<1>2. \A e \in ChunkExtents(d) : e \in d /\ e.at \in Nat /\ e.len \in Nat
                                /\ Home <= e.at /\ e.at + e.len <= p
  BY DEF ChunkExtents, Solid, Behind
<1>3. ChunkExtents(d) \subseteq ChunkExtents(Put(d, p, n, o))
  BY <1>2 DEF ChunkExtents, Put
<1>4. \A e \in ChunkExtents(Put(d, p, n, o)) :
        e \in ChunkExtents(d) \/ e = [at |-> p, len |-> n, obj |-> o]
  BY DEF ChunkExtents, Put
<1>5. Home <= p
  BY DEF Behind
<1>6. \A e \in ChunkExtents(Put(d, p, n, o)) : Home <= e.at /\ e.at + e.len <= p + n
  BY <1>1, <1>2, <1>4, <1>5
<1>. QED
  BY <1>1, <1>3, <1>5, <1>6 DEF Behind

\* So does a write before them.
LEMMA PutBefore ==
    ASSUME NEW d, Solid(d), NEW p \in Nat, NEW n \in Nat, NEW o, NEW q,
           Behind(d, q), p + n <= Home, o.kind # "chunk"
    PROVE  ChunkExtents(d) \subseteq ChunkExtents(Put(d, p, n, o)) /\ Behind(Put(d, p, n, o), q)
<1>1. Home \in Nat
  BY LockingAssumption DEF Home
<1>2. \A e \in ChunkExtents(d) : e \in d /\ e.at \in Nat /\ Home <= e.at
  BY DEF ChunkExtents, Solid, Behind
<1>3. ChunkExtents(d) \subseteq ChunkExtents(Put(d, p, n, o))
  BY <1>1, <1>2 DEF ChunkExtents, Put
<1>4. \A e \in ChunkExtents(Put(d, p, n, o)) : e \in ChunkExtents(d)
  BY DEF ChunkExtents, Put
<1>. QED
  BY <1>3, <1>4 DEF Behind

LEMMA AfterIs ==
    ASSUME format \in {"evf1", "evf2"}, NEW s \in {"flush"} \cup Sections, s # "done"
    PROVE  /\ After(s) \in AfterTable => s \in AfterTable \cup {"table"}
           /\ After(s) \in AfterSum => s \in AfterSum \cup {"digest", "md5"}
<1>1. CASE format = "evf1"
  BY <1>1 DEF After, Sections, AfterTable, AfterSum, HashSections
<1>2. CASE format = "evf2"
  BY <1>2 DEF After, Sections, AfterTable, AfterSum, HashSections
<1>. QED
  BY <1>1, <1>2

\* A Close that goes on to its next section has the file as it was.
LEMMA NextAtWork ==
    ASSUME TypeOK, NEW g \in Goroutines, part[g] \in {"flush"} \cup Sections,
           part[g] # "done", NextSection(g), UNCHANGED <<entries, hashed>>,
           draft'[g].offsets = draft[g].offsets, draft'[g].sum = draft[g].sum,
           Gathered("piece", part[g], draft[g]),
           Behind(disk', offset'), Leads(disk', entries', hashed')
    PROVE  pc'[g] \in FilePlaces /\ AtWork(g)'
<1>1. PICK section \in Sections, place \in {"mark", "gather", "piece"} :
        /\ section = After(part[g])
        /\ part' = [part EXCEPT ![g] = section]
        /\ pc' = [pc EXCEPT ![g] = place]
        /\ place = "piece" => section \notin HashSections \cup {"table"}
  BY NextSectionIs
<1>2. pc'[g] = place /\ part'[g] = section
  BY <1>1 DEF TypeOK
<1>3. format \in {"evf1", "evf2"}
  BY LockingAssumption DEF TypeOK
<1>4. /\ section \in AfterTable => part[g] \in AfterTable \cup {"table"}
      /\ section \in AfterSum => part[g] \in AfterSum \cup {"digest", "md5"}
  BY <1>1, <1>3, AfterIs
<1>5. Gathered(pc[g], part[g], draft[g])'
  <2>1. section \in AfterTable => draft'[g].offsets = entries'
    BY <1>4 DEF Gathered
  <2>2. section \in AfterSum => draft'[g].sum = hashed'
    BY <1>4 DEF Gathered
  <2>3. ~(section = "table" /\ place = "piece")
        /\ ~(section \in {"digest", "md5"} /\ place = "piece")
    BY <1>1 DEF HashSections
  <2>. QED
    BY <1>2, <2>1, <2>2, <2>3 DEF Gathered
<1>6. place \in FilePlaces /\ place \notin {"store", "align", "enter", "hash", "seek"} \cup Rewriting
  BY DEF FilePlaces, Rewriting
<1>. QED
  BY <1>2, <1>5, <1>6 DEF AtWork

LEMMA FileStep ==
    TypeOK /\ PlaceInv /\ MutualExclusion /\ SolidInv /\ FileInv /\ [Next]_vars => FileInv'
<1>. SUFFICES ASSUME TypeOK, PlaceInv, MutualExclusion, SolidInv, FileInv, [Next]_vars
              PROVE  FileInv'
  OBVIOUS
<1>1. CASE UNCHANGED vars
  BY <1>1 DEF vars, fileVars, ownVars, callVars, FileInv, AtRest, AtWork, Gathered, Chunk
<1>2. ASSUME NEW g \in Goroutines, Does(g)
      PROVE  FileInv'
  <2>1. /\ pc \in [Goroutines -> Waiting \cup Holding] /\ part \in [Goroutines -> Parts]
        /\ pieces \in [Goroutines -> 0..3] /\ at \in [Goroutines -> Nat]
        /\ draft \in [Goroutines -> Drafts] /\ format \in {"evf1", "evf2"}
        /\ entries \in Seq(Nat) /\ hashed \in Seq(Nat) /\ buf \in Seq(Nat)
        /\ offset \in Nat /\ position \in Nat /\ met \in BOOLEAN
        /\ CompressedLens \subseteq Nat \ {0} /\ AlignLens \subseteq Nat
        /\ SectionLen \in Nat \ {0} /\ TornLens \subseteq 0..SectionLen
    BY LockingAssumption DEF TypeOK
  <2>2. PlaceOK(g) /\ Solid(disk) /\ BytesInChunks(disk)
    BY DEF PlaceInv, SolidInv
  <2>3. SolidInv'
    BY SolidStep
  <2>4. Solid(disk') /\ BytesInChunks(disk')
    BY <2>3 DEF SolidInv
  <2>5. /\ \A h \in Goroutines \ {g} :
             /\ pc'[h] = pc[h] /\ part'[h] = part[h]
             /\ at'[h] = at[h] /\ draft'[h] = draft[h]
        /\ pc[g] \notin Holding => UNCHANGED <<buf, hashed, entries, accepted>>
    BY <1>2, OthersStay, UnheldStep
  <2>6. \A to : Goto(g, to) => pc'[g] = to
    BY <2>1 DEF Goto
  <2>7. Return(g) => pc'[g] = "idle"
    BY <2>6 DEF Return
  <2>8. SUFFICES ASSUME ~met'
                 PROVE  FileInv'
    BY DEF FileInv
  \* Who is at the file, or comes there, is alone at it.
  <2>9. ASSUME ~met, \A h \in Goroutines \ {g} : pc[h] \notin FilePlaces,
               format' = format, format = "evf2" => position' = offset',
               Leads(disk', image'.draft.offsets, image'.draft.sum),
               pc'[g] \in FilePlaces => AtWork(g)',
               pc'[g] \notin FilePlaces => AtRest'
        PROVE  FileInv'
    <3>1. \A h \in Goroutines \ {g} : pc'[h] \notin FilePlaces
      BY <2>5, <2>9
    <3>2. \A h, k \in Goroutines : pc'[h] \in FilePlaces /\ pc'[k] \in FilePlaces => h = k
      BY <3>1
    <3>3. \A h \in Goroutines : pc'[h] \in FilePlaces => AtWork(h)'
      <4>1. \A h \in Goroutines : pc'[h] \in FilePlaces => h = g
        BY <3>1
      <4>. QED
        BY <2>9, <4>1
    <3>. QED
      BY <2>9, <3>2, <3>3 DEF FileInv
  \* The steps away from it.
  <2>10. ASSUME ~met, pc[g] \notin FilePlaces, pc'[g] \notin FilePlaces,
                UNCHANGED <<fileVars, format, entries, hashed, image>>
         PROVE  FileInv'
    <3>1. ASSUME NEW h \in Goroutines, pc'[h] \in FilePlaces
          PROVE  AtWork(h)'
      <4>1. h # g /\ pc[h] \in FilePlaces
        BY <2>5, <2>10, <3>1
      <4>2. AtWork(h) /\ pc'[h] = pc[h] /\ part'[h] = part[h] /\ at'[h] = at[h]
            /\ draft'[h] = draft[h]
        BY <2>5, <2>10, <4>1 DEF FileInv
      <4>3. pc[h] \in {"align", "enter", "hash"} => Chunk(h)' = Chunk(h)
        <5>1. pc[h] \in {"align", "enter", "hash"} => pc[g] \notin Holding
          BY <4>1 DEF MutualExclusion, Holding, StorePlaces
        <5>. QED
          BY <2>5, <4>2, <5>1 DEF Chunk
      <4>4. UNCHANGED <<disk, offset, entries, hashed>>
        BY <2>10 DEF fileVars
      <4>. QED
        BY <4>2, <4>3, <4>4 DEF AtWork, Gathered
    <3>2. \A h, k \in Goroutines : pc'[h] \in FilePlaces /\ pc'[k] \in FilePlaces => h = k
      <4>1. \A h \in Goroutines : pc'[h] \in FilePlaces => pc[h] \in FilePlaces
        BY <2>5, <2>10
      <4>. QED
        BY <2>10, <4>1 DEF FileInv
    <3>3. (\A h \in Goroutines : pc'[h] \notin FilePlaces) => AtRest'
      <4>1. (\A h \in Goroutines : pc'[h] \notin FilePlaces)
              => (\A h \in Goroutines : pc[h] \notin FilePlaces)
        BY <2>5, <2>10
      <4>2. UNCHANGED <<disk, offset, entries, hashed>>
        BY <2>10 DEF fileVars
      <4>. QED
        BY <2>10, <4>1, <4>2 DEF FileInv, AtRest
    <3>. QED
      BY <2>10, <3>1, <3>2, <3>3 DEF FileInv, fileVars
  \* The steps that come to it.
  <2>11. ASSUME ComesToFile(g), pc[g] \notin FilePlaces
         PROVE  /\ ~met /\ \A h \in Goroutines \ {g} : pc[h] \notin FilePlaces
                /\ AtRest /\ (format = "evf2" => position = offset)
                /\ Leads(disk, image.draft.offsets, image.draft.sum)
    <3>1. ~met /\ \A h \in Goroutines \ {g} : pc[h] \notin FilePlaces
      BY <2>8, <2>11 DEF ComesToFile, Raced
    <3>. QED
      BY <2>11, <3>1 DEF FileInv
  \* And those at it.
  <2>12. ASSUME pc[g] \in FilePlaces, met' = met
         PROVE  /\ ~met /\ \A h \in Goroutines \ {g} : pc[h] \notin FilePlaces
                /\ AtWork(g) /\ (format = "evf2" => position = offset)
                /\ Leads(disk, image.draft.offsets, image.draft.sum)
                /\ ~Raced(g)
    <3>1. \A h \in Goroutines \ {g} : pc[h] \notin FilePlaces
      BY <2>8, <2>12 DEF FileInv
    <3>. QED
      BY <2>8, <2>12, <3>1 DEF FileInv, Raced
  <2>13. ASSUME ~Raced(g), format = "evf2" => position = offset, NEW n \in Nat, Advance(g, n)
         PROVE  offset' = offset + n /\ (format = "evf2" => position' = offset')
    BY <2>1, <2>13 DEF Advance
  \* What leads to data in the file still does when the file has kept its chunks.
  <2>14. ASSUME ChunkExtents(disk) \subseteq ChunkExtents(disk'), NEW offsets, NEW bytes,
                Leads(disk, offsets, bytes)
         PROVE  Leads(disk', offsets, bytes)
    BY <2>2, <2>4, <2>14, IndexKept DEF Leads
  \* A write that fails behind the chunks.
  <2>15. ASSUME WrittenInPart(g), ~Raced(g), format = "evf2" => position = offset,
                Behind(disk, offset)
         PROVE  /\ ChunkExtents(disk) \subseteq ChunkExtents(disk') /\ Behind(disk', offset')
                /\ format = "evf2" => position' = offset'
    <3>1. PICK k \in TornLens : disk' = Put(disk, offset, k, Torn) /\ Advance(g, k)
      BY <2>15 DEF WrittenInPart, Tear
    <3>2. k \in Nat
      BY <2>1
    <3>. QED
      BY <2>1, <2>2, <2>13, <2>15, <3>1, <3>2, PutBehind
  <2>16. ASSUME NEW n \in Nat, NEW o, Written(g, n, o), ~Raced(g),
                format = "evf2" => position = offset, Behind(disk, offset)
         PROVE  /\ ChunkExtents(disk) \subseteq ChunkExtents(disk') /\ Behind(disk', offset')
                /\ format = "evf2" => position' = offset'
    BY <2>1, <2>2, <2>13, <2>16, PutBehind DEF Written
  <2>17. CASE Call(g)
    <3>1. pc[g] = "idle" /\ pc'[g] \in {"lock", "test"}
          /\ UNCHANGED <<fileVars, format, entries, hashed, image, met>>
      BY <2>6, <2>17 DEF Call, CallWrite, CallClose, Begin
    <3>2. pc[g] \notin FilePlaces /\ pc'[g] \notin FilePlaces
      BY <3>1 DEF FilePlaces
    <3>. QED
      BY <2>8, <2>10, <3>1, <3>2
  <2>18. CASE Lock(g)
    <3>1. \E to \in {"append", "pad"} : Goto(g, to)
      BY <2>18, Zenon DEF Lock
    <3>2. pc[g] \notin FilePlaces /\ pc'[g] \notin FilePlaces
      BY <2>6, <2>18, <3>1 DEF Lock, FilePlaces
    <3>. QED
      BY <2>8, <2>10, <2>18, <3>2 DEF Lock, callVars
  <2>19. CASE BufferStep(g)
    <3>1. CASE AppendGiven(g) \/ CutChunk(g) \/ ClosePad(g) \/ CloseFindsBytes(g)
      <4>1. pc[g] \notin FilePlaces /\ pc'[g] \notin FilePlaces
        BY <2>6, <3>1 DEF AppendGiven, CutChunk, ClosePad, CloseFindsBytes, FilePlaces
      <4>. QED
        BY <2>8, <2>10, <3>1, <4>1
        DEF AppendGiven, CutChunk, ClosePad, CloseFindsBytes, callVars
    <3>2. CASE WriteReturns(g)
      <4>1. pc[g] \notin FilePlaces /\ pc'[g] \notin FilePlaces
        BY <2>7, <3>2 DEF WriteReturns, FilePlaces
      <4>. QED
        BY <2>8, <2>10, <3>2, <4>1 DEF WriteReturns, callVars
    <3>3. CASE CloseFindsNone(g) \/ CloseEmpty(g)
      <4>1. /\ pc[g] \notin FilePlaces /\ part[g] = "flush" /\ NextSection(g) /\ ComesToFile(g)
            /\ UNCHANGED <<disk, offset, position, format, entries, hashed, draft, image>>
        BY <2>2, <3>3 DEF CloseFindsNone, CloseEmpty, fileVars, callVars, FilePlaces, PlaceOK,
                          PlaceFits
      <4>2. /\ ~met /\ \A h \in Goroutines \ {g} : pc[h] \notin FilePlaces
            /\ AtRest /\ (format = "evf2" => position = offset)
            /\ Leads(disk, image.draft.offsets, image.draft.sum)
        BY <2>11, <4>1
      <4>3. Gathered("piece", part[g], draft[g])
        BY <4>1 DEF Gathered, AfterTable, AfterSum, HashSections
      <4>4. Behind(disk', offset') /\ Leads(disk', entries', hashed')
        BY <4>1, <4>2 DEF AtRest
      <4>5. pc'[g] \in FilePlaces /\ AtWork(g)'
        BY <4>1, <4>3, <4>4, NextAtWork
      <4>. QED
        BY <2>9, <4>1, <4>2, <4>5
    <3>. QED
      BY <2>19, <3>1, <3>2, <3>3 DEF BufferStep
  <2>20. CASE WriteDataStep(g)
    <3>1. pc[g] \in StorePlaces \cup {"loop", "flush"} /\ part[g] \in {"write", "flush"}
      BY <2>2, <2>20 DEF WriteDataStep, Locate, StoreChunk, AlignChunk, StoreFails, EnterChunk,
                         HashChunk, PlaceOK, PlaceFits, StorePlaces
    <3>2. \A place, copy : Gathered(place, part[g], copy)'
          \/ part'[g] # part[g]
      BY <3>1 DEF Gathered, AfterTable, AfterSum, HashSections
    <3>3. CASE Locate(g)
      <4>1. /\ pc[g] \notin FilePlaces /\ ComesToFile(g) /\ pc'[g] = "store"
            /\ UNCHANGED <<disk, offset, position, format, entries, hashed, draft, image, part>>
        BY <2>6, <3>3 DEF Locate, fileVars, callVars, FilePlaces
      <4>2. /\ ~met /\ \A h \in Goroutines \ {g} : pc[h] \notin FilePlaces
            /\ AtRest /\ (format = "evf2" => position = offset)
            /\ Leads(disk, image.draft.offsets, image.draft.sum)
        BY <2>11, <4>1
      <4>3. at'[g] = offset
        <5>1. at'[g] = IF format = "evf1" THEN offset ELSE position
          BY <2>1, <3>3 DEF Locate
        <5>. QED
          BY <2>1, <4>2, <5>1
      <4>4. AtWork(g)'
        BY <3>2, <4>1, <4>2, <4>3 DEF AtWork, AtRest, Rewriting
      <4>5. pc'[g] \in FilePlaces
        BY <4>1 DEF FilePlaces
      <4>. QED
        BY <2>9, <4>1, <4>2, <4>4, <4>5
    <3>4. CASE StoreChunk(g)
      <4>1. PICK n \in CompressedLens : Written(g, n, [kind |-> "chunk", data |-> Chunk(g)])
        BY <3>4 DEF StoreChunk
      <4>2. PICK to \in {"enter", "align"} : Goto(g, to)
        BY <3>4, Zenon DEF StoreChunk
      <4>3. /\ pc[g] = "store" /\ pc'[g] = to /\ met' = met
            /\ UNCHANGED <<at, part, draft, format, buf, entries, hashed, image>>
        BY <2>6, <3>4, <4>2 DEF StoreChunk, ownVars, callVars
      <4>4. pc[g] \in FilePlaces /\ pc'[g] \in FilePlaces /\ pc'[g] \notin Rewriting
        BY <4>3 DEF FilePlaces, Rewriting
      <4>5. /\ ~met /\ \A h \in Goroutines \ {g} : pc[h] \notin FilePlaces
            /\ AtWork(g) /\ (format = "evf2" => position = offset)
            /\ Leads(disk, image.draft.offsets, image.draft.sum) /\ ~Raced(g)
        BY <2>12, <4>3, <4>4
      <4>6. at[g] = offset /\ Behind(disk, offset) /\ Leads(disk, entries, hashed)
        BY <4>3, <4>5 DEF AtWork, Rewriting
      <4>7. n \in Nat /\ n > 0
        BY <2>1
      <4>8. /\ ChunkExtents(disk) \subseteq ChunkExtents(disk') /\ Behind(disk', offset')
            /\ format = "evf2" => position' = offset'
        BY <2>16, <4>1, <4>5, <4>6, <4>7
      <4>. DEFINE o == [kind |-> "chunk", data |-> Chunk(g)]
      <4>9. [at |-> offset, len |-> n, obj |-> o] \in disk'
        BY <4>1, <4>7 DEF Written, Put
      <4>10. Holds(disk', offset, "chunk") /\ ObjAt(disk', offset) = o
        BY <2>4, <4>9, ChunkAtStored
      <4>11. Chunk(g)' = Chunk(g) /\ at'[g] = offset
        BY <4>3, <4>6 DEF Chunk
      <4>12. Leads(disk', entries', hashed') /\ Leads(disk', image'.draft.offsets, image'.draft.sum)
        BY <2>14, <4>3, <4>5, <4>6, <4>8
      <4>13. Holds(disk, at[g], "chunk")' /\ ObjAt(disk, at[g])'.data = Chunk(g)'
        BY <4>10, <4>11
      <4>14. pc'[g] \notin {"store", "hash", "seek"}
        BY <4>3
      <4>15. Gathered(pc[g], part[g], draft[g])'
        BY <3>2, <4>3
      <4>16. AtWork(g)'
        BY <4>4, <4>8, <4>12, <4>13, <4>14, <4>15 DEF AtWork, Rewriting
      <4>. QED
        BY <2>9, <4>3, <4>4, <4>5, <4>8, <4>12, <4>16
    <3>5. CASE AlignChunk(g)
      <4>1. PICK n \in AlignLens : Written(g, n, [kind |-> "zeroes"])
        BY <3>5 DEF AlignChunk
      <4>2. /\ pc[g] = "align" /\ pc'[g] = "enter" /\ met' = met
            /\ UNCHANGED <<at, part, draft, format, buf, entries, hashed, image>>
        BY <2>6, <3>5 DEF AlignChunk, ownVars, callVars
      <4>3. pc[g] \in FilePlaces /\ pc'[g] \in FilePlaces
        BY <4>2 DEF FilePlaces
      <4>4. /\ ~met /\ \A h \in Goroutines \ {g} : pc[h] \notin FilePlaces
            /\ AtWork(g) /\ (format = "evf2" => position = offset)
            /\ Leads(disk, image.draft.offsets, image.draft.sum) /\ ~Raced(g)
        BY <2>12, <4>2, <4>3
      <4>5. /\ Holds(disk, at[g], "chunk") /\ ObjAt(disk, at[g]).data = Chunk(g)
            /\ Behind(disk, offset) /\ Leads(disk, entries, hashed)
        BY <4>2, <4>4 DEF AtWork, Rewriting
      <4>6. /\ ChunkExtents(disk) \subseteq ChunkExtents(disk') /\ Behind(disk', offset')
            /\ format = "evf2" => position' = offset'
        BY <2>1, <2>16, <4>1, <4>4, <4>5
      <4>7. Holds(disk', at'[g], "chunk") /\ ObjAt(disk', at'[g]).data = Chunk(g)'
        BY <2>2, <2>4, <4>2, <4>5, <4>6, ChunkAtKept DEF Chunk
      <4>8. Leads(disk', entries', hashed') /\ Leads(disk', image'.draft.offsets, image'.draft.sum)
        BY <2>14, <4>2, <4>4, <4>5, <4>6
      <4>9. Gathered(pc[g], part[g], draft[g])'
        BY <3>2, <4>2
      <4>10. AtWork(g)'
        BY <4>2, <4>6, <4>7, <4>8, <4>9 DEF AtWork, Rewriting
      <4>. QED
        BY <2>9, <4>2, <4>3, <4>4, <4>6, <4>8, <4>10
    <3>6. CASE StoreFails(g)
      <4>1. /\ pc[g] \in {"store", "align"} /\ pc'[g] = "idle" /\ met' = met /\ WrittenInPart(g)
            /\ UNCHANGED <<format, entries, hashed, image>>
        BY <2>7, <3>6 DEF StoreFails, callVars
      <4>2. pc[g] \in FilePlaces /\ pc'[g] \notin FilePlaces /\ pc[g] \notin Rewriting
            /\ pc[g] # "hash"
        BY <4>1 DEF FilePlaces, Rewriting
      <4>3. /\ ~met /\ \A h \in Goroutines \ {g} : pc[h] \notin FilePlaces
            /\ AtWork(g) /\ (format = "evf2" => position = offset)
            /\ Leads(disk, image.draft.offsets, image.draft.sum) /\ ~Raced(g)
        BY <2>12, <4>1, <4>2
      <4>4. Behind(disk, offset) /\ Leads(disk, entries, hashed)
        BY <4>2, <4>3 DEF AtWork
      <4>5. /\ ChunkExtents(disk) \subseteq ChunkExtents(disk') /\ Behind(disk', offset')
            /\ format = "evf2" => position' = offset'
        BY <2>15, <4>1, <4>3, <4>4
      <4>6. Leads(disk', entries', hashed') /\ Leads(disk', image'.draft.offsets, image'.draft.sum)
        BY <2>14, <4>1, <4>3, <4>4, <4>5
      <4>. QED
        BY <2>9, <4>1, <4>2, <4>3, <4>5, <4>6 DEF AtRest
    <3>7. CASE EnterChunk(g)
      <4>1. /\ pc[g] = "enter" /\ pc'[g] = "hash" /\ met' = met
            /\ entries' = Append(entries, at[g])
            /\ UNCHANGED <<disk, offset, position, at, part, draft, format, buf, hashed, image>>
        BY <2>6, <3>7 DEF EnterChunk, fileVars, ownVars, callVars
      <4>2. pc[g] \in FilePlaces /\ pc'[g] \in FilePlaces
        BY <4>1 DEF FilePlaces
      <4>3. /\ ~met /\ \A h \in Goroutines \ {g} : pc[h] \notin FilePlaces
            /\ AtWork(g) /\ (format = "evf2" => position = offset)
            /\ Leads(disk, image.draft.offsets, image.draft.sum)
        BY <2>12, <4>1, <4>2
      <4>4. /\ Holds(disk, at[g], "chunk") /\ ObjAt(disk, at[g]).data = Chunk(g)
            /\ Behind(disk, offset) /\ Leads(disk, entries, hashed)
        BY <4>1, <4>3 DEF AtWork, Rewriting
      <4>5. Chunk(g) \in Seq(Nat) /\ Chunk(g)' = Chunk(g)
        BY <4>1, ChunkType DEF Chunk, StorePlaces
      <4>6. Leads(disk', entries', hashed' \o Chunk(g)')
        <5>1. at[g] \in Nat /\ Len(entries) \in Nat
          BY <2>1
        <5>2. Indexed(disk, Append(entries, at[g]), Len(entries) + 1, hashed \o Chunk(g))
          BY <2>1, <2>2, <4>4, <4>5, <5>1, IndexGrows DEF Leads
        <5>3. Len(Append(entries, at[g])) = Len(entries) + 1
          BY <2>1, <5>1, AppendProperties
        <5>. QED
          BY <4>1, <4>5, <5>2, <5>3 DEF Leads
      <4>7. Gathered(pc[g], part[g], draft[g])'
        BY <3>2, <4>1
      <4>8. AtWork(g)'
        BY <4>1, <4>4, <4>5, <4>6, <4>7 DEF AtWork, Rewriting
      <4>. QED
        BY <2>9, <4>1, <4>2, <4>3, <4>8
    <3>8. CASE HashChunk(g)
      <4>1. PICK to \in {"cut", "empty"} : Goto(g, to)
        BY <3>8, Zenon DEF HashChunk
      <4>2. /\ pc[g] = "hash" /\ pc'[g] = to /\ met' = met
            /\ hashed' = hashed \o Chunk(g)
            /\ UNCHANGED <<disk, offset, position, format, entries, image>>
        BY <2>6, <3>8, <4>1 DEF HashChunk, fileVars, ownVars, callVars
      <4>3. pc[g] \in FilePlaces /\ pc'[g] \notin FilePlaces
        BY <4>2 DEF FilePlaces
      <4>4. /\ ~met /\ \A h \in Goroutines \ {g} : pc[h] \notin FilePlaces
            /\ AtWork(g) /\ (format = "evf2" => position = offset)
            /\ Leads(disk, image.draft.offsets, image.draft.sum)
        BY <2>12, <4>2, <4>3
      <4>5. Behind(disk, offset) /\ Leads(disk, entries, hashed \o Chunk(g))
        BY <4>2, <4>4 DEF AtWork, Rewriting
      <4>6. AtRest'
        BY <4>2, <4>5 DEF AtRest
      <4>. QED
        BY <2>9, <4>2, <4>3, <4>4, <4>6
    <3>. QED
      BY <2>20, <3>3, <3>4, <3>5, <3>6, <3>7, <3>8 DEF WriteDataStep
  <2>21. CASE InPlaceStep(g)
    <3>1. pc[g] \in InPlacePlaces /\ part[g] \in Sections /\ part[g] \in {"sectors", "volume"}
      BY <2>2, <2>21 DEF InPlaceStep, Mark, SeekSection, Rewrite, RewriteFails, SeekBack, GiveUp,
                         PlaceOK, PlaceFits, InPlacePlaces, EncoderPlaces, Rewriting, InPlace
    <3>2. pc[g] \in FilePlaces /\ pc[g] # "hash" /\ pc[g] \notin Holding
      BY <3>1 DEF FilePlaces, InPlacePlaces, Rewriting, Holding, StorePlaces
    <3>3. UNCHANGED <<format, entries, hashed, image, met>>
      BY <2>21 DEF InPlaceStep, Mark, SeekSection, Rewrite, RewriteFails, SeekBack, GiveUp,
                   callVars
    <3>4. /\ ~met /\ \A h \in Goroutines \ {g} : pc[h] \notin FilePlaces
          /\ AtWork(g) /\ (format = "evf2" => position = offset)
          /\ Leads(disk, image.draft.offsets, image.draft.sum) /\ ~Raced(g)
      BY <2>12, <3>2, <3>3
    <3>5. Leads(disk, entries, hashed)
      BY <3>2, <3>4 DEF AtWork
    <3>6. format = "evf1"
      BY <2>2, <2>21 DEF InPlaceStep, Mark, SeekSection, Rewrite, RewriteFails, SeekBack, GiveUp,
                         PlaceOK, PlaceFits, InPlacePlaces, Rewriting, InPlace
    <3>7. \A place, copy : part'[g] = part[g] => Gathered(place, part[g], copy)'
      BY <3>1 DEF Gathered, AfterTable, AfterSum, HashSections
    <3>8. CASE Mark(g)
      <4>1. /\ pc[g] = "mark" /\ pc'[g] = "seek" /\ at'[g] = offset
            /\ UNCHANGED <<disk, offset, position, part>>
        BY <2>1, <2>6, <3>8 DEF Mark, fileVars
      <4>2. Behind(disk, offset)
        BY <3>4, <4>1 DEF AtWork, Rewriting
      <4>3. AtWork(g)' /\ pc'[g] \in FilePlaces
        BY <3>3, <3>5, <3>7, <4>1, <4>2 DEF AtWork, Rewriting, FilePlaces
      <4>. QED
        BY <2>9, <3>3, <3>4, <3>6, <4>1, <4>3
    <3>9. CASE SeekSection(g)
      <4>1. /\ pc[g] = "seek" /\ pc'[g] = "rewrite" /\ offset' = PlaceOf(part[g])
            /\ UNCHANGED <<disk, position, at, part>>
        BY <2>6, <3>9 DEF SeekSection, ownVars
      <4>2. Behind(disk, at[g])
        BY <3>4, <4>1 DEF AtWork
      <4>3. AtWork(g)' /\ pc'[g] \in FilePlaces
        BY <3>3, <3>5, <3>7, <4>1, <4>2 DEF AtWork, Rewriting, FilePlaces
      <4>. QED
        BY <2>9, <3>3, <3>4, <3>6, <4>1, <4>3
    <3>10. CASE Rewrite(g) \/ RewriteFails(g)
      <4>1. PICK n, o :
              n \in 0..SectionLen /\ o.kind # "chunk" /\ disk' = Put(disk, offset, n, o)
        <5>1. CASE Rewrite(g)
          <6>1. part[g] # "chunk" /\ SectionLen \in 0..SectionLen
            BY <2>1, <3>1
          <6>2. disk' = Put(disk, offset, SectionLen, [kind |-> part[g]])
            BY <5>1 DEF Rewrite, Written
          <6>. QED
            BY <6>1, <6>2
        <5>2. CASE RewriteFails(g)
          BY <2>1, <5>2 DEF RewriteFails, WrittenInPart, Tear, Torn
        <5>. QED
          BY <3>10, <5>1, <5>2
      <4>2. PICK to \in {"back", "giveUp"} : pc'[g] = to
        BY <2>6, <3>10 DEF Rewrite, RewriteFails
      <4>3. pc[g] = "rewrite" /\ UNCHANGED <<at, part>>
        BY <3>10 DEF Rewrite, RewriteFails, ownVars
      <4>4. Behind(disk, at[g]) /\ offset = PlaceOf(part[g])
        BY <3>4, <4>3 DEF AtWork, Rewriting
      <4>5. n \in Nat /\ offset + n <= Home
        BY <2>1, <4>1, <4>4 DEF PlaceOf, Home
      <4>6. ChunkExtents(disk) \subseteq ChunkExtents(disk') /\ Behind(disk', at[g])
        BY <2>1, <2>2, <4>1, <4>4, <4>5, PutBefore
      <4>7. Leads(disk', entries', hashed') /\ Leads(disk', image'.draft.offsets, image'.draft.sum)
        BY <2>14, <3>3, <3>4, <3>5, <4>6
      <4>8. pc'[g] \in Rewriting /\ pc'[g] \in FilePlaces
            /\ pc'[g] \notin {"store", "align", "enter", "hash", "rewrite"}
        BY <4>2 DEF Rewriting, FilePlaces
      <4>9. Gathered(pc[g], part[g], draft[g])'
        BY <3>7, <4>3
      <4>10. AtWork(g)'
        BY <4>3, <4>6, <4>7, <4>8, <4>9 DEF AtWork
      <4>. QED
        BY <2>9, <3>3, <3>4, <3>6, <4>7, <4>8, <4>10
    <3>11. CASE SeekBack(g)
      <4>1. /\ pc[g] = "back" /\ offset' = at[g] /\ NextSection(g)
            /\ UNCHANGED <<disk, position, draft>>
        BY <3>11 DEF SeekBack
      <4>2. Behind(disk', offset') /\ Leads(disk', entries', hashed')
        BY <3>3, <3>4, <3>5, <4>1 DEF AtWork, Rewriting
      <4>3. Gathered("piece", part[g], draft[g]) /\ part[g] # "done"
        BY <3>1 DEF Gathered, AfterTable, AfterSum, HashSections
      <4>4. pc'[g] \in FilePlaces /\ AtWork(g)'
        BY <3>1, <3>3, <4>1, <4>2, <4>3, NextAtWork
      <4>. QED
        BY <2>9, <3>3, <3>4, <3>6, <4>1, <4>4
    <3>12. CASE GiveUp(g)
      <4>1. pc[g] = "giveUp" /\ offset' = at[g] /\ disk' = disk /\ pc'[g] = "idle"
        BY <2>7, <3>12 DEF GiveUp
      <4>2. Behind(disk', offset') /\ Leads(disk', entries', hashed')
        BY <3>3, <3>4, <3>5, <4>1 DEF AtWork, Rewriting
      <4>3. pc'[g] \notin FilePlaces
        BY <4>1 DEF FilePlaces
      <4>. QED
        BY <2>9, <3>3, <3>4, <3>6, <4>1, <4>2, <4>3 DEF AtRest
    <3>. QED
      BY <2>21, <3>8, <3>9, <3>10, <3>11, <3>12 DEF InPlaceStep
  <2>22. CASE SectionStep(g)
    <3>1. /\ pc[g] \in {"gather", "piece"} /\ part[g] \in Sections
          /\ UNCHANGED <<format, entries, hashed, met>>
      BY <2>2, <2>22 DEF SectionStep, Gather, WritePiece, EndSection, CloseReturns, PieceFails,
                         HashFailsUnreported, callVars, PlaceOK, PlaceFits, EncoderPlaces
    <3>2. pc[g] \in FilePlaces /\ pc[g] \notin {"store", "align", "enter", "hash", "seek"}
          /\ pc[g] \notin Rewriting
      BY <3>1 DEF FilePlaces, Rewriting
    <3>3. /\ ~met /\ \A h \in Goroutines \ {g} : pc[h] \notin FilePlaces
          /\ AtWork(g) /\ (format = "evf2" => position = offset)
          /\ Leads(disk, image.draft.offsets, image.draft.sum) /\ ~Raced(g)
      BY <2>12, <3>1, <3>2
    <3>4. Behind(disk, offset) /\ Leads(disk, entries, hashed)
          /\ Gathered(pc[g], part[g], draft[g])
      BY <3>2, <3>3 DEF AtWork
    <3>5. CASE Gather(g)
      <4>1. /\ pc[g] = "gather" /\ pc'[g] = "piece"
            /\ UNCHANGED <<disk, offset, position, part, image>>
        BY <2>6, <3>5 DEF Gather, fileVars
      <4>2. \A value : Seen(g, value) = {value}
        BY <3>3 DEF Seen
      <4>3. \/ part[g] = "table" /\ draft' = [draft EXCEPT ![g].offsets = entries]
            \/ part[g] \in HashSections /\ draft' = [draft EXCEPT ![g].sum = hashed]
        BY <3>5, <4>2 DEF Gather
      <4>4. Gathered(pc[g], part[g], draft[g])'
        <5>1. CASE part[g] = "table" /\ draft' = [draft EXCEPT ![g].offsets = entries]
          <6>1. draft'[g].offsets = entries
            BY <2>1, <5>1 DEF Drafts
          <6>. QED
            BY <3>1, <4>1, <5>1, <6>1 DEF Gathered, AfterTable, AfterSum, HashSections
        <5>2. CASE part[g] \in HashSections /\ draft' = [draft EXCEPT ![g].sum = hashed]
          <6>1. draft'[g].sum = hashed /\ draft'[g].offsets = draft[g].offsets
            BY <2>1, <5>2 DEF Drafts
          <6>2. draft[g].offsets = entries
            BY <3>4, <5>2 DEF Gathered, AfterTable
          <6>. QED
            BY <3>1, <4>1, <5>2, <6>1, <6>2 DEF Gathered
        <5>. QED
          BY <4>3, <5>1, <5>2
      <4>5. AtWork(g)' /\ pc'[g] \in FilePlaces
        BY <3>1, <3>4, <4>1, <4>4 DEF AtWork, Rewriting, FilePlaces
      <4>. QED
        BY <2>9, <3>1, <3>3, <4>1, <4>5
    <3>6. CASE WritePiece(g)
      <4>1. /\ Written(g, SectionLen, [kind |-> part[g]])
            /\ UNCHANGED <<pc, part, draft, image>>
        BY <3>6 DEF WritePiece
      <4>2. /\ ChunkExtents(disk) \subseteq ChunkExtents(disk') /\ Behind(disk', offset')
            /\ format = "evf2" => position' = offset'
        BY <2>1, <2>16, <3>3, <3>4, <4>1
      <4>3. Leads(disk', entries', hashed') /\ Leads(disk', image'.draft.offsets, image'.draft.sum)
        BY <2>14, <3>1, <3>3, <3>4, <4>1, <4>2
      <4>4. Gathered(pc[g], part[g], draft[g])'
        BY <3>1, <3>4, <4>1 DEF Gathered
      <4>5. pc'[g] = pc[g]
        BY <4>1
      <4>6. AtWork(g)'
        BY <3>2, <4>2, <4>3, <4>4, <4>5 DEF AtWork, Rewriting
      <4>. QED
        BY <2>9, <3>1, <3>2, <3>3, <4>1, <4>2, <4>3, <4>5, <4>6
    <3>7. CASE EndSection(g)
      <4>1. /\ Written(g, SectionLen, [kind |-> part[g]]) /\ NextSection(g)
            /\ pc[g] = "piece" /\ part[g] # "done" /\ UNCHANGED <<draft, image>>
        BY <3>7 DEF EndSection
      <4>2. /\ ChunkExtents(disk) \subseteq ChunkExtents(disk') /\ Behind(disk', offset')
            /\ format = "evf2" => position' = offset'
        BY <2>1, <2>16, <3>3, <3>4, <4>1
      <4>3. Leads(disk', entries', hashed') /\ Leads(disk', image'.draft.offsets, image'.draft.sum)
        BY <2>14, <3>1, <3>3, <3>4, <4>1, <4>2
      <4>4. pc'[g] \in FilePlaces /\ AtWork(g)'
        BY <3>1, <3>4, <4>1, <4>2, <4>3, NextAtWork
      <4>. QED
        BY <2>9, <3>1, <3>3, <4>2, <4>3, <4>4
    <3>8. CASE HashFailsUnreported(g)
      <4>1. /\ WrittenInPart(g) /\ NextSection(g)
            /\ pc[g] = "piece" /\ part[g] # "done" /\ UNCHANGED <<draft, image>>
        BY <3>8 DEF HashFailsUnreported, Unreported
      <4>2. /\ ChunkExtents(disk) \subseteq ChunkExtents(disk') /\ Behind(disk', offset')
            /\ format = "evf2" => position' = offset'
        BY <2>15, <3>3, <3>4, <4>1
      <4>3. Leads(disk', entries', hashed') /\ Leads(disk', image'.draft.offsets, image'.draft.sum)
        BY <2>14, <3>1, <3>3, <3>4, <4>1, <4>2
      <4>4. pc'[g] \in FilePlaces /\ AtWork(g)'
        BY <3>1, <3>4, <4>1, <4>2, <4>3, NextAtWork
      <4>. QED
        BY <2>9, <3>1, <3>3, <4>2, <4>3, <4>4
    <3>9. CASE PieceFails(g)
      <4>1. WrittenInPart(g) /\ pc'[g] = "idle" /\ UNCHANGED image
        BY <2>7, <3>9 DEF PieceFails
      <4>2. /\ ChunkExtents(disk) \subseteq ChunkExtents(disk') /\ Behind(disk', offset')
            /\ format = "evf2" => position' = offset'
        BY <2>15, <3>3, <3>4, <4>1
      <4>3. Leads(disk', entries', hashed') /\ Leads(disk', image'.draft.offsets, image'.draft.sum)
        BY <2>14, <3>1, <3>3, <3>4, <4>1, <4>2
      <4>4. pc'[g] \notin FilePlaces
        BY <4>1 DEF FilePlaces
      <4>. QED
        BY <2>9, <3>1, <3>3, <4>2, <4>3, <4>4 DEF AtRest
    <3>10. CASE CloseReturns(g)
      <4>1. /\ Written(g, SectionLen, [kind |-> "done"]) /\ pc'[g] = "idle"
            /\ pc[g] = "piece" /\ part[g] = "done" /\ image'.draft = draft[g]
        BY <2>7, <3>10 DEF CloseReturns
      <4>2. /\ ChunkExtents(disk) \subseteq ChunkExtents(disk') /\ Behind(disk', offset')
            /\ format = "evf2" => position' = offset'
        BY <2>1, <2>16, <3>3, <3>4, <4>1
      <4>3. draft[g].offsets = entries /\ draft[g].sum = hashed
        BY <3>4, <4>1 DEF Gathered, AfterTable, AfterSum
      <4>4. Leads(disk', entries', hashed') /\ Leads(disk', image'.draft.offsets, image'.draft.sum)
        BY <2>14, <3>1, <3>3, <3>4, <4>1, <4>2, <4>3
      <4>5. pc'[g] \notin FilePlaces
        BY <4>1 DEF FilePlaces
      <4>. QED
        BY <2>9, <3>1, <3>3, <4>2, <4>4, <4>5 DEF AtRest
    <3>. QED
      BY <2>22, <3>5, <3>6, <3>7, <3>8, <3>9, <3>10 DEF SectionStep
  <2>. QED
    BY <1>2, <2>17, <2>18, <2>19, <2>20, <2>21, <2>22 DEF Does, Step
<1>. QED
  BY <1>1, <1>2 DEF Next, Does


LEMMA FileInit == Init => SolidInv /\ FileInv
<1>. SUFFICES ASSUME Init
              PROVE  SolidInv /\ FileInv
  OBVIOUS
<1>1. SectionLen \in Nat /\ SectionLen > 0
  BY LockingAssumption
<1>2. /\ disk = {[at |-> PlaceOf(s), len |-> SectionLen, obj |-> [kind |-> s]] :
                   s \in {"volume", "sectors"}}
      /\ offset = Home /\ position = Home /\ entries = <<>> /\ hashed = <<>>
      /\ image = NotClosed /\ \A g \in Goroutines : pc[g] = "idle"
  BY DEF Init
<1>3. \A e \in disk : \/ e = [at |-> 0, len |-> SectionLen, obj |-> [kind |-> "volume"]]
                      \/ e = [at |-> SectionLen, len |-> SectionLen,
                              obj |-> [kind |-> "sectors"]]
  BY <1>2 DEF PlaceOf
<1>4. ChunkExtents(disk) = {}
  BY <1>3 DEF ChunkExtents
<1>5. Solid(disk) /\ BytesInChunks(disk)
  BY <1>1, <1>3, <1>4 DEF Solid, BytesInChunks
<1>6. Leads(disk, <<>>, <<>>)
  <2>1. DOMAIN <<>> = {} /\ Len(<<>>) = 0
    OBVIOUS
  <2>2. DataAt(disk, <<>>) = <<>>
    BY DEF DataAt
  <2>. QED
    BY <2>1, <2>2, FlattenEmpty DEF Leads, Indexed
<1>7. Behind(disk, offset)
  BY <1>1, <1>2, <1>4 DEF Behind, Home
<1>8. \A g \in Goroutines : pc[g] \notin FilePlaces
  BY <1>2 DEF FilePlaces
<1>. QED
  BY <1>2, <1>5, <1>6, <1>7, <1>8
  DEF SolidInv, FileInv, AtRest, NotClosed, NoDraft

\* What leads to data, and what the invariants say when the mutex is free.
LEMMA LeadsTo ==
    ASSUME NEW offsets, NEW bytes, Leads(disk, offsets, bytes)
    PROVE  LeadTo(offsets, bytes)
  BY DEF Leads, Indexed, DataAt, LeadTo

LEMMA FileNow == MutualExclusion /\ FileInv => IndexedDataIsHashed
<1>. SUFFICES ASSUME MutualExclusion, FileInv, mu = Nobody, ~met
              PROVE  LeadTo(entries, hashed)
  BY DEF IndexedDataIsHashed
<1>1. \A g \in Goroutines : pc[g] # "hash"
  BY LockingAssumption DEF MutualExclusion, Holding, StorePlaces
<1>2. CASE \E g \in Goroutines : pc[g] \in FilePlaces
  <2>1. PICK g \in Goroutines : pc[g] \in FilePlaces
    BY <1>2
  <2>2. AtWork(g)
    BY <2>1 DEF FileInv
  <2>. QED
    BY <1>1, <2>2, LeadsTo DEF AtWork
<1>3. CASE \A g \in Goroutines : pc[g] \notin FilePlaces
  <2>1. AtRest
    BY <1>3 DEF FileInv
  <2>. QED
    BY <2>1, LeadsTo DEF AtRest
<1>. QED
  BY <1>2, <1>3

LEMMA FileHolds == Spec => [](SolidInv /\ FileInv)
<1>1. Init => SolidInv /\ FileInv
  BY FileInit
<1>2. TypeOK /\ PlaceInv /\ MutualExclusion /\ SolidInv /\ FileInv /\ [Next]_vars
        => SolidInv' /\ FileInv'
  BY SolidStep, FileStep
<1>. QED
  BY <1>1, <1>2, Basics, PTL DEF Spec

\* As long as no two goroutines have been at the file at once, the offsets in
\* the tables lead to intact chunks, whose data are what the hashers have seen,
\* whenever the mutex is free, also while a Close is running its encoders.
THEOREM IndexIsHashed == Spec => []IndexedDataIsHashed
  BY Basics, FileHolds, FileNow, PTL

(***************************************************************************)
(* A Close that no other call overlaps.  It finds the mutex free, and what *)
(* it has not flushed is not there.                                        *)
(***************************************************************************)
LoneInv == \A g \in Goroutines : alone[g] /\ pc[g] # "idle" =>
    /\ \A h \in Goroutines \ {g} : pc[h] = "idle"
    /\ part[g] \in Sections => buf = <<>>

ImageInv == image.alone /\ ~met =>
    image.left = <<>> /\ Data(image.draft.sum) = image.all

LEMMA LoneInit == Init => LoneInv /\ ImageInv
<1>. SUFFICES ASSUME Init
              PROVE  LoneInv /\ ImageInv
  OBVIOUS
<1>1. \A g \in Goroutines : pc[g] = "idle"
  BY DEF Init
<1>2. ~image.alone
  BY DEF Init, NotClosed
<1>. QED
  BY <1>1, <1>2 DEF LoneInv, ImageInv

\* Who is idle can but call.
LEMMA IdleCalls ==
    ASSUME NEW g \in Goroutines, Does(g), pc[g] = "idle"
    PROVE  Call(g)
<1>1. ~Lock(g)
  BY DEF Lock
<1>2. ~WriteDataStep(g)
  BY DEF WriteDataStep, Locate, StoreChunk, AlignChunk, StoreFails, EnterChunk, HashChunk
<1>3. ~BufferStep(g)
  BY DEF BufferStep, AppendGiven, CutChunk, WriteReturns, CloseFindsBytes, CloseFindsNone,
         ClosePad, CloseEmpty
<1>4. ~InPlaceStep(g)
  BY DEF InPlaceStep, Mark, SeekSection, Rewrite, RewriteFails, SeekBack, GiveUp
<1>5. ~SectionStep(g)
  BY DEF SectionStep, Gather, WritePiece, EndSection, CloseReturns, PieceFails,
         HashFailsUnreported
<1>. QED
  BY <1>1, <1>2, <1>3, <1>4, <1>5 DEF Does, Step

\* Only CallWrite and CallClose change who is alone, and nothing the format.
LEMMA AloneStays ==
    ASSUME NEW g \in Goroutines, Does(g)
    PROVE  format' = format /\ (~Call(g) => alone' = alone)
<1>1. CASE Call(g)
  BY <1>1 DEF Call, CallWrite, CallClose, Begin
<1>2. CASE Lock(g)
  BY <1>2 DEF Lock, callVars
<1>3. CASE WriteDataStep(g)
  BY <1>3 DEF WriteDataStep, Locate, StoreChunk, AlignChunk, StoreFails, EnterChunk, HashChunk,
              callVars
<1>4. CASE BufferStep(g)
  BY <1>4 DEF BufferStep, AppendGiven, CutChunk, WriteReturns, CloseFindsBytes,
              CloseFindsNone, ClosePad, CloseEmpty, callVars
<1>5. CASE InPlaceStep(g)
  BY <1>5 DEF InPlaceStep, Mark, SeekSection, Rewrite, RewriteFails, SeekBack, GiveUp, callVars
<1>6. CASE SectionStep(g)
  BY <1>6 DEF SectionStep, Gather, WritePiece, EndSection, CloseReturns, PieceFails,
              HashFailsUnreported, callVars
<1>. QED
  BY <1>1, <1>2, <1>3, <1>4, <1>5, <1>6 DEF Does, Step

\* A part of a call becomes a section only by way of CloseFindsNone and
\* CloseEmpty.
LEMMA FirstSection ==
    ASSUME TypeOK, PlaceInv, NEW g \in Goroutines, Does(g), ~Call(g),
           part[g] \notin Sections, part'[g] \in Sections
    PROVE  CloseFindsNone(g) \/ CloseEmpty(g)
<1>1. part \in [Goroutines -> Parts] /\ format \in {"evf1", "evf2"} /\ PlaceOK(g)
  BY LockingAssumption DEF TypeOK, PlaceInv
<1>2. "none" \notin Sections
  BY DEF Sections
<1>3. ~Return(g)
  BY <1>1, <1>2 DEF Return
<1>4. pc[g] \notin EncoderPlaces
  BY <1>1 DEF PlaceOK, PlaceFits
<1>5. part' # part
  BY <1>1
<1>6. ~Lock(g)
  BY <1>5 DEF Lock, ownVars
<1>7. ~WriteDataStep(g)
  BY <1>3, <1>5 DEF WriteDataStep, Locate, StoreChunk, AlignChunk, StoreFails, EnterChunk,
                    HashChunk, ownVars
<1>8. ~InPlaceStep(g)
  BY <1>4 DEF InPlaceStep, Mark, SeekSection, Rewrite, RewriteFails, SeekBack, GiveUp,
              EncoderPlaces, InPlacePlaces, Rewriting
<1>9. ~SectionStep(g)
  BY <1>4 DEF SectionStep, Gather, WritePiece, EndSection, CloseReturns, PieceFails,
              HashFailsUnreported, EncoderPlaces
<1>10. ~(AppendGiven(g) \/ CutChunk(g) \/ WriteReturns(g) \/ CloseFindsBytes(g) \/ ClosePad(g))
  BY <1>3, <1>5 DEF AppendGiven, CutChunk, WriteReturns, CloseFindsBytes, ClosePad, ownVars
<1>. QED
  BY <1>6, <1>7, <1>8, <1>9, <1>10 DEF Does, Step, BufferStep

LEMMA LoneStep ==
    TypeOK /\ PlaceInv /\ MutualExclusion /\ LoneInv /\ [Next]_vars => LoneInv'
<1>. SUFFICES ASSUME TypeOK, PlaceInv, MutualExclusion, LoneInv, [Next]_vars
              PROVE  LoneInv'
  OBVIOUS
<1>1. CASE UNCHANGED vars
  BY <1>1 DEF vars, ownVars, callVars, LoneInv, Sections
<1>2. ASSUME NEW g \in Goroutines, Does(g)
      PROVE  LoneInv'
  <2>1. /\ \A h \in Goroutines \ {g} : pc'[h] = pc[h] /\ part'[h] = part[h]
        /\ format' = format /\ (~Call(g) => alone' = alone)
    BY <1>2, OthersStay, AloneStays
  <2>2. Sections' = Sections
    BY <2>1 DEF Sections
  <2>3. CASE Call(g)
    <3>. DEFINE others == {h \in Goroutines \ {g} : pc[h] # "idle"}
    <3>1. PICK work \in {"write", "flush"} : Begin(g, work)
      BY <2>3 DEF Call, CallWrite, CallClose
    <3>2. \A h \in Goroutines : alone'[h] = IF h = g THEN others = {}
                                            ELSE alone[h] /\ h \notin others
      BY <3>1 DEF Begin
    <3>3. part'[g] = work
      BY <3>1 DEF Begin, TypeOK
    <3>4. part'[g] \notin Sections
      BY <3>3 DEF Sections
    <3>5. ASSUME NEW h \in Goroutines, alone'[h], pc'[h] # "idle"
          PROVE  /\ \A k \in Goroutines \ {h} : pc'[k] = "idle"
                 /\ part'[h] \in Sections => buf' = <<>>
      <4>1. h = g
        BY <2>1, <3>2, <3>5
      <4>. QED
        BY <2>1, <3>2, <3>4, <3>5, <4>1
    <3>. QED
      BY <2>2, <3>5 DEF LoneInv
  <2>4. CASE ~Call(g)
    <3>1. ASSUME NEW h \in Goroutines, alone'[h], pc'[h] # "idle"
          PROVE  /\ \A k \in Goroutines \ {h} : pc'[k] = "idle"
                 /\ part'[h] \in Sections => buf' = <<>>
      <4>1. pc[g] # "idle"
        BY <1>2, <2>4, IdleCalls
      <4>2. h = g
        <5>1. CASE h # g
          BY <2>1, <2>4, <3>1, <4>1, <5>1 DEF LoneInv
        <5>. QED
          BY <5>1
      <4>3. /\ \A k \in Goroutines \ {g} : pc[k] = "idle"
            /\ part[g] \in Sections => buf = <<>>
        BY <2>1, <2>4, <3>1, <4>1, <4>2 DEF LoneInv
      <4>4. ASSUME part'[g] \in Sections
            PROVE  buf' = <<>>
        <5>1. CASE part[g] \in Sections
          <6>1. pc[g] \notin Holding
            <7>1. PlaceOK(g) /\ "write" \notin Sections /\ "flush" \notin Sections
              BY DEF PlaceInv, Sections
            <7>. QED
              BY <5>1, <7>1 DEF PlaceOK, PlaceFits, Holding
          <6>. QED
            BY <1>2, <4>3, <5>1, <6>1, UnheldStep
        <5>2. CASE part[g] \notin Sections
          <6>1. CASE CloseFindsNone(g)
            <7>1. pc[g] = "test" /\ (Len(buf) = 0 \/ mu # Nobody) /\ buf' = buf
              BY <6>1 DEF CloseFindsNone
            <7>2. mu = Nobody
              <8>1. \A k \in Goroutines : pc[k] \notin Holding
                BY <4>3, <7>1 DEF Holding, StorePlaces
              <8>. QED
                BY <8>1 DEF MutualExclusion, TypeOK
            <7>3. buf \in Seq(Nat)
              BY DEF TypeOK
            <7>. QED
              BY <7>1, <7>2, <7>3, EmptySeq
          <6>2. CASE CloseEmpty(g)
            BY <6>2 DEF CloseEmpty
          <6>. QED
            BY <1>2, <2>4, <4>4, <5>2, <6>1, <6>2, FirstSection
        <5>. QED
          BY <5>1, <5>2
      <4>. QED
        BY <2>1, <4>2, <4>3, <4>4
    <3>. QED
      BY <2>2, <3>1 DEF LoneInv
  <2>. QED
    BY <2>3, <2>4
<1>. QED
  BY <1>1, <1>2 DEF Next, Does

\* Only CloseReturns makes an image; and who has met has met.
LEMMA ImageStays ==
    ASSUME TypeOK, NEW g \in Goroutines, Does(g), ~CloseReturns(g)
    PROVE  image' = image /\ (met => met')
<1>1. ComesToFile(g) => (met => met')
  BY DEF ComesToFile
<1>2. CASE Call(g)
  BY <1>2 DEF Call, CallWrite, CallClose, Begin
<1>3. CASE Lock(g)
  BY <1>3 DEF Lock
<1>4. CASE WriteDataStep(g)
  BY <1>1, <1>4 DEF WriteDataStep, Locate, StoreChunk, AlignChunk, StoreFails, EnterChunk,
                    HashChunk
<1>5. CASE BufferStep(g)
  BY <1>1, <1>5 DEF BufferStep, AppendGiven, CutChunk, WriteReturns, CloseFindsBytes,
                    CloseFindsNone, ClosePad, CloseEmpty
<1>6. CASE InPlaceStep(g)
  BY <1>6 DEF InPlaceStep, Mark, SeekSection, Rewrite, RewriteFails, SeekBack, GiveUp
<1>7. CASE SectionStep(g)
  BY <1>7 DEF SectionStep, Gather, WritePiece, EndSection, PieceFails, HashFailsUnreported
<1>. QED
  BY <1>2, <1>3, <1>4, <1>5, <1>6, <1>7 DEF Does, Step

LEMMA ImageStep ==
    TypeOK /\ PlaceInv /\ MutualExclusion /\ KeptInv /\ FileInv /\ LoneInv /\ ImageInv
      /\ [Next]_vars => ImageInv'
<1>. SUFFICES ASSUME TypeOK, PlaceInv, MutualExclusion, KeptInv, FileInv, LoneInv, ImageInv,
                     [Next]_vars
              PROVE  ImageInv'
  OBVIOUS
<1>1. CASE UNCHANGED <<image, met>>
  BY <1>1 DEF ImageInv
<1>2. ASSUME NEW g \in Goroutines, Does(g)
      PROVE  ImageInv'
  <2>1. CASE ~CloseReturns(g)
    <3>1. image' = image /\ (met => met')
      BY <1>2, <2>1, ImageStays
    <3>. QED
      BY <3>1 DEF ImageInv
  <2>2. CASE CloseReturns(g)
    <3>1. /\ pc[g] = "piece" /\ part[g] = "done" /\ met' = met
          /\ image' = [draft |-> draft[g], left |-> buf, all |-> accepted,
                       alone |-> alone[g]]
      BY <2>2 DEF CloseReturns
    <3>2. SUFFICES ASSUME alone[g], ~met
                   PROVE  buf = <<>> /\ Data(draft[g].sum) = accepted
      BY <3>1 DEF ImageInv
    <3>3. AtWork(g)
      BY <3>1, <3>2 DEF FileInv, FilePlaces
    <3>4. draft[g].sum = hashed
      BY <3>1, <3>3 DEF AtWork, Gathered, AfterSum
    <3>5. "done" \in Sections
      BY DEF Sections
    <3>6. buf = <<>> /\ \A h \in Goroutines \ {g} : pc[h] = "idle"
      BY <3>1, <3>2, <3>5 DEF LoneInv
    <3>7. mu = Nobody
      <4>1. \A k \in Goroutines : pc[k] \notin Holding
        BY <3>1, <3>6 DEF Holding, StorePlaces
      <4>. QED
        BY <4>1 DEF MutualExclusion, TypeOK
    <3>8. Data(hashed \o buf) = accepted
      BY <3>7, KeptNow DEF NothingLost
    <3>9. hashed \o <<>> = hashed
      BY ConcatEmptySeq DEF TypeOK
    <3>. QED
      BY <3>4, <3>6, <3>8, <3>9
  <2>. QED
    BY <2>1, <2>2
<1>. QED
  BY <1>1, <1>2 DEF Next, Does, vars

LEMMA ImageNow == FileInv /\ ImageInv => LoneCloseIsComplete
<1>. SUFFICES ASSUME FileInv, ImageInv, image.alone, ~met
              PROVE  /\ image.left = <<>>
                     /\ LeadTo(image.draft.offsets, image.draft.sum)
                     /\ Data(image.draft.sum) = image.all
  BY DEF LoneCloseIsComplete
<1>1. Leads(disk, image.draft.offsets, image.draft.sum)
  BY DEF FileInv
<1>. QED
  BY <1>1, LeadsTo DEF ImageInv

\* After any calls, as long as no two goroutines have been at the file at once:
\* a Close that no other call overlaps leaves an empty buffer, and has put into
\* its tables and hash sections all that was ever accepted.
THEOREM LoneClose == Spec => []LoneCloseIsComplete
<1>1. Init => KeptInv /\ LoneInv /\ ImageInv
  BY KeptInit, LoneInit
<1>2. TypeOK /\ PlaceInv /\ MutualExclusion /\ KeptInv /\ FileInv /\ LoneInv /\ ImageInv
        /\ [Next]_vars => KeptInv' /\ LoneInv' /\ ImageInv'
  BY KeptStep, LoneStep, ImageStep
<1>. QED
  BY <1>1, <1>2, Basics, FileHolds, ImageNow, PTL DEF Spec
=============================================================================
