# go-ewf in TLA+

go-ewf reads and writes Expert Witness Format disk images: EVF1 (`.E01`, package
`evf1`) and EVF2 (`.Ex01`, package `evf2`). This directory holds TLA+ models of
it, the TLC configurations that check them on small instances, and theorems
about them that TLAPS proves for every value of the constants. Run the tools
here: `tlc -config MCEvf1Open.cfg MCEvf1Open.tla`, `tlapm Evf1WriterProofs.tla`.

## 1. Inventory

| component | state it keeps | operations | hard behaviour | correct when |
|---|---|---|---|---|
| EVF1 writer (`evf1/ewf_writer.go`) | `buf`, `dataSize`, the tables, the chunk count, two hashers, the position of `dest`, and the places of two sections to rewrite | `Start`, `Write`, `Close` | a write of `dest` fails part-way, in any of them; the client retries; `Close` rewrites in place; nothing records that it ran; `Close` uses the state outside the mutex | no byte is lost or repeated; tables, counts and hashes agree; a reader never opens half an image |
| EVF1 sections (`evf1/{header,volume,sectors,table,digest,hash,data,done}.go`) | the fields they encode; `position` of volume and sectors | `Encode`, `Decode` | the first `Encode` of volume and sectors appends, later ones rewrite in place and restore the position | chunks are never overwritten |
| EVF1 reader (`evf1/ewf_reader.go`, `segment.go`, `table.go`) | the decoded segments, a read position, cached table entries, the cursor of each file | `OpenEWF`, `Segment`, `ReadAt`, `Read`, `Seek`, `Size` | segments decoded on demand and retried after errors; concurrent `ReadAt` on one cursor; the last chunk's size is inferred | returns what was written, or an error and no byte; every call returns |
| EVF2 writer (`evf2/ewf_writer.go`) | as EVF1, with a counting wrapper around `dest`, the padding total, and the offset of the previous descriptor | `Start(totalSize)`, `Write`, `Close` | append-only; descriptors linked backwards; hash sections that hide errors; the size is recorded before the data | as EVF1; the chain of descriptors is never broken |
| EVF2 sections (`evf2/{device_information,case_data,sectors,table,md5,sha1,done}.go`) | the fields they encode | `Encode`, `Decode` | data first, then the descriptor | the file is never written twice at one place |
| EVF2 reader (`evf2/ewf_reader.go`, `segment.go`, `table.go`) | as EVF1 | as EVF1 | found from the end of the file; several tables and several Closes on one chain | as EVF1 |
| shared (`shared/`) | the compressor's buffer | `PadBytes`, `WriteWithSum`, `Compress`, decompressors, UTF-16, `ToMap` | the buffer returned is reused | |
| metadata codecs (`evf1/header.go`, `evf2/case_data.go`, `device_information.go`) | one map of keys to values, filled by `CreateEWF`, the caller and `Start` | `Add...`, `Encode`, `Decode` | map order; unescaped delimiters; keys that two parties set | decode inverts encode |
| command line (`cmd/main.go`) | the position of a copy | `info`, `dump`, `create`, `verify` | copy loops, search for segment files, a source that changes | copies everything or fails; every command ends |

The components interact by calls and through the file: a writer is called by its
clients, writes to an `io.WriteSeeker` (EVF1) or `io.Writer` (EVF2), and a reader
later opens what is there. Nothing runs in the background: a step happens only
because a client calls, and a client may stop calling at any time (for which the
configurations of the writers, of the command line and of the codecs set
`CHECK_DEADLOCK FALSE`). What must happen is that a call that began ends.

`PROJECT.json` lists the hazards of this code, each at its line, and the
properties that cover it, or why none does.

## 2. Modules

```
EwfDisk ---- Evf1Writer ---- Evf1Open      : implements EwfImage (Atomic)
        \--- Evf2Writer ---- Evf2Open      : implements EwfImage (not Atomic)

EwfReadAt -- EwfReader ----- Evf1Reader    : implements EwfReads
        |             \----- Evf2Reader    : implements EwfReads
        |--- EwfReads
        \--- Cli

WriterLocking                MetadataCodec
```

An `MC` module gives a module's constants the values that a configuration cannot
write down, and the configuration gives the others. Modules named `...Proofs`,
and `EwfLemmas`, which the others extend, hold theorems.

**EwfDisk** is the destination file: a set of extents `[at, len, obj]`. A write
that overlaps an extent removes it, since what is left does not decode; a write
that fails leaves a prefix, `Torn`. The file is outside the repository; what is
modelled is what the writers rely on: a successful write stores every byte, a
failed one a prefix, and `Seek` does not fail.

**Evf1Writer** and **Evf2Writer** are the writers. The variables are the fields
of `EWFWriter` and of the sections that persist between calls (each is named
where it is declared). `pc` is the place in the running call, and a step is one
section encoder or one iteration of `Write`'s loop, so what the file holds
between two steps is what a crash there leaves. Each step has an alternative in
which `dest` fails: after `k` bytes (`TornLens`) for what is appended; for a
rewrite in place with the old bytes, the new bytes or neither. The call then
returns the error and the client may call again. So may it call `Start` again
when that has failed (`pc = "failed"`): all is written anew behind what the
failure has left, but EVF1's volume and sectors, if they already have a position,
are rewritten there (`StartVolumeAgain`, `StartSectorsAgain`). A byte of data is
its position in the client's stream and `0` is a byte of padding, so a dropped,
repeated or moved byte shows; a hash is the sequence of bytes hashed. Compression
is a choice of the length
(`CompressedLens`). Checksums, and texts no reader computes with, are left out.
`stream`, `result`, `closes` and `faults` are ghosts that record what the client
has been told; `hidden` (EVF2) that a hash section has hidden a failed write.
`Careful` restricts the client: it does not call `Close` when its last `Write`
failed.

| code | EVF1 | EVF2 |
|---|---|---|
| `CreateEWF` | `Init` | `Init` |
| `Start` | `StartFileHeader`, `StartHeader`, `StartVolume`, `StartVolumeAgain`, `StartSectors`, `StartSectorsAgain` | `StartFileHeader`, `StartDevice`, `StartCase` |
| `Write` | `Write` (accept), `FlushChunk` (the loop) | the same |
| `writeData` | `StoreChunk`, `LoseChunk` | the same |
| `addTableEntry` | `AddTableEntry` | `AddTableEntry` |
| `Close` | `BeginClose`, `CloseFlush`, `CloseSectors`, `CloseVolume`, `CloseTable`, `CloseTable2`, `CloseDigest`, `CloseHash`, `CloseData`, `CloseDone` | `BeginClose`, `CloseFlush`, `CloseSectors`, `CloseTable`, `CloseMD5`, `CloseSHA1`, `CloseDone` |

**Evf1Open** and **Evf2Open** are what a reader that opens the file now would
get: `Image(disk)` follows the descriptors as `EWFSegment.Decode` does, collects
tables and hashes, and reads every chunk as `ReadAt` does. `image` is a history
variable holding it after every step. Bytes that are not an intact descriptor
where one is expected count as an error, and so does a chain that never ends.

**EwfImage** is the abstract specification of a writer: a stream that grows, and
an image that is published, withdrawn or replaced. With `Atomic` every published
image is whole: all of the stream, and hashes of exactly that. Without it an
image may lack chunks or hashes, but every chunk that can be read is right and
every hash is that of a beginning of the stream.

**EwfReader** is what the two readers have in common: a reader object with its
segments (decoded or not, their tables, first sectors and the cursor of their
file), the position of `Read`, and the calls in progress. A byte of the image is
its offset. **Evf1Reader** and **Evf2Reader** add what differs, the decoding of
a segment and the reading of a chunk, and put the actions together.

| code | action |
|---|---|
| `OpenEWF` | `OpenEWF`: sorts the files and decodes the first |
| `ReadAt`, `Read`, `Segment` | `CallReadAt`, `CallRead`, `CallSegment`; the end is `Finish`, `Return` or `Fault` |
| `Seek` | `Seek` |
| `Segment`, `EWFSegment.Decode` | `DecodeSegment` with `DecodeEvf1`/`DecodeEvf2`, `SegmentAsked` |
| `calculateIndex`, `EWFReader.readSectors` | `Find`, `NextSegment` |
| `EWFSegment.ReadSectors` | `NextTable`, `AfterTable` |
| `EWFTableSection.readSectors` | `NextChunk`, `ReadChunk` |
| `getEntry` | `AllocEntries`, `FillEntries` |
| `readChunk` | `SeekChunk`, `ReadChunk` with `SeekEvf1`, `ReadEvf1` and so on |

A step is an iteration of a loop or one access to a file, because that is where
another goroutine's step may come in between. Decoding a segment is one step
with an outcome for each section at which the file may fail, and for where that
leaves the cursor; the configuration with two goroutines uses an image of one
file, where nothing is decoded while they run. A read of a file may fail, with
an error or with `io.EOF` if the file ends early; a panic ends its call.

**EwfReadAt** is the reference for a read: what `ReadAt` returns for an image
whose tables can be read, as a function of offset and length, with the counting
of sectors, the truncation by `MinUint32` and the error at the end as the code
has them. **EwfReads** is the abstract reader. It knows which call runs
(`request`), and each step is that of one call: `CallStep` begins it, `ReadAtStep`
and `SegmentStep` end theirs with the position where it was, `ReadStep` gives what
the image has from the position on and moves it by exactly what it gave, and
`SeekStep` moves it anywhere, but only when no call runs. A read answers with
`EwfReadAt` or fails with no byte.

**Cli** is the loops of `dump`, `verify` and `create` over `EwfReadAt`, with the
search for segment files, the checks of offset and length in 64 bits, failing
reads and writes, and a source file whose length changes.

**WriterLocking** is the writer called by several goroutines, for either package
(`format`), after `Start`. `Write` and `Close` are cut at every access to the
file, its position, the tables, the hashers and the buffer; the rest of the
writers is coarser here. `writeData` takes the position (`Locate`), writes the
chunk and, in EVF2, what aligns it (`StoreChunk`, `AlignChunk`), adds the entry
(`EnterChunk`) and hashes (`HashChunk`), all under the mutex. `Close` looks at the
buffer without the mutex, flushes it under it, and then runs its encoders without
it: EVF1's sectors and volume note the position, seek back, write and return
(`Mark`, `SeekSection`, `Rewrite`, `SeekBack`, or `GiveUp` after a failure), the
others copy what they encode (`Gather`) and append it in one to three writes
(`WritePiece`, `EndSection`). In EVF2 each write adds to `writer.position`, and two
that race may lose one addition; a list that is read while another goroutine is
at the file is seen as it is or as empty. The entries of all tables are one list,
and a section is a number of writes: what links sections, and the volume's count,
is in `Evf1Writer` and `Evf2Writer`. The ghost `met` becomes true when two
goroutines are at the file at once, which the code allows: then a chunk may be
written over another, or get an entry for another place. What is said of buffer
and hashes holds nevertheless; what is said of tables and file holds until then.

| code | `WriterLocking` |
|---|---|
| `Write`, `mu.Lock` | `CallWrite`, `Lock`, `AppendGiven`, `CutChunk`, `WriteReturns` |
| `Close`, its flush | `CallClose`, `CloseFindsBytes`, `CloseFindsNone`, `Lock`, `ClosePad`, `CloseEmpty` |
| `writeData` | `Locate`, `StoreChunk`, `AlignChunk`, `EnterChunk`, `HashChunk`, or `StoreFails` |
| `Encode` of EVF1's sectors and volume | `Mark`, `SeekSection`, `Rewrite`, `RewriteFails`, `SeekBack`, `GiveUp` |
| `Encode` of the others | `Gather`, `WritePiece`, `EndSection`, `CloseReturns`, `PieceFails`, `HashFailsUnreported` |

**MetadataCodec** is the three texts: a map filled by `CreateEWF`, the caller
and `Start`, written in any order of its keys, split at tabs and line ends. A
text is a sequence of tokens: a tab, a line end, a return, or a word.

## 3. Runs

| run | shows |
|---|---|
| `evf1_writer` | `NothingLost` (`hashed \o buf = stream`), `IndexedDataIsHashed` (the tables lead to intact chunks whose data are what was hashed), `TablesFit` (31-bit offsets, table length, no table opened early), `FixedSizeChunks`, `ChunksAreKept` (rewrites in place spare the chunks), `ClosedImageIsComplete` (unless a `Start` that had failed was called again), and `PublishesAtomically`: after every step of every call, whatever failed, the file is unreadable or a whole image. It implements `EwfImage` with `Atomic` |
| `evf2_writer` | the same of data and index; `AppendOnly`; `PreviousIsADescriptor`: the chain can be continued after every reported fault; `ClosedImageIsComplete`: conditions under which a successful `Close` is sure to give a whole image (the file begins with its header, the client wrote what it declared to `Start`, no fault was hidden, and either this is the first `Close` or there is a single table); `NeverWrongData`: with every fault, it implements `EwfImage` without `Atomic` |
| `evf1_reader` | `ImplementsReads`: as long as no failure has spoilt a table or a segment, a sequence of `Read`, `ReadAt` and `Seek` on three files given in any order answers as one image would, across chunks, tables and segments; a `Read` moves the position by what it gave, no other step but a `Seek` between calls moves it; failed chunks leave no trace |
| `evf2_reader` | the same, with `Segment` called in any order and two faults |
| `evf1_returns` | `EveryCallReturns`: no failure, and no half-decoded or doubled segment it leaves, keeps a later call in a loop |
| `evf2_parallel` | `RightWhenIntact`: two goroutines move each other's cursor, but a read that then runs alone is right unless entries were filled from a wrong place; and `EveryCallReturns` |
| `cli` | `DumpCopiesTheRange`, `CreateStoresTheSource`, `CommandsEnd` |
| `writer_locking` | in any interleaving, and after any failed write: `MutualExclusion`, `NothingLost` (whenever the mutex is free, what was hashed and what is buffered are the bytes of the `Write`s, in order), `EveryCallReturns`. Until two goroutines have been at the file at once (`met`): `IndexedDataIsHashed`, and `LoneCloseIsComplete` (a `Close` no other call overlaps leaves tables that lead to what its hash sections are of, all that was written, and nothing buffered) |
| `metadata` | `PlainMetadataSurvives`: values without delimiters come back in any order of the map, and the numbers a reader computes with are those of `Start`; `KeysSurvive`: whatever is in the values, no key appears or disappears (that a tab moves values to other keys is in the model, and not excluded) |
| `evf1_careless`, `evf2_close_hashes`, `evf1_after_fault` | disagreements, see below |

EVF2 is not atomic by design: its size is recorded by `Start`, and the file can
be opened as soon as `Start` is done, before any chunk can be found.

### Disagreements

* *Over-long chunks* (`evf1_careless`). A failed `Write` leaves a whole chunk or
  more in `buf`. `Close` pads only a short buffer and passes all of it to
  `writeData` (`evf1/ewf_writer.go:149`), so one chunk of the image is longer
  than 32768 bytes, against TESTING.md:147 ("fixed-size chunks"); a reader
  returns its first 32768 bytes. The example of the README, which ignores the
  result of `io.Copy` and closes, is such a client.
* *Hidden errors* (`evf2_close_hashes`). `EWFMD5Section.Encode` and
  `EWFSHA1Section.Encode` return nil when the write of the hash or its padding
  fails (`evf2/md5.go:32,38`, `evf2/sha1.go:32,38`); `Close` returns nil, against
  README.md:145 ("computes and writes hashes"), and the next descriptor names as
  its previous a place where there is none: the file cannot be opened.
* *Wrong bytes after a failed read* (`evf1_after_fault`). `getEntry` allocates the
  entries before the read that fills them (`evf1/table.go:206`); if that fails,
  the next call takes the zeroes for entries, and `ReadAt` of a table's last
  chunk returns other bytes without an error. In EVF2, `Decode` that failed and
  is retried counts its tables twice (`evf2/segment.go:99,158`).

Others, met while modelling; the models have them, no run is about them alone:

* Two `ReadAt` calls in parallel move one cursor without a lock
  (`evf1/table.go:249-254`) and read each other's bytes, although
  `shared/types.go:7` makes the reader an `io.ReaderAt`.
* `Close` runs its encoders without the mutex (`evf1/ewf_writer.go:164`,
  `evf2/ewf_writer.go:212`). A `Write` at that time stores its chunk wherever EVF1's
  encoders have left the position, so over an earlier chunk, or takes in EVF2 an
  offset at which a section then lands (`evf2/ewf_writer.go:273`). No document
  promises that `Write` and `Close` may overlap.
* `Start` called again after it failed writes behind what it had left. If that was
  a part of the file header, or in EVF1 anything in front of the sectors section,
  no reader opens the file, though every later call succeeds.
* An EVF1 `ReadAt` that starts inside a sector may return fewer bytes than asked
  for with a nil error (`evf1/ewf_reader.go:122`); EVF2 has the correction.
* A read at the end fails with "sector too long" instead of `io.EOF`
  (`evf1/ewf_reader.go:217`), so `verify` of a good image ends with an error
  (`cmd/main.go:652`).
* `io.EOF` of a truncated segment file reaches `dump` as the end of the image; it
  reports success with a shorter file (`cmd/main.go:350`).
* `OpenEWF` of a later EVF1 segment file alone dereferences a nil volume
  (`evf1/segment.go:178`).
* A tab in a metadata value moves the values of other keys, a line end makes
  `ToMap` panic (`evf2/case_data.go:135`); the EVF2 number of objects comes back
  as the first character of the byte order mark; an EVF1 header without any key
  cannot be read back.

### Bounds

*Writers.* `ChunkSize = 2`; up to 5 bytes in writes of up to 3, which gives
empty writes, writes that flush no, one or two chunks, and a short last chunk;
three chunks. `MaxTableLength = 2`, so a table fills up; in EVF1 `MaxRel = 5`
with compressed lengths 3 and 6, so a table is also closed because the next
offset is out of its reach, and by both at once. In EVF2 the lengths 1 and 3 are
below and above the data's own, so chunks are stored compressed and not,
and the sizes declared to `Start`, 3 and 5, are met, missed and exceeded.
`TornLens` has nothing written, less than a descriptor, and a descriptor with
part of the body. Two faults and two calls of `Close` give a retry that fails
again and an image replaced by a second one, with writes in between.

*Readers.* Two sectors of two bytes make a chunk; three files, the middle one
with two tables, so that a read crosses chunks, tables and segments, and a
segment is preceded by one that is not decoded. Offsets and lengths are at and
inside sectors, at the end and behind it, and longer than `Width = 16` (which
stands for 2^32); a length that is a multiple of `Width` asks for no byte at all,
and at the end of the image for a sector too many. One fault with both kinds of
error, or two of one kind, hit every section, every table and every chunk; calls
are not bounded. Wrong entries give sizes below, at and above a chunk's.

*Command line.* An image of three files of three sectors, with the second or
third missing; buffers from nothing over parts of a sector to more than the
image; `MaxLong = 31` is an int64 that offset plus length can overflow.

*Locking.* Two goroutines, three calls in all, one fault, both formats; writes of
no byte, less than a chunk (two bytes) and more. Every pair of calls overlaps in
every way, before or after a third that is alone or overlaps too. A section is two
bytes long, a chunk one in the file and what aligns it another, so that what lands
in the wrong place overlaps something. 325110 states. The configuration has a
`VIEW`: once `met`, it leaves out the file, its position, the entries and
what `Close` copied from them, which no guard looks at, and no property
then but `TypeOK`, which is proved besides. *Metadata.* Three keys of each section, one
unknown, and each kind of odd value.

### Fairness

A step of a call in progress is weakly fair, for each goroutine (`Step`): Go runs
every goroutine that can run, and no step of a reader waits for another. `Lock` is
strongly fair: a `sync.Mutex` is handed to a goroutine that has waited for a
millisecond, however often others come. `Cli` is a single goroutine, so its
loop's turns are weakly fair. Clients are not fair: nothing makes them call.

## 4. Proofs

All theorems hold for every value of the constants that satisfies the modules'
assumptions, which are what the code's own constants and types give: sizes and
bounds are natural numbers; `ChunkSize`, `MaxTableLength` and compressed lengths
are not 0; the search for segment files may go past the first (`MaxSegments` is
at least 2); the key tables are finite, and a key is a word, without a tab, line
end or return in it. For the readers, the files are those of an image these
writers make, cut into files between its tables: only the last file can be
without a table, and a table without a chunk is the only one of the last file;
any subset, repetition and order of them may be opened. Several goroutines get
a reader of one file, since decoding a segment is one step. The bounds of the
runs (`MaxBytes`, `MaxCloses`, `MaxFaults` and so on) are any natural numbers.

| property of a run | theorem | needs, beside itself |
|---|---|---|
| `Evf1Writer.TypeOK` | `Evf1WriterProofs!TypeCorrect` | `BasesWithin`, `FlushReady` |
| `NothingLost` (EVF1) | `Evf1WriterProofs!DataKept` | `TypeInv` |
| `ChunksAreKept` | `Evf1WriterProofs!ChunksKept` | `LayoutInv` |
| `TablesFit` | `Evf1WriterProofs!TablesAlwaysFit` | `TypeInv` |
| `FixedSizeChunks` | `Evf1WriterProofs!FixedSize`, assumes `Careful` | `SizeInv` |
| `IndexedDataIsHashed` (EVF1) | `Evf1WriterProofs!IndexMatchesHashes` | `TypeInv`, `LayoutInv`, `Solid(disk)` |
| `Evf2Writer.TypeOK`, `AppendOnly`, `PreviousIsADescriptor` | `Evf2WriterProofs!TypeCorrect`, `Appends`, `ChainKept` | `WriterInv` |
| `NothingLost`, `IndexedDataIsHashed` (EVF2) | `Evf2WriterProofs!DataKept`, `IndexMatchesHashes` | `WriterInv`, `Solid(disk)` |
| `WriterLocking.TypeOK`, `MutualExclusion` | `WriterLockingProofs!TypeCorrect`, `Exclusion` | `PlaceInv` |
| `NothingLost` of `WriterLocking` | `WriterLockingProofs!NothingIsLost` | `KeptInv` |
| `IndexedDataIsHashed` of `WriterLocking` | `WriterLockingProofs!IndexIsHashed` | `SolidInv`, `FileInv` |
| `LoneCloseIsComplete` | `WriterLockingProofs!LoneClose` | the above, `LoneInv`, `ImageInv` |
| `EwfReader.TypeOK` of either reader | `EwfReaderProofs!Evf1ReaderTypeOK`, `Evf2ReaderTypeOK` | `Inv` |
| `RightWhenIntact` of either reader | `EwfReaderProofs!Evf1ReaderRightWhenIntact`, `Evf2ReaderRightWhenIntact` | `Inv`, `More` |
| `ImplementsReads` of either reader | `EwfReadsProofs!Evf1ReaderImplementsReads`, `Evf2ReaderImplementsReads`, assume one client and `AllGiven` | `Inv`, `More`, `Kind` |
| `Cli.TypeOK`, `DumpCopiesTheRange`, `CreateStoresTheSource` | `CliProofs!TypeCorrect`, `DumpCopies`, `CreateStores` | `CliInv` |
| `MetadataCodec.TypeOK`, `PlainMetadataSurvives`, `KeysSurvive` | `MetadataCodecProofs!TypeCorrect`, `PlainSurvives`, `KeysAlwaysSurvive` | `CodecInv` |

### Lemmas

`EwfLemmas` has what the others keep needing: concatenation is
associative, a sequence is empty or ends in a last element, what `FlattenSeq`
makes of a sequence with one more element at the end, what `SubSeq` leaves; and
products, quotients and remainders, which the provers know little of. For the
writers it has the operators of the file: chunks stay where they are, and which
extent a table entry leads to (`Solid`: no two extents begin at one place, and
none is empty).

Facts about recursive functions (`FlattenSeq`, `Split`) and about finite
sequences of any length are by induction. The library's induction theorems take
an operator and cannot be instantiated, so the lemma `SetInduction` says the same
of a set of natural numbers, from the least-element theorem of
`WellFoundedInduction`; a proof by induction defines the set of the lengths for
which the claim holds.

### The EVF1 writer

* *Types.* `TypeOK` is not inductive: a table entry is an offset relative to its
  table's base, a natural number only because no base lies past the end of the
  file (`BasesWithin`), and `Write` takes a chunk from `buf` only where there is
  one (`FlushReady`). `TypeStep` has a case per action.
* *Data.* Bytes are added at the end of `buf` and of `stream` together, and move
  from the front of `buf` to the end of `hashed`.
* *Layout.* `LayoutInv` says that everything lies before `pos`, that the volume
  data lies before the sectors descriptor, and that this lies before every chunk;
  so what is appended meets no chunk, and neither does what is rewritten. It
  begins with the first `Start`: one that failed may leave `pos` inside a torn
  descriptor (`Nearly`), and places of volume and sectors that the next `Start`
  rewrites; since the header written anew is longer than what a failure can have
  left undone, those lie before `pos` by then (`PlacesFit`).
* *Tables.* The first entry of an empty table moves its base to the end of the
  file, which must not bring it closer to the table before, or that one would
  have been left too early. `AddTableEntryFits` has a case for each of
  `addTableEntry`'s branches.
* *Sizes.* `SizeInv` bounds `buf` by one chunk whenever `Close` may begin, which
  is what `Careful` is needed for: `evf1_careless` is the counterexample without
  it.
* *Index.* `IndexMatchesHashes`: the entries of all tables, one after the other,
  lead to intact chunks whose data, one after the other, are what was hashed.
  `IndexInv` adds the layout, so that a new chunk hides no earlier one and no
  rewrite touches one, and `Solid`. The step that stores a chunk is cut as the
  code is: `StoreChunk` adds the extent, the hashes and the entry, and the proof
  shows that the old entries lead where they led, that the new one leads to the
  new chunk (base plus relative offset), and that flattening the tables adds
  exactly that entry, in the last table or in a new one.

### The EVF2 writer

* *File and chain.* `WriterInv` is the types, `FlushReady`, that every extent
  ends at or before `pos` (`Within`), and the chain. Because of `Within`, a write
  at `pos` meets nothing, so the file grows (`Grown`); because the file grows,
  the last descriptor is still there when a step fails, and a step that succeeds
  stores the next one. A hash section that hides a fault is the one step that
  breaks the chain, and `hidden` records it.
* *Data and index* as for EVF1, on top of `WriterInv`; an entry is absolute, and
  a chunk may be stored compressed or not.

### Goroutines

For either format, any set of goroutines and any number of calls and faults:

* `PlaceInv` says which part of a call can be at which place, and how many writes
  its section still takes; with it the types are kept.
* `Exclusion`: whoever is at the buffer or stores a chunk holds the mutex, and
  every way out of `Write` and of the flush of `Close` gives it back.
* `NothingIsLost`: what was hashed, then what of the buffer is not hashed yet
  (`Unstored`), are but for padding the bytes accepted. Between hashing a chunk and
  taking it from the buffer its bytes are in both; whoever is there holds the
  mutex (`HolderUnstored`), so it is one goroutine at most. The encoders touch
  neither, so this needs no `met`.
* `IndexIsHashed`: until goroutines meet at the file, `FileInv`: one goroutine at
  most is there; the file's offset is where the writer takes it to be, behind
  every chunk, or else it is the place of the section being rewritten and `at`
  remembers the way back (`AtWork`); the entries lead to what was hashed. A write
  at the end then covers no chunk (`PutBehind`), and neither does one in place
  (`PutBefore`), as all chunks are behind `Home`. Failed writes are included:
  `GiveUp` goes back as well.
* `LoneClose`: a `Close` that has stayed alone has an empty buffer once past its
  flush (`LoneInv`); what it has copied into tables and hash sections is what
  there still is (`Gathered`), and what its image leads to is never overwritten
  while nobody has met (`FileInv`).

### The readers

`TypeOK` of a reader says more than types: a call that is at a table is at one
its segment has, no sector number it computes is negative, and a call gives no
more bytes than it was asked for. A proof must follow what one call leaves for
another, over every failure and retry. `Inv` is:

* `SegmentOK` for each segment: `tableOffsets` has fewer offsets than there are
  tables, so that the table the binary search finds (`TableOf`, `Turns`) exists;
  a segment without a table has no sector; one that is not decoded counts none.
  `AddTables` keeps this when a decoding that failed is retried and appends what
  is already there.
* `Linked`: the first sector of a segment is 0 (decoded before the one in front
  of it) or the one behind that segment.
* `Behind` and `Fits`: a call that looks for its segment has a sector that is not
  in those it has passed; one that is in a segment is at a table of it, and what
  it will want of the segments after it begins behind it. In EVF1, where an entry
  is counted from the beginning of its table (`counted`), the sector it is at is
  not in front of that table.
* `Later`: what another call may do to a segment in between. Once a segment is
  decoded only its cursor and the entries of its tables change, so `Fits` of the
  calls that do not step is kept (`Stays`).

`RightWhenIntact` is about what a call returns, and needs what the bytes it holds
are while it is under way. `Inv /\ More` is inductive; TLC checked `More` on both
readers before it was proved. `More` says of

* segments (`Kept`): what `Decode` has made of one is the first tables of its
  file, in their order, each with the sector it starts at (`TablesUpTo`), or shows
  that it is not: too many tables, or one with a wrong first sector (`Damaged`).
  EVF2 starts over after a failure, so this is about decoded segments; EVF1 goes
  on at the cursor, so it also says of the others that their tables are those
  before the cursor (`TablesDone`). The sums over earlier files and tables are
  recursive functions, so `Begins` and `Start` have lemmas by induction;
* the whole (`Sane`, `Pristine`): the files are all of the image in order, decoded
  segments have all their tables (`GoodSegment`), and entries are not read or read
  whole, except those a call is reading (`Filled`). `IntactIsPristine` shows that
  `Intact`, which the property assumes, implies it;
* a call that has run alone (`Goes`, `Progress`): if `Sane`, it holds exactly the
  bytes of the image from the sector it began in to the one it is at (`Holds`),
  wants what is left of the range (`Going`), and is at the table and chunk that
  hold its next sector. `PieceOfChunk` and `ReadsOn` carry this over one chunk;
  `FinishMore` cuts the bytes of whole sectors to the bytes asked for;
* a call that has ended alone (`WentRight`): if `Pristine`, its result is right.

A step of a call that is alone could make an insane reader sane again only by
decoding or reading entries afresh. `SaneBefore` shows that it does not: what is
damaged stays so, since tables are only appended and entries once read are kept.
Another client's step ends `alone`, so only one call has to be followed.

Each action of `EwfReader` has a lemma (`FindOK`, `NextTableOK`, ...), with the
steps that end a call in lemmas of their own (`GotoOK`, `FaultOK`, `EndOK`). They
take from the format only what `DecodesTo` and `GivesBytes` say of its decoding
and reading, so `NextEvf1OK` and `NextEvf2OK` need just the lemmas of those. The
module extends `Evf1Reader` and instantiates `Evf2Reader`; the lemmas `Evf2...`,
one for a definition, say that what the two share through `EwfReader` is the same.

`ImplementsReads` is a refinement: the reader, seen through its position and its
last answer, is `EwfReads`. It is about one client (the position is shared, and
with two of them a `Read` need not end where it thinks), which is given the files
of the whole image in any order (`AllGiven`; what is proved of fewer files is
`RightWhenIntact`). The argument of `EwfReadsProofs` has three parts.

* *What a step does to what the client sees* (`Moved`): nothing, or it is a call's
  beginning, a `Seek`, or an end (`Moves`). Each action has a lemma, as above.
* *What is known at an end.* `Course`: the call is still alone, a `Read` began at
  the position where it ends (no other call moves it), and a failed read of the
  file is behind a call only where one may fail. `Clean`: as long as no read has
  failed and nobody asked for a segment (`Unharmed`), each segment is new or was
  decoded once, behind the one before it. With every file given, the sorted list
  is the image (`SortedAll`), decoding a new segment gives all its tables
  (`DecodeEvf1New`, `DecodeEvf2New`, by `AfterAllSections` and `AllTables`), and
  readers decode in order because `calculateIndex` does (`Behind`). So `Sound`,
  the refinement's condition, implies `Pristine`: either it is `Intact`, or
  `Unharmed` and then `Clean` says so (`GoodAnswers`).
* *The mapping* (`Simulates`): the running call and its arguments (`Asked`) are
  `request`. The end of a `Read`, a `ReadAt` or a `Segment` is the `ReadStep`,
  `ReadAtStep` or `SegmentStep` of `EwfReads`, whose answer is right because
  `WentRight` holds in the state after it; since `Course` knows the position a
  `Read` began at, the move at its end is by what it gave from there. A call's
  beginning is a `CallStep`; `Seek`, when no call runs, a `SeekStep`; every other
  step changes neither position, request nor answer.

### The command line

`CliInv`: the types; `Copied`, that what has been written is the wanted range's
beginning; that what is held of a sector lies in the image; and, for `dump`, that
the loop neither passes the end of the range nor ends before it without a
failure, and, for `create`, that an unchanged source is read to the size declared.
The lemmas about `EwfReadAt` bound what one call returns: a beginning of the
range asked for, as long as the image has it.

### The metadata codecs

`PlainSurvives` and `KeysAlwaysSurvive` are about text: `Encode` joins words
with tabs and lines with line ends, in any order of the map, and `Decode` splits
again. The argument is: splitting a concatenation at a delimiter that lies
between two parts gives the two splits (`Splits...`); so splitting what was
joined gives the parts back when no part has the delimiter in it (`Join...`);
the text has exactly the lines the code writes (`FourLines`, `EncodedLines`); the
fields of the key line enumerate the map's keys once, so a map built from both
lines is the map encoded (`Fields...`, `ToMapOfKeys`). Values may hold
delimiters: for `KeysSurvive` only the key line, which no value is part of,
must come back. `CodecInv` carries the types, that the map is finite, that what
was written is an encoding of it, and the two properties. Words are a constant
set rather than strings, since the provers cannot show that a literal is a string.

### Model-checked only

* `ClosedImageIsComplete`, `PublishesAtomically`, `NeverWrongData`: they are
  about `Image`, which walks the file's descriptors by recursive operators (in
  modules without theorems, as `RECURSIVE` takes the provers' arithmetic away).
* `EveryCallReturns`, `CommandsEnd`: liveness under fairness.
* The three disagreements, each a counterexample of TLC.

## 5. Not modelled

* Checksums, and with them data that is corrupt rather than missing; that the
  checksum of a torn descriptor may happen to be right; BZip2 and
  the decompressors' own errors; EVF2 pattern-fill chunks (no writer of the
  repository makes them).
* A `Seek` that fails, of the destination or of a segment file.
* Images other programs wrote: a last chunk shorter than the others, first chunk
  numbers counted over the whole image.
* Calls that overlap, as to descriptors: `WriterLocking` has the writes of two
  `Close`s, or of a `Close` and a `Write`, that interleave in the file, but not the
  links of their sections, and once they do no property speaks of the file.
* Command line: options, `info`, messages and progress, a first file that is not
  number 1, and `dump`'s attempt to open a file as EVF1 when EVF2 failed.
* Text that is not UTF-8; key tables are cut to a few keys.
* Tests, documents and test data, which were read for what they say of the code.
