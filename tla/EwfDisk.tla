------------------------------ MODULE EwfDisk ------------------------------
(***************************************************************************)
(* The destination file of an image writer, as go-ewf uses it: an          *)
(* io.WriteSeeker (EVF1) or io.Writer (EVF2) that stores bytes at a         *)
(* position.  Its contents are a set of extents [at, len, obj]: the bytes  *)
(* at .. at+len-1 hold the encoding of obj.  An extent of which any byte   *)
(* is overwritten no longer decodes, so it leaves the set.                 *)
(*                                                                         *)
(* The device is not part of the repository; what is modelled is what the  *)
(* writers rely on: a write that succeeds stores all its bytes, a write    *)
(* that fails stores a prefix of them, and a Seek does not fail.           *)
(***************************************************************************)
EXTENDS Integers

\* What a torn write leaves behind: bytes that decode to nothing.
Torn == [kind |-> "torn"]

\* The file after n bytes that encode object o are stored at position p.
Put(disk, p, n, o) ==
    {e \in disk : e.at + e.len <= p \/ p + n <= e.at}
      \cup {e \in {[at |-> p, len |-> n, obj |-> o]} : n > 0}

\* The file after a write at p that failed when k bytes were stored.
Tear(disk, p, k) == Put(disk, p, k, Torn)

\* Whether exactly n bytes at p encode one object of kind k, and that object.
Holds(disk, p, k) == \E e \in disk : e.at = p /\ e.obj.kind = k
ObjAt(disk, p) == (CHOOSE e \in disk : e.at = p).obj
LenAt(disk, p) == (CHOOSE e \in disk : e.at = p).len

\* What a reader makes of the file: nothing, or what ReadAt returns for each
\* chunk of its Size(), <<>> for an error, and the sums of its hash sections.
NoImage == [opened |-> FALSE]
ImageOf(chunks, hashes) == [opened |-> TRUE, chunks |-> chunks, hashes |-> hashes]
=============================================================================
