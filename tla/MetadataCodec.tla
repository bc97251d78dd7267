--------------------------- MODULE MetadataCodec ---------------------------
(***************************************************************************)
(* The texts that carry the metadata of an image: the EVF1 header, and the *)
(* EVF2 case data and device information.  A map of short keys to values   *)
(* is written as four lines: a number of objects, a name, the keys and the *)
(* values, with a tab between two keys or values, in whatever order Go     *)
(* goes through the map.  Nothing in a value is escaped.                   *)
(*                                                                         *)
(* A text is a sequence of tokens: a tab, an end of line, a carriage       *)
(* return, or any other characters that go together.  Compression, padding *)
(* and the descriptor are in Evf1Writer and Evf2Writer.                    *)
(***************************************************************************)
EXTENDS Integers, FiniteSets, SequencesExt

CONSTANTS
    Kinds,     \* among "header", "caseData", "deviceInformation"
    Known,     \* Known[kind]: the keys its table of identifiers has
    Preset,    \* Preset[kind]: the keys that CreateEWF sets
    Own,       \* Own[kind]: the keys that Start sets
    Others,    \* keys that no table has
    Words,     \* the characters that go together, in keys and values
    Values,    \* values that the caller may give
    MaxAdds    \* bound: calls of AddMediaInfo, AddCaseData, AddDeviceInformation

Tab == "tab"
NewLine == "newline"
Return == "return"
Mark == "byte order mark"

Token == {Tab, NewLine, Return, Mark, "1", "main", "number"} \cup Words

ASSUME MetadataAssumption ==
    /\ Kinds \subseteq {"header", "caseData", "deviceInformation"}
    /\ \A k \in Kinds : /\ IsFiniteSet(Known[k]) /\ Known[k] \cap Others = {}
                        /\ Preset[k] \cup Own[k] \subseteq Known[k]
                        /\ Known[k] \cup Others \subseteq Words
    /\ Words \cap {Tab, NewLine, Return} = {}
    /\ Values \subseteq Seq(Token)
    /\ MaxAdds \in Nat

VARIABLES
    kind,     \* the section
    phase,    \* "adding", "written", and then what Decode comes to: "decoded", "error", "panic"
    given,    \* MediaInfo or KeyValue of the writer's section
    adds,     \* number of keys added
    text,     \* the section's text
    read      \* what Decode leaves: number of objects, name, MediaInfo or KeyValue

vars == <<kind, phase, given, adds, text, read>>

Empty == <<>>
Number == <<"number">>     \* what strconv.FormatInt gives
NoMap == [k \in {} |-> Empty]
NoSection == [objects |-> Empty, name |-> Empty, map |-> NoMap]

\* strings.Join and bytes.Split.
Join(parts, delim) ==
    FlattenSeq([i \in DOMAIN parts |-> IF i = 1 THEN parts[i] ELSE <<delim>> \o parts[i]])

Split(t, delim) ==
    LET split[n \in 0..Len(t)] ==
          IF n = 0 THEN <<Empty>>
          ELSE LET parts == split[n - 1]
               IN  IF t[n] = delim THEN Append(parts, Empty)
                   ELSE [parts EXCEPT ![Len(parts)] = Append(@, t[n])]
    IN  split[Len(t)]

TrimReturn(t) == IF t # Empty /\ Last(t) = Return THEN Front(t) ELSE t

Init ==
    /\ kind \in Kinds /\ phase = "adding" /\ adds = 0
    /\ given = [k \in Preset[kind] |-> Empty]
    /\ text = Empty /\ read = NoSection

\* A Go map, when each value of another is stored in it.
Over(values, map) ==
    [k \in DOMAIN values \cup DOMAIN map |-> IF k \in DOMAIN values THEN values[k] ELSE map[k]]

Add ==
    /\ phase = "adding" /\ adds < MaxAdds
    /\ \E k \in Known[kind] \cup Others, v \in Values : given' = Over([x \in {k} |-> v], given)
    /\ adds' = adds + 1
    /\ UNCHANGED <<kind, phase, text, read>>

\* Mutant: keys and values come from two traversals of the map.
EncodedTwice(map, keys) ==
    LET values == [i \in DOMAIN keys |-> map[keys[Len(keys) + 1 - i]]]
    IN  (IF kind = "header" THEN Empty ELSE <<Mark>>)
          \o <<"1", NewLine, "main", NewLine>>
          \o Join([i \in DOMAIN keys |-> <<keys[i]>>], Tab) \o <<NewLine>>
          \o Join(values, Tab) \o <<NewLine>>
          \o (IF kind = "header" THEN Empty ELSE <<NewLine>>)

\* The text of a map whose keys come in the given order.
Encoded(map, keys) ==
    LET values == [i \in DOMAIN keys |-> map[keys[i]]]
    IN  (IF kind = "header" THEN Empty ELSE <<Mark>>)
          \o <<"1", NewLine, "main", NewLine>>
          \o Join([i \in DOMAIN keys |-> <<keys[i]>>], Tab) \o <<NewLine>>
          \o Join(values, Tab) \o <<NewLine>>
          \o (IF kind = "header" THEN Empty ELSE <<NewLine>>)

\* Start: its own keys, over the caller's, and Encode.
Start ==
    /\ phase = "adding" /\ phase' = "written"
    /\ given' = Over([k \in Own[kind] |-> Number], given)
    /\ \E keys \in SetToSeqs(DOMAIN given') : text' = Encoded(given', keys)
    /\ UNCHANGED <<kind, adds, read>>

\* Mutant: no key whose value is empty.
ToMapFilled(keys, values) ==
    [k \in {keys[i] : i \in {j \in DOMAIN keys : values[j] # Empty}} |->
       values[Max({i \in DOMAIN keys : keys[i] = k})]]

\* shared.ToMap, if there is a value for every key.
ToMap(keys, values) ==
    [k \in ToSet(keys) |-> values[Max({i \in DOMAIN keys : keys[i] = k})]]

\* Mutant: a key that the table does not have is kept, unless it is empty.
UnknownKept(keys) == {i \in DOMAIN keys : keys[i] = Empty}

\* Where there is a key that the table of identifiers does not have.
Unknown(keys) == {i \in DOMAIN keys : keys[i] \notin {<<k>> : k \in Known[kind]}}

\* Decode: all lines behind the fourth are ignored.  The mark goes through the
\* conversion from UTF-16 and is the first character of the number of objects.
Decode ==
    /\ phase = "written"
    /\ LET lines == Split(text, NewLine)
           attrs(i) == LET split == Split(lines[i], Tab)
                       IN  [j \in DOMAIN split |-> TrimReturn(split[j])]
           keys == attrs(3)
           values == attrs(4)
           unknown == Unknown(keys)
           section == [objects |-> <<Head(Last(attrs(1)))>>, name |-> Last(attrs(2)), map |-> NoMap]
       IN  \/ /\ unknown # {} /\ phase' = "error" /\ read' = section
           \/ /\ unknown = {} /\ Len(values) < Len(keys)
              /\ phase' = "panic" /\ read' = section
           \/ /\ unknown = {} /\ Len(values) >= Len(keys) /\ phase' = "decoded"
              /\ read' = [section EXCEPT !.map = ToMap([i \in DOMAIN keys |-> keys[i][1]], values)]
    /\ UNCHANGED <<kind, given, adds, text>>

Next == Add \/ Start \/ Decode

Spec == Init /\ [][Next]_vars

(***************************************************************************)
(* Properties.                                                             *)
(***************************************************************************)
TypeOK ==
    /\ kind \in Kinds /\ phase \in {"adding", "written", "decoded", "error", "panic"}
    /\ DOMAIN given \subseteq Known[kind] \cup Others /\ adds \in 0..MaxAdds
    /\ text \in Seq(Token)
    /\ read.objects \in Seq(Token) /\ read.name \in Seq(Token)
    /\ \A k \in DOMAIN read.map : k \in Known[kind] /\ read.map[k] \in Seq(Token)

Tried == phase \in {"decoded", "error", "panic"}

\* A value that keeps to one field of the text.
Plain(v) == (\A i \in DOMAIN v : v[i] \notin {Tab, NewLine}) /\ (v = Empty \/ Last(v) # Return)

\* A map of known keys and plain values, which in EVF1 must not be empty, is
\* read back as it was given, in whatever order it was written; and the numbers
\* the reader computes the size of the image from are those of Start, whatever
\* the caller has set them to.
PlainMetadataSurvives ==
    Tried /\ given # NoMap /\ DOMAIN given \subseteq Known[kind]
      /\ (\A k \in DOMAIN given : Plain(given[k]))
      => /\ phase = "decoded" /\ read.map = given
         /\ \A k \in Own[kind] : read.map[k] = Number

\* Whatever is in the values, a section that is read has the keys it was given,
\* all of them, and its name: a value never becomes a key, and none is dropped.
KeysSurvive ==
    phase = "decoded" => DOMAIN read.map = DOMAIN given /\ read.name = <<"main">>
=============================================================================
