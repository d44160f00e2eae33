---------------------------- MODULE VersionEdit ----------------------------
(***************************************************************************)
(* db/version_edit.cc: the records of a manifest.                          *)
(***************************************************************************)
EXTENDS Coding, FiniteSets

kNumLevels == 7

\* enum Tag
kComparator == 1
kLogNumber == 2
kNextFileNumber == 3
kLastSequence == 4
kCompactPointer == 5
kDeletedFile == 6
kNewFile == 7
kPrevLogNumber == 9

\* A number that is not set (has_log_number_ and its like are false)
Absent == -1

\* VersionEdit::Clear; a comparator with no name is not set
Clear ==
  [comparator |-> <<>>, log |-> Absent, prev |-> Absent, next |-> Absent, last |-> Absent,
   pointers |-> <<>>, deleted |-> {}, new |-> <<>>]

\* The pairs of a std::set, in its order
RECURSIVE InOrder(_)
InOrder(pairs) ==
  IF pairs = {} THEN <<>>
  ELSE LET p == CHOOSE a \in pairs : \A b \in pairs : a[1] < b[1] \/ (a[1] = b[1] /\ a[2] <= b[2])
       IN <<p>> \o InOrder(pairs \ {p})

RECURSIVE Concatenated(_)
Concatenated(parts) == IF parts = <<>> THEN <<>> ELSE parts[1] \o Concatenated(Tail(parts))

NumberField(tag, v) == IF v = Absent THEN <<>> ELSE PutVarint32(tag) \o PutVarint64(v)

EncodePointer(p) == PutVarint32(kCompactPointer) \o PutVarint32(p[1]) \o PutLengthPrefixedSlice(p[2])
EncodeDeleted(p) == PutVarint32(kDeletedFile) \o PutVarint32(p[1]) \o PutVarint64(p[2])
EncodeNew(f) ==
  PutVarint32(kNewFile) \o PutVarint32(f.level) \o PutVarint64(f.number) \o PutVarint64(f.size)
    \o PutLengthPrefixedSlice(f.smallest) \o PutLengthPrefixedSlice(f.largest)

\* VersionEdit::EncodeTo
EncodeTo(e) ==
  LET deleted == InOrder(e.deleted)
  IN (IF e.comparator = <<>> THEN <<>> ELSE PutVarint32(kComparator) \o PutLengthPrefixedSlice(e.comparator))
       \o NumberField(kLogNumber, e.log) \o NumberField(kPrevLogNumber, e.prev)
       \o NumberField(kNextFileNumber, e.next) \o NumberField(kLastSequence, e.last)
       \o Concatenated([i \in 1 .. Len(e.pointers) |-> EncodePointer(e.pointers[i])])
       \o Concatenated([i \in 1 .. Len(deleted) |-> EncodeDeleted(deleted[i])])
       \o Concatenated([i \in 1 .. Len(e.new) |-> EncodeNew(e.new[i])])

\* GetLevel: a level the database does not have is refused
GetLevel(input) ==
  LET v == GetVarint32(input) IN [v EXCEPT !.ok = v.ok /\ v.value < kNumLevels]

\* What follows each tag
Layout(tag) ==
  CASE tag = kComparator -> <<"slice">>
    [] tag \in {kLogNumber, kPrevLogNumber, kNextFileNumber, kLastSequence} -> <<"number">>
    [] tag = kCompactPointer -> <<"level", "slice">>
    [] tag = kDeletedFile -> <<"level", "number">>
    [] tag = kNewFile -> <<"level", "number", "number", "slice", "slice">>

GetField(kind, input) ==
  CASE kind = "level" -> GetLevel(input)
    [] kind = "number" -> GetVarint64(input)
    [] kind = "slice" -> GetLengthPrefixedSlice(input)

\* The operands of &&, left to right until one fails
RECURSIVE GetFields(_, _, _)
GetFields(kinds, input, values) ==
  IF kinds = <<>> THEN [ok |-> TRUE, value |-> values, rest |-> input]
  ELSE LET f == GetField(kinds[1], input)
       IN IF f.ok THEN GetFields(Tail(kinds), f.rest, Append(values, f.value))
          ELSE [ok |-> FALSE, value |-> values, rest |-> f.rest]

\* The body of each case of DecodeFrom
SetField(e, tag, v) ==
  CASE tag = kComparator -> [e EXCEPT !.comparator = v[1]]
    [] tag = kLogNumber -> [e EXCEPT !.log = v[1]]
    [] tag = kPrevLogNumber -> [e EXCEPT !.prev = v[1]]
    [] tag = kNextFileNumber -> [e EXCEPT !.next = v[1]]
    [] tag = kLastSequence -> [e EXCEPT !.last = v[1]]
    [] tag = kCompactPointer -> [e EXCEPT !.pointers = Append(@, v)]
    [] tag = kDeletedFile -> [e EXCEPT !.deleted = @ \cup {v}]
    [] tag = kNewFile ->
         [e EXCEPT !.new = Append(@, [level |-> v[1], number |-> v[2], size |-> v[3],
                                      smallest |-> v[4], largest |-> v[5]])]

Tags == {kComparator, kLogNumber, kPrevLogNumber, kNextFileNumber, kLastSequence,
         kCompactPointer, kDeletedFile, kNewFile}

\* The loop of VersionEdit::DecodeFrom: an unknown tag, a field cut short and
\* bytes that are no tag end it with an error
RECURSIVE DecodeRest(_, _)
DecodeRest(input, e) ==
  LET tag == GetVarint32(input)
      f == GetFields(Layout(tag.value), tag.rest, <<>>)
  IN IF ~tag.ok THEN [ok |-> input = <<>>, edit |-> e]
     ELSE IF tag.value \notin Tags THEN [ok |-> FALSE, edit |-> e]
     ELSE IF ~f.ok THEN [ok |-> FALSE, edit |-> e]
     ELSE DecodeRest(f.rest, SetField(e, tag.value, f.value))

DecodeFrom(src) == DecodeRest(src, Clear)

-----------------------------------------------------------------------------
SampleFile(level, number) ==
  [level |-> level, number |-> number, size |-> 300, smallest |-> <<1, 0>>, largest |-> <<2, 130>>]

SampleEdits ==
  {[comparator |-> c, log |-> l, prev |-> p, next |-> 128, last |-> s, pointers |-> ptr,
    deleted |-> d, new |-> n] :
     c \in {<<>>, <<108, 100>>}, l \in {Absent, 0, 16384}, p \in {Absent, 0}, s \in {0, 127},
     ptr \in {<<>>, <<<<1, <<5>>>>, <<2, <<>>>>>>}, d \in {{}, {<<0, 9>>, <<6, 300>>}},
     n \in {<<>>, <<SampleFile(0, 3), SampleFile(6, 200)>>}}

\* A manifest record comes back as it was written (EncodeTo, DecodeFrom)
ASSUME EditsRoundTrip ==
  \A e \in SampleEdits : DecodeFrom(EncodeTo(e)) = [ok |-> TRUE, edit |-> e]

\* A record that is cut short is refused, or is what was written before the cut
\* at the end of a field: nothing is ever made up (DecodeFrom)
ASSUME CutEditsAreRefused ==
  \A e \in SampleEdits :
    LET b == EncodeTo(e)
    IN \A k \in 0 .. Len(b) - 1 :
         LET d == DecodeFrom(SubSeq(b, 1, k))
         IN d.ok => EncodeTo(d.edit) = SubSeq(b, 1, k)

\* A level beyond the last one and an unknown tag are refused (GetLevel)
ASSUME StrangeEditsAreRefused ==
  /\ ~DecodeFrom(EncodeTo([Clear EXCEPT !.new = <<SampleFile(kNumLevels, 3)>>])).ok
  /\ ~DecodeFrom(EncodeTo([Clear EXCEPT !.deleted = {<<kNumLevels, 3>>}])).ok
  /\ \A t \in {0, 8, 10, 300} : ~DecodeFrom(PutVarint32(t) \o <<1>>).ok

=============================================================================
