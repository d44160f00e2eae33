------------------------------- MODULE Coding -------------------------------
(***************************************************************************)
(* util/coding.h and util/coding.cc: integers and slices as bytes.         *)
(*                                                                         *)
(* A varint is its 7-bit groups, least significant first, so the groups    *)
(* are the representation: five of them hold a uint32 (the fifth keeps     *)
(* four bits) and ten a uint64 (the tenth keeps one).  Numbers as numbers  *)
(* stay below 2^31 here.  A parse returns [ok, value, rest].               *)
(***************************************************************************)
EXTENDS Integers, Sequences

\* The groups of a number, and the number they stand for
RECURSIVE Groups(_)
Groups(v) == IF v < 128 THEN <<v>> ELSE <<v % 128>> \o Groups(v \div 128)

RECURSIVE Number(_)
Number(g) == IF g = <<>> THEN 0 ELSE g[1] + 128 * Number(Tail(g))

\* EncodeVarint32 and EncodeVarint64: every byte but the last has its top bit set
EncodeGroups(g) == [i \in 1 .. Len(g) |-> IF i < Len(g) THEN g[i] + 128 ELSE g[i]]

PutVarint32(v) == EncodeGroups(Groups(v))
PutVarint64(v) == EncodeGroups(Groups(v))

RECURSIVE VarintLength(_)
VarintLength(v) == IF v >= 128 THEN 1 + VarintLength(v \div 128) ELSE 1

\* GetVarint32Ptr and GetVarint64Ptr: at most max bytes are looked at, and the
\* bits of the last group beyond the width of the result are shifted out
GetGroups(input, max, top) ==
  LET last == {i \in 1 .. Len(input) : i <= max /\ input[i] < 128 /\ \A j \in 1 .. i - 1 : input[j] >= 128}
  IN IF last = {} THEN [ok |-> FALSE, value |-> <<>>, rest |-> input]
     ELSE LET n == CHOOSE i \in last : TRUE
          IN [ok |-> TRUE,
              value |-> [i \in 1 .. n |-> IF i = max THEN (input[i] % 128) % top ELSE input[i] % 128],
              rest |-> SubSeq(input, n + 1, Len(input))]

GetVarint32Groups(input) == GetGroups(input, 5, 16)
GetVarint64Groups(input) == GetGroups(input, 10, 2)

GetVarint32(input) ==
  LET g == GetVarint32Groups(input) IN [g EXCEPT !.value = Number(g.value)]
GetVarint64(input) ==
  LET g == GetVarint64Groups(input) IN [g EXCEPT !.value = Number(g.value)]

PutLengthPrefixedSlice(s) == PutVarint32(Len(s)) \o s

\* GetLengthPrefixedSlice: on failure the length itself may have been consumed
GetLengthPrefixedSlice(input) ==
  LET n == GetVarint32(input)
  IN IF n.ok /\ Len(n.rest) >= n.value
     THEN [ok |-> TRUE, value |-> SubSeq(n.rest, 1, n.value),
           rest |-> SubSeq(n.rest, n.value + 1, Len(n.rest))]
     ELSE [ok |-> FALSE, value |-> <<>>, rest |-> n.rest]

\* EncodeFixed32 and EncodeFixed64, least significant byte first
RECURSIVE Fixed(_, _)
Fixed(v, bytes) == IF bytes = 0 THEN <<>> ELSE <<v % 256>> \o Fixed(v \div 256, bytes - 1)
PutFixed32(v) == Fixed(v, 4)
PutFixed64(v) == Fixed(v, 8)

RECURSIVE DecodeFixed(_)
DecodeFixed(b) == IF b = <<>> THEN 0 ELSE b[1] + 256 * DecodeFixed(Tail(b))
DecodeFixed32(b) == DecodeFixed(SubSeq(b, 1, 4))
DecodeFixed64(b) == DecodeFixed(SubSeq(b, 1, 8))

-----------------------------------------------------------------------------
\* Numbers at the edges of one, two, ... groups of either width
EdgeNumbers == {0, 1, 127, 128, 255, 256, 16383, 16384, 2097151, 2097152, 268435455, 268435456, 2147483647}
EdgeGroups(max, top) ==
  {g \in UNION {[1 .. n -> {0, 1, 127}] : n \in 1 .. max} :
     (Len(g) > 1 => g[Len(g)] # 0) /\ (Len(g) = max => g[max] < top)}
Followed(bytes) == bytes \o <<200, 7>>

\* What Put writes, Get reads back and leaves what follows it, at every length
\* of a 32-bit varint and at the greatest 64-bit one; every shorter input is
\* refused (GetVarint32Ptr, GetVarint64Ptr)
ASSUME VarintsRoundTrip ==
  /\ \A g \in EdgeGroups(5, 16) :
       /\ GetVarint32Groups(Followed(EncodeGroups(g))) = [ok |-> TRUE, value |-> g, rest |-> <<200, 7>>]
       /\ \A k \in 0 .. Len(g) - 1 : ~GetVarint32Groups(SubSeq(EncodeGroups(g), 1, k)).ok
  /\ LET greatest == [i \in 1 .. 10 |-> IF i = 10 THEN 1 ELSE 127]
     IN GetVarint64Groups(Followed(EncodeGroups(greatest))) = [ok |-> TRUE, value |-> greatest, rest |-> <<200, 7>>]
  /\ \A v \in EdgeNumbers :
       GetVarint32(PutVarint32(v)).value = v /\ VarintLength(v) = Len(PutVarint64(v))

\* Fixed-width integers and slices come back, and a slice whose length says
\* more than there is does not (DecodeFixed32, GetLengthPrefixedSlice)
ASSUME FixedAndSlicesRoundTrip ==
  /\ \A v \in EdgeNumbers : DecodeFixed32(PutFixed32(v)) = v /\ DecodeFixed64(PutFixed64(v)) = v
  /\ \A n \in {0, 1, 127, 128} :
       LET s == [i \in 1 .. n |-> i]
           b == PutLengthPrefixedSlice(s)
       IN /\ GetLengthPrefixedSlice(Followed(b)) = [ok |-> TRUE, value |-> s, rest |-> <<200, 7>>]
          /\ \A k \in 0 .. Len(b) - 1 : ~GetLengthPrefixedSlice(SubSeq(b, 1, k)).ok

=============================================================================
