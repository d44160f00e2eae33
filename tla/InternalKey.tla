---------------------------- MODULE InternalKey ----------------------------
(***************************************************************************)
(* Keys: the bytewise comparator (util/comparator.cc) and the internal     *)
(* keys of db/dbformat.h and .cc with their comparator.                    *)
(*                                                                         *)
(* A key is a sequence of bytes 0..kMaxByte.  An internal key is a user    *)
(* key with its tag, which PutFixed64 writes with the type first and the   *)
(* sequence number behind it; the number takes one place here, 7 there.    *)
(***************************************************************************)
EXTENDS Integers, Sequences, FiniteSetsExt

CONSTANTS kMaxByte,               \* 0xff
          kMaxSequenceNumber      \* 2^56 - 1

kTypeDeletion == 0
kTypeValue == 1
kValueTypeForSeek == kTypeValue
kTagLength == 2

Sign(n) == IF n < 0 THEN -1 ELSE IF n > 0 THEN 1 ELSE 0
MinLength(a, b) == IF Len(a) < Len(b) THEN Len(a) ELSE Len(b)
\* How many bytes two strings have in common.
CommonPrefix(a, b) ==
    Min({i \in 1..MinLength(a, b) : a[i] # b[i]} \cup {MinLength(a, b) + 1}) - 1

-----------------------------------------------------------------------------
(* BytewiseComparatorImpl.                                                 *)

UserCompare(a, b) ==
    LET n == CommonPrefix(a, b)
    IN IF n = MinLength(a, b) THEN Sign(Len(a) - Len(b)) ELSE Sign(a[n + 1] - b[n + 1])

\* A string at least `start' and below `limit', shorter where that is easy.
UserShortestSeparator(start, limit) ==
    LET d == CommonPrefix(start, limit) + 1
    IN IF d > MinLength(start, limit) THEN start
       ELSE IF start[d] < kMaxByte /\ start[d] + 1 < limit[d]
       THEN Append(SubSeq(start, 1, d - 1), start[d] + 1)
       ELSE start

UserShortSuccessor(key) ==
    LET free == {i \in DOMAIN key : key[i] # kMaxByte}
    IN IF free = {} THEN key
       ELSE Append(SubSeq(key, 1, Min(free) - 1), key[Min(free)] + 1)

-----------------------------------------------------------------------------
(* Internal keys.                                                          *)

AppendInternalKey(user_key, seq, type) == user_key \o <<type, seq>>
ExtractUserKey(key) == SubSeq(key, 1, Len(key) - kTagLength)
Sequence(key) == key[Len(key)]
ValueType(key) == key[Len(key) - 1]
ParseInternalKey(key) == Len(key) >= kTagLength /\ ValueType(key) <= kTypeValue
\* The tag as a number (PackSequenceAndType).
Tag(key) == Sequence(key) * 256 + ValueType(key)
LookupKey(user_key, seq) == AppendInternalKey(user_key, seq, kValueTypeForSeek)

\* User keys ascend; of one user key the newest entry comes first.
Compare(a, b) ==
    LET r == UserCompare(ExtractUserKey(a), ExtractUserKey(b))
    IN IF r # 0 THEN r ELSE Sign(Tag(b) - Tag(a))

\* The shorter user key gets the tag that sorts before all its entries.
Shortened(key, user_key) ==
    IF Len(user_key) < Len(ExtractUserKey(key)) /\ UserCompare(ExtractUserKey(key), user_key) < 0
    THEN AppendInternalKey(user_key, kMaxSequenceNumber, kValueTypeForSeek)
    ELSE key
FindShortestSeparator(start, limit) ==
    Shortened(start, UserShortestSeparator(ExtractUserKey(start), ExtractUserKey(limit)))
FindShortSuccessor(key) == Shortened(key, UserShortSuccessor(ExtractUserKey(key)))
=============================================================================
