--------------------------- MODULE SnapshotCursor ---------------------------
(***************************************************************************)
(* What an iterator of the database promises (include/leveldb/iterator.h,  *)
(* db.h): it walks through the keys of one snapshot in their order, in     *)
(* both directions, and shows the value the snapshot has for each, unless  *)
(* status() says that something could not be read.                         *)
(***************************************************************************)
EXTENDS Sequences

CONSTANTS Targets,              \* what may be sought
          Before(_, _),         \* the order of the keys
          None

VARIABLES contents,     \* the snapshot: a function from keys to values
          shown,        \* <<key, value>>, or None when not Valid()
          ok,           \* status().ok()
          call          \* the last call

Least(S) ==
    IF S = {} THEN None
    ELSE LET k == CHOOSE x \in S : \A y \in S \ {x} : Before(x, y) IN <<k, contents[k]>>
Greatest(S) ==
    IF S = {} THEN None
    ELSE LET k == CHOOSE x \in S : \A y \in S \ {x} : Before(y, x) IN <<k, contents[k]>>
Keys == DOMAIN contents

Init == shown = None /\ call = <<"new">>

\* A call answers with `s', unless it reports an error, now or since an
\* earlier call.
Answers(c, s) ==
    /\ call' = c /\ UNCHANGED contents
    /\ ~ok => ~ok'
    /\ ok' => shown' = s

SeekToFirst == Answers(<<"SeekToFirst">>, Least(Keys))
SeekToLast == Answers(<<"SeekToLast">>, Greatest(Keys))
Seek(t) == Answers(<<"Seek", t>>, Least({k \in Keys : ~Before(k, t)}))
Next == shown # None /\ Answers(<<"Next">>, Least({k \in Keys : Before(shown[1], k)}))
Prev == shown # None /\ Answers(<<"Prev">>, Greatest({k \in Keys : Before(k, shown[1])}))

Calls == SeekToFirst \/ SeekToLast \/ (\E t \in Targets : Seek(t)) \/ Next \/ Prev
Spec == Init /\ [][Calls]_<<contents, shown, ok, call>>
=============================================================================
