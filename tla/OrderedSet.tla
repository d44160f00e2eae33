----------------------------- MODULE OrderedSet -----------------------------
(***************************************************************************)
(* What the comments of db/skiplist.h promise: an ordered set that grows   *)
(* one key at a time, and iterators.  A call is made, takes effect at one  *)
(* instant before it returns, and answers with what the set holds at that  *)
(* instant.  0 and N + 1 stand before and after every key; N + 1 is also   *)
(* the position of an iterator that is not valid.                          *)
(***************************************************************************)
EXTENDS Naturals

CONSTANTS N,             \* the keys are 1 .. N
          Iterators      \* the iterators over the set

VARIABLES keys,          \* the keys in the set
          pos,           \* the position of each iterator
          call,          \* the call each iterator is in, with its target
          inserting      \* the key of the Insert under way, or 0

setVars == <<keys, pos, call, inserting>>

End == N + 1
NoCall == <<"none">>

SetInit ==
  /\ keys = {} /\ inserting = 0
  /\ pos = [i \in Iterators |-> End]
  /\ call = [i \in Iterators |-> NoCall]

\* n is the first key of the set at or after t, or the end when there is none
IsCeiling(n, t) ==
  n \in keys \cup {End} /\ n >= t /\ \A k \in keys : k >= t => n <= k

\* n is the last key of the set before t, or the end when there is none
IsPredecessor(n, t) ==
  \/ n \in keys /\ n < t /\ \A k \in keys : k < t => k <= n
  \/ n = End /\ \A k \in keys : k >= t

-----------------------------------------------------------------------------
(* Insert: it is called, the key is in the set at once, it returns.        *)

CallInsert(k) ==
  inserting = 0 /\ k \notin keys /\ inserting' = k /\ UNCHANGED <<keys, pos, call>>

TakeEffect ==
  /\ inserting # 0 /\ inserting \notin keys
  /\ keys' = keys \cup {inserting}
  /\ inserting' \in {inserting, 0}
  /\ UNCHANGED <<pos, call>>

InsertReturns == inserting \in keys /\ inserting' = 0 /\ UNCHANGED <<keys, pos, call>>

-----------------------------------------------------------------------------
(* Iterators: Next and Prev need a position.                               *)

Calls(i) ==
  {<<"Seek", t>> : t \in 1 .. N} \cup {<<"First">>, <<"Last">>}
    \cup IF pos[i] = End THEN {} ELSE {<<"Next">>, <<"Prev">>}

Call(i) ==
  /\ call[i] = NoCall
  /\ \E c \in Calls(i) : call' = [call EXCEPT ![i] = c]
  /\ UNCHANGED <<keys, pos, inserting>>

\* n answers the call the iterator is in
IsAnswer(i, n) ==
  \/ \E t \in 1 .. N : call[i] = <<"Seek", t>> /\ IsCeiling(n, t)
  \/ call[i] = <<"First">> /\ IsCeiling(n, 0)
  \/ call[i] = <<"Last">> /\ IsPredecessor(n, End)
  \/ call[i] = <<"Next">> /\ IsCeiling(n, pos[i] + 1)
  \/ call[i] = <<"Prev">> /\ IsPredecessor(n, pos[i])

Answer(i) ==
  /\ \E n \in 1 .. End : IsAnswer(i, n) /\ pos' = [pos EXCEPT ![i] = n]
  /\ call' = [call EXCEPT ![i] = NoCall]
  /\ UNCHANGED <<keys, inserting>>

SetNext ==
  \/ \E k \in 1 .. N : CallInsert(k)
  \/ TakeEffect \/ InsertReturns
  \/ \E i \in Iterators : Call(i) \/ Answer(i)

SetSpec == SetInit /\ [][SetNext]_setVars

=============================================================================
