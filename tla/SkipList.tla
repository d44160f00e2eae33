------------------------------ MODULE SkipList ------------------------------
(***************************************************************************)
(* db/skiplist.h under db/memtable.cc: the list of a memtable, written by  *)
(* one thread (the leader of the write queue) while readers search it      *)
(* without any lock, one pointer read at a time.                           *)
(*                                                                         *)
(* A node is its key, 1 .. N in the comparator's order.  0 is head_, N + 1 *)
(* is NULL ("NULL n is considered infinite") and Wild the contents of an   *)
(* array the arena has just handed out.  A load of max_height_ has no      *)
(* barrier: a reader may see any value it ever held.  Loads and stores of  *)
(* next_ are acquire and release, so each is a step of its own.            *)
(***************************************************************************)
EXTENDS Arena

CONSTANTS N,             \* the keys that may be added
          MaxHeight,     \* kMaxHeight
          Readers,       \* iterators, each used by one thread
          Writer,        \* the thread inside Insert
          EntrySizes     \* encoded lengths of entries (MemTable::Add)

ASSUME ListAssumption ==
  /\ N \in Nat
  /\ MaxHeight \in Nat \ {0}
  /\ Writer \notin Readers
  /\ EntrySizes \subseteq Nat \ {0}

VARIABLES
  next,          \* next_: node and level to node
  maxHeight,     \* max_height_
  heights,       \* the values max_height_ has held
  op,            \* the search each thread is in, or the stage of Insert
  key,           \* its target
  level,         \* its level
  at,            \* its x
  node,          \* node_ of each iterator
  prev,          \* prev of Insert
  height,        \* height of Insert
  arena,         \* arena_ of the memtable
  linked         \* history: the nodes published at each level

listVars == <<next, maxHeight, heights, linked, arena>>
insertVars == <<prev, height>>
vars == <<next, maxHeight, heights, op, key, level, at, node, prev, height, arena, linked>>

Head_ == 0
NULL == N + 1
Wild == N + 2
Keys == 1 .. N
Nodes == 0 .. N
Levels == 0 .. MaxHeight - 1
Threads == Readers \cup {Writer}

\* sizeof(Node) + sizeof(AtomicPointer) * (height - 1): the key and the links
NodeSize(h) == PointerSize * (h + 1)

\* SkipList::SkipList: head_ has every level, the list is one level high
Init ==
  /\ next = [n \in Nodes |-> [i \in Levels |-> IF n = Head_ THEN NULL ELSE Wild]]
  /\ maxHeight = 1
  /\ heights = {1}
  /\ op = [t \in Threads |-> "none"]
  /\ key = [t \in Threads |-> NULL]
  /\ level = [t \in Threads |-> 0]
  /\ at = [t \in Threads |-> Head_]
  /\ node = [r \in Readers |-> NULL]
  /\ prev = [i \in Levels |-> Head_]
  /\ height = 1
  /\ arena = AllocateAligned(NewArena, NodeSize(MaxHeight))
  /\ linked = [i \in Levels |-> {}]

KeyIsAfterNode(k, n) == n # NULL /\ n < k

Searches == {"Seek", "Prev", "Last", "Insert"}

\* The first lines of FindGreaterOrEqual, FindLessThan and FindLast
Begin(t, o, k, h) ==
  /\ op' = [op EXCEPT ![t] = o]
  /\ key' = [key EXCEPT ![t] = k]
  /\ at' = [at EXCEPT ![t] = Head_]
  /\ level' = [level EXCEPT ![t] = h - 1]

\* Iterator::Seek, of MemTable::Get and of MemTableIterator
Seek(r) ==
  /\ op[r] = "none"
  /\ \E k \in Keys, h \in heights : Begin(r, "Seek", k, h)
  /\ UNCHANGED <<listVars, insertVars, node>>

\* Iterator::Prev: the last node before the current key
Prev(r) ==
  /\ op[r] = "none" /\ node[r] # NULL
  /\ \E h \in heights : Begin(r, "Prev", node[r], h)
  /\ UNCHANGED <<listVars, insertVars, node>>

\* Iterator::SeekToLast: every node is before NULL
SeekToLast(r) ==
  /\ op[r] = "none"
  /\ \E h \in heights : Begin(r, "Last", NULL, h)
  /\ UNCHANGED <<listVars, insertVars, node>>

\* Iterator::SeekToFirst
SeekToFirst(r) ==
  /\ op[r] = "none"
  /\ op' = [op EXCEPT ![r] = "First"]
  /\ UNCHANGED <<listVars, insertVars, key, level, at, node>>

\* Iterator::Next
Next_(r) ==
  /\ op[r] = "none" /\ node[r] # NULL
  /\ op' = [op EXCEPT ![r] = "Next"]
  /\ UNCHANGED <<listVars, insertVars, key, level, at, node>>

\* The one read of SeekToFirst and of Next, and their return
Follow(r) ==
  /\ op[r] \in {"First", "Next"}
  /\ node' = [node EXCEPT ![r] = next[IF op[r] = "First" THEN Head_ ELSE node[r]][0]]
  /\ op' = [op EXCEPT ![r] = "none"]
  /\ UNCHANGED <<listVars, insertVars, key, level, at>>

\* x->Next(level), the read of every turn of a search
Ahead(t) == next[at[t]][level[t]]

\* Keep searching in this list
Advance(t) ==
  /\ op[t] \in Searches
  /\ KeyIsAfterNode(key[t], Ahead(t))
  /\ at' = [at EXCEPT ![t] = Ahead(t)]
  /\ UNCHANGED <<listVars, insertVars, op, key, level, node>>

\* Switch to the next list; Insert's search fills prev
Descend(t) ==
  /\ op[t] \in Searches
  /\ ~KeyIsAfterNode(key[t], Ahead(t))
  /\ level[t] # 0
  /\ level' = [level EXCEPT ![t] = @ - 1]
  /\ prev' = IF t = Writer THEN [prev EXCEPT ![level[t]] = at[t]] ELSE prev
  /\ UNCHANGED <<listVars, height, op, key, at, node>>

\* What the iterator is set to: FindGreaterOrEqual returns next, the others x,
\* and Prev and SeekToLast turn head_ into NULL
Found(r) ==
  IF op[r] = "Seek" THEN Ahead(r) ELSE IF at[r] = Head_ THEN NULL ELSE at[r]

\* (mutant) the search ends on the level it is on
ReturnOnAnyLevel(r) ==
  /\ op[r] \in Searches
  /\ ~KeyIsAfterNode(key[r], Ahead(r))
  /\ node' = [node EXCEPT ![r] = Found(r)]
  /\ op' = [op EXCEPT ![r] = "none"]
  /\ UNCHANGED <<listVars, insertVars, key, level, at>>

\* The return of a reader's search
Return(r) ==
  /\ op[r] \in Searches
  /\ ~KeyIsAfterNode(key[r], Ahead(r))
  /\ level[r] = 0
  /\ node' = [node EXCEPT ![r] = Found(r)]
  /\ op' = [op EXCEPT ![r] = "none"]
  /\ UNCHANGED <<listVars, insertVars, key, level, at>>

\* MemTable::Add up to the search of Insert: the entry's buffer is allocated.
\* No two entries have the same sequence number, so none has the same key.
Add(k, size) ==
  /\ op[Writer] = "none"
  /\ k \notin linked[0]
  /\ arena' = Allocate(arena, size)
  /\ Begin(Writer, "Insert", k, maxHeight)
  /\ UNCHANGED <<next, maxHeight, heights, linked, insertVars, node>>

\* The end of Insert's search
FoundPlace ==
  /\ op[Writer] = "Insert"
  /\ ~KeyIsAfterNode(key[Writer], Ahead(Writer))
  /\ level[Writer] = 0
  /\ prev' = [prev EXCEPT ![0] = at[Writer]]
  /\ op' = [op EXCEPT ![Writer] = "Raise"]
  /\ UNCHANGED <<listVars, height, key, level, at, node>>

\* RandomHeight, the store of max_height_ before any of the new levels has a
\* node, and NewNode
Raise(h) ==
  /\ op[Writer] = "Raise"
  /\ height' = h
  /\ prev' = [i \in Levels |-> IF maxHeight <= i /\ i < h THEN Head_ ELSE prev[i]]
  /\ maxHeight' = IF h > maxHeight THEN h ELSE maxHeight
  /\ heights' = heights \cup {maxHeight'}
  /\ arena' = AllocateAligned(arena, NodeSize(h))
  /\ op' = [op EXCEPT ![Writer] = "Set"]
  /\ level' = [level EXCEPT ![Writer] = 0]
  /\ UNCHANGED <<next, linked, key, at, node>>

\* (mutant) the node is published before it points on
PublishFirst ==
  /\ op[Writer] = "Set"
  /\ LET i == level[Writer]
         x == key[Writer]
     IN /\ next' = [next EXCEPT ![prev[i]][i] = x]
        /\ linked' = [linked EXCEPT ![i] = @ \cup {x}]
  /\ op' = [op EXCEPT ![Writer] = "Link"]
  /\ UNCHANGED <<maxHeight, heights, insertVars, arena, key, level, at, node>>

\* x->NoBarrier_SetNext(i, prev[i]->NoBarrier_Next(i))
SetNext ==
  /\ op[Writer] = "Set"
  /\ LET i == level[Writer]
     IN next' = [next EXCEPT ![key[Writer]][i] = next[prev[i]][i]]
  /\ op' = [op EXCEPT ![Writer] = "Link"]
  /\ UNCHANGED <<maxHeight, heights, linked, insertVars, arena, key, level, at, node>>

\* prev[i]->SetNext(i, x), and the next turn of the loop or the return
Link ==
  /\ op[Writer] = "Link"
  /\ LET i == level[Writer]
         x == key[Writer]
     IN /\ next' = [next EXCEPT ![prev[i]][i] = x]
        /\ linked' = [linked EXCEPT ![i] = @ \cup {x}]
        /\ level' = [level EXCEPT ![Writer] = i + 1]
        /\ op' = [op EXCEPT ![Writer] = IF i + 1 < height THEN "Set" ELSE "none"]
  /\ UNCHANGED <<maxHeight, heights, insertVars, arena, key, at, node>>

ReaderStep(r) ==
  Seek(r) \/ Prev(r) \/ SeekToLast(r) \/ SeekToFirst(r) \/ Next_(r) \/ Follow(r) \/ Return(r)

WriterStep ==
  \/ \E k \in Keys, size \in EntrySizes : Add(k, size)
  \/ FoundPlace
  \/ \E h \in 1 .. MaxHeight : Raise(h)
  \/ SetNext
  \/ Link

Next ==
  \/ \E r \in Readers : ReaderStep(r)
  \/ \E t \in Threads : Advance(t) \/ Descend(t)
  \/ WriterStep

Spec == Init /\ [][Next]_vars

-----------------------------------------------------------------------------
(***************************************************************************)
(* The invariant of the list.                                              *)
(***************************************************************************)

TypeOK ==
  /\ next \in [Nodes -> [Levels -> 1 .. Wild]]
  /\ maxHeight \in 1 .. MaxHeight
  /\ heights \subseteq 1 .. maxHeight
  /\ op \in [Threads -> Searches \cup {"none", "First", "Next", "Raise", "Set", "Link"}]
  /\ key \in [Threads -> 1 .. NULL]
  /\ level \in [Threads -> 0 .. MaxHeight]
  /\ at \in [Threads -> Nodes]
  /\ node \in [Readers -> 1 .. NULL]
  /\ prev \in [Levels -> Nodes]
  /\ height \in 1 .. MaxHeight
  /\ linked \in [Levels -> SUBSET Keys]

\* Each level is a sorted list of exactly the nodes published at it: every
\* pointer leads to the next published node
Chained ==
  \A i \in Levels : \A n \in linked[i] \cup {Head_} :
    /\ next[n][i] \in linked[i] \cup {NULL}
    /\ next[n][i] > n
    /\ \A m \in linked[i] : m > n => next[n][i] <= m

\* A node of a level is a node of every lower level, and no level at or above
\* max_height_ has a node
Nested ==
  /\ \A i, j \in Levels : i < j => linked[j] \subseteq linked[i]
  /\ \A i \in Levels : i >= maxHeight => linked[i] = {}

\* A search stands on a node of its level, before its target
OnLevel ==
  \A t \in Threads : op[t] \in Searches =>
    /\ level[t] \in Levels
    /\ at[t] \in linked[level[t]] \cup {Head_}
    /\ at[t] < key[t]

\* prev[i] is a node of level i between which and the new key nothing lies
Place(i) ==
  /\ prev[i] \in linked[i] \cup {Head_}
  /\ prev[i] < key[Writer]
  /\ next[prev[i]][i] >= key[Writer]

\* Insert's variables at each of its stages
Inserting ==
  /\ op[Writer] \in {"none", "Insert", "Raise", "Set", "Link"}
  /\ op[Writer] # "none" => key[Writer] \in Keys
  /\ op[Writer] = "Insert" =>
       /\ level[Writer] < maxHeight
       /\ \A i \in Levels : level[Writer] < i /\ i < maxHeight => Place(i)
  /\ op[Writer] = "Raise" => \A i \in Levels : i < maxHeight => Place(i)
  /\ op[Writer] \in {"Set", "Link"} =>
       /\ height <= maxHeight
       /\ level[Writer] < height
       /\ \A i \in Levels : i < level[Writer] => key[Writer] \in linked[i]
       /\ \A i \in Levels : level[Writer] <= i /\ i < height => Place(i)
  /\ op[Writer] = "Link" =>
       next[key[Writer]][level[Writer]] = next[prev[level[Writer]]][level[Writer]]
  /\ op[Writer] # "none" =>
       \A i \in Levels :
         (op[Writer] \in {"Set", "Link"} => level[Writer] <= i) => key[Writer] \notin linked[i]

\* An iterator stands on a published node, or on none
Positioned ==
  /\ \A r \in Readers : node[r] \in linked[0] \cup {NULL}
  /\ \A r \in Readers : op[r] \in {"none", "First", "Next", "Seek", "Prev", "Last"}
  /\ \A r \in Readers : op[r] = "Next" => node[r] # NULL
  /\ \A r \in Readers : op[r] = "Prev" => key[r] = node[r] /\ key[r] # NULL
  /\ \A r \in Readers : op[r] = "Last" => key[r] = NULL
  /\ \A r \in Readers : op[r] = "Seek" => key[r] \in Keys

\* Between any two stores of Insert (db/skiplist.h) every level is a sorted chain
\* of the nodes linked on it, a node is on all levels below its own once it is on
\* one, what Insert has still to link fits between prev[i] and its successor, and
\* readers stand on nodes that are published
ListInv ==
  /\ TypeOK /\ Chained /\ Nested /\ OnLevel /\ Inserting /\ Positioned

\* The ranges the arena hands out (util/arena.cc) lie inside their blocks, do
\* not overlap, nodes are aligned, and the current block's accounting holds
ArenaSound ==
  /\ \A r \in arena.given :
       /\ r.block \in DOMAIN arena.blocks
       /\ r.to <= arena.blocks[r.block]
       /\ r.aligned => r.from % Align = 0
       /\ \A s \in arena.given : s # r /\ s.block = r.block => r.to <= s.from \/ s.to <= r.from
  /\ arena.block # 0 => arena.offset + arena.remaining = arena.blocks[arena.block]

\* The call of each reader, with the target of a Seek
CallOf(r) == IF op[r] = "Seek" THEN <<"Seek", key[r]>> ELSE <<op[r]>>

\* The list as the set of the nodes published at level 0
Abstract == INSTANCE OrderedSet WITH
  keys <- linked[0], pos <- node, Iterators <- Readers,
  call <- [r \in Readers |-> CallOf(r)],
  inserting <- IF op[Writer] = "none" THEN 0 ELSE key[Writer]

\* Lock-free readers see an atomic ordered set: every Seek, Next, Prev,
\* SeekToFirst and SeekToLast (db/skiplist.h) returns what it would have
\* returned, for the target it was called with, had it run at the instant of its
\* last read, and Insert adds its key at the instant it links level 0 and has
\* added it when it returns
ImplementsOrderedSet == Abstract!SetSpec

=============================================================================
