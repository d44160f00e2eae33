--------------------------- MODULE SkipListProofs ---------------------------
(***************************************************************************)
(* The list of a memtable is, for any number of keys, levels and readers,  *)
(* an ordered set whose readers are atomic.                                *)
(***************************************************************************)
EXTENDS SkipList, TLAPS

USE DEF Head_, NULL, Wild, Keys, Nodes, Levels

\* Initially nothing is published, and no thread is in a call.
LEMMA InitList == Init => ListInv
  <1> SUFFICES ASSUME Init PROVE ListInv
    OBVIOUS
  <1>1. N \in Nat /\ MaxHeight \in Nat /\ MaxHeight >= 1 /\ Writer \notin Readers
    BY ListAssumption
  <1>2. TypeOK
    BY <1>1 DEF Init, TypeOK, Threads, Searches
  <1>3. Chained /\ Nested
    BY <1>1 DEF Init, Chained, Nested
  <1>4. OnLevel /\ Inserting /\ Positioned
    BY <1>1 DEF Init, OnLevel, Inserting, Positioned, Threads, Searches
  <1> QED
    BY <1>2, <1>3, <1>4 DEF ListInv

\* The types that arithmetic needs.
LEMMA Types ==
  ASSUME ListInv
  PROVE  /\ heights \subseteq 1 .. maxHeight
         /\ maxHeight \in 1 .. MaxHeight
         /\ height \in 1 .. MaxHeight
         /\ prev \in [Levels -> Nodes]
         /\ next \in [Nodes -> [Levels -> 1 .. Wild]]
         /\ \A i \in Levels : linked[i] \subseteq Keys
  BY DEF ListInv, TypeOK

\* A call that only begins a search: the thread stands on head_.
LEMMA BeginKeeps ==
  ASSUME ListInv, NEW r \in Readers, NEW o \in {"Seek", "Prev", "Last"},
         NEW k \in 1 .. NULL, NEW h \in heights,
         op[r] = "none", Begin(r, o, k, h), UNCHANGED <<listVars, insertVars, node>>,
         o = "Prev" => k = node[r] /\ k # NULL, o = "Last" => k = NULL, o = "Seek" => k \in Keys
  PROVE  ListInv'
  <1>1. N \in Nat /\ MaxHeight \in Nat /\ MaxHeight >= 1 /\ Writer \notin Readers
    BY ListAssumption
  <1>h. h \in 1 .. maxHeight /\ h - 1 \in Levels /\ h - 1 \in 0 .. MaxHeight /\ maxHeight \in 1 .. MaxHeight
    <2>1. h \in 1 .. maxHeight /\ maxHeight \in 1 .. MaxHeight
      BY Types
    <2> QED
      BY <2>1, <1>1
  <1>r. r \in Threads /\ o \in Searches
    BY DEF Threads, Searches
  <1> USE DEF ListInv, Begin, listVars, insertVars
  <1>2. TypeOK'
    <2>1. /\ op' \in [Threads -> Searches \cup {"none", "First", "Next", "Raise", "Set", "Link"}]
          /\ key' \in [Threads -> 1 .. NULL]
          /\ level' \in [Threads -> 0 .. MaxHeight]
      BY <1>h, <1>r DEF TypeOK
    <2>2. at' \in [Threads -> Nodes]
      BY <1>1, <1>r DEF TypeOK
    <2> QED
      BY <2>1, <2>2 DEF TypeOK
  <1>3. (Chained /\ Nested)'
    BY DEF Chained, Nested
  <1>4. OnLevel'
    <2> SUFFICES ASSUME NEW t \in Threads, op'[t] \in Searches
                 PROVE  /\ level'[t] \in Levels
                        /\ at'[t] \in linked[level'[t]] \cup {Head_}
                        /\ at'[t] < key'[t]
      BY DEF OnLevel
    <2>1. CASE t = r
      BY <2>1, <1>1, <1>h, <1>r DEF TypeOK
    <2>2. CASE t # r
      BY <2>2 DEF OnLevel, TypeOK
    <2> QED
      BY <2>1, <2>2
  <1>5. Inserting'
    BY <1>1 DEF Inserting, Place, TypeOK, Threads
  <1>6. Positioned'
    BY <1>1 DEF Positioned, TypeOK, Threads
  <1> QED
    BY <1>2, <1>3, <1>4, <1>5, <1>6

\* The node an iterator may be set to.
LEMMA PositionKeeps ==
  ASSUME ListInv, NEW r \in Readers, NEW n \in linked[0] \cup {NULL},
         node' = [node EXCEPT ![r] = n], op' = [op EXCEPT ![r] = "none"],
         UNCHANGED <<listVars, insertVars, key, level, at>>
  PROVE  ListInv'
  <1>1. N \in Nat /\ MaxHeight \in Nat /\ MaxHeight >= 1 /\ Writer \notin Readers
    BY ListAssumption
  <1> USE DEF ListInv, listVars, insertVars
  <1>2. TypeOK'
    <2>1. n \in 1 .. NULL
      BY <1>1, SMTT(30) DEF TypeOK
    <2> QED
      BY <2>1 DEF TypeOK, Threads
  <1>3. (Chained /\ Nested)'
    BY DEF Chained, Nested
  <1>4. OnLevel'
    BY <1>1 DEF OnLevel, TypeOK, Threads, Searches
  <1>5. Inserting'
    BY <1>1 DEF Inserting, Place, TypeOK, Threads
  <1>6. Positioned'
    BY <1>1 DEF Positioned, TypeOK, Threads
  <1> QED
    BY <1>2, <1>3, <1>4, <1>5, <1>6

\* The call of SeekToFirst and of Next, before their read.
LEMMA CallKeeps ==
  ASSUME ListInv, NEW r \in Readers, NEW o \in {"First", "Next"},
         op[r] = "none", o = "Next" => node[r] # NULL,
         op' = [op EXCEPT ![r] = o],
         UNCHANGED <<listVars, insertVars, key, level, at, node>>
  PROVE  ListInv'
  <1>1. N \in Nat /\ MaxHeight \in Nat /\ MaxHeight >= 1 /\ Writer \notin Readers
    BY ListAssumption
  <1> USE DEF ListInv, listVars, insertVars
  <1>2. TypeOK'
    BY DEF TypeOK, Threads
  <1>3. (Chained /\ Nested)'
    BY DEF Chained, Nested
  <1>4. OnLevel'
    BY <1>1 DEF OnLevel, TypeOK, Threads, Searches
  <1>5. Inserting'
    BY <1>1 DEF Inserting, Place, TypeOK, Threads
  <1>6. Positioned'
    BY <1>1 DEF Positioned, TypeOK, Threads
  <1> QED
    BY <1>2, <1>3, <1>4, <1>5, <1>6

\* What a search reads is a node of its level after the one it stands on.
LEMMA AheadIsNext ==
  ASSUME ListInv, NEW t \in Threads, op[t] \in Searches
  PROVE  /\ level[t] \in Levels
         /\ Ahead(t) \in linked[level[t]] \cup {NULL}
         /\ Ahead(t) > at[t]
         /\ \A m \in linked[level[t]] : m > at[t] => Ahead(t) <= m
         /\ at[t] \in linked[level[t]] \cup {Head_}
         /\ at[t] < key[t]
         /\ linked[level[t]] \subseteq Keys
  BY ListAssumption DEF ListInv, OnLevel, Chained, Ahead, TypeOK

LEMMA AdvanceKeeps ==
  ASSUME ListInv, NEW t \in Threads, Advance(t)
  PROVE  ListInv'
  <1>1. N \in Nat /\ MaxHeight \in Nat /\ MaxHeight >= 1 /\ Writer \notin Readers
    BY ListAssumption
  <1>2. /\ level[t] \in Levels
        /\ Ahead(t) \in linked[level[t]]
        /\ linked[level[t]] \subseteq Keys
        /\ Ahead(t) < key[t]
    BY AheadIsNext DEF Advance, KeyIsAfterNode
  <1> USE DEF ListInv, listVars, insertVars, Advance
  <1>3. TypeOK'
    <2>1. Ahead(t) \in Nodes
      BY <1>1, <1>2
    <2> QED
      BY <2>1 DEF TypeOK
  <1>4. (Chained /\ Nested)'
    BY DEF Chained, Nested
  <1>5. OnLevel'
    BY <1>1, <1>2 DEF OnLevel, TypeOK
  <1>6. Inserting'
    BY <1>1 DEF Inserting, Place, TypeOK, Threads
  <1>7. Positioned'
    BY <1>1 DEF Positioned, TypeOK, Threads
  <1> QED
    BY <1>3, <1>4, <1>5, <1>6, <1>7

LEMMA DescendKeeps ==
  ASSUME ListInv, NEW t \in Threads, Descend(t)
  PROVE  ListInv'
  <1>1. N \in Nat /\ MaxHeight \in Nat /\ MaxHeight >= 1 /\ Writer \notin Readers
    BY ListAssumption
  <1>a. /\ level[t] \in Levels
        /\ level[t] # 0
        /\ Ahead(t) \in linked[level[t]] \cup {NULL}
        /\ at[t] \in linked[level[t]] \cup {Head_}
        /\ at[t] < key[t]
        /\ linked[level[t]] \subseteq Keys
    BY AheadIsNext DEF Descend
  <1>b. key[t] \in 1 .. NULL
    BY DEF ListInv, TypeOK
  <1>2. level[t] - 1 \in Levels /\ Ahead(t) >= key[t]
    BY <1>1, <1>a, <1>b DEF Descend, KeyIsAfterNode
  <1> USE DEF ListInv, listVars, Descend
  <1>3. TypeOK'
    <2>1. level[t] - 1 \in 0 .. MaxHeight
      BY <1>1, <1>a, <1>b, <1>2
    <2>2. level' \in [Threads -> 0 .. MaxHeight] /\ prev' \in [Levels -> Nodes]
      BY <2>1, <1>a, <1>b, <1>2 DEF TypeOK
    <2> QED
      BY <2>2 DEF TypeOK
  <1>4. (Chained /\ Nested)'
    BY DEF Chained, Nested
  <1>5. OnLevel'
    <2>1. linked[level[t]] \subseteq linked[level[t] - 1]
      BY <1>1, <1>a, <1>b, <1>2 DEF Nested
    <2> QED
      BY <1>1, <1>a, <1>b, <1>2, <2>1 DEF OnLevel, TypeOK
  <1>6. Inserting'
    <2>1. CASE t = Writer
      <3>1. op[Writer] = "Insert"
        BY <2>1 DEF Inserting, Searches
      <3>2. ASSUME NEW i \in Levels, level'[Writer] < i, i < maxHeight
            PROVE  Place(i)'
        <4>1. CASE i = level[Writer]
          BY <4>1, <2>1, <1>1, <1>a, <1>b, <1>2 DEF Place, TypeOK, Ahead
        <4>2. CASE i # level[Writer]
          <5>1. level[Writer] < i
            BY <4>2, <3>2, <2>1, <1>1, <1>a, <1>b, <1>2 DEF TypeOK
          <5>2. Place(i)
            BY <5>1, <3>1, <3>2 DEF Inserting
          <5> QED
            BY <5>2, <4>2, <2>1, <1>a, <1>b, <1>2 DEF Place, TypeOK
        <4> QED
          BY <4>1, <4>2
      <3> QED
        BY <3>1, <3>2, <2>1, <1>1, <1>a, <1>b, <1>2 DEF Inserting, TypeOK
    <2>2. CASE t # Writer
      BY <2>2, SMTT(30) DEF Inserting, Place, TypeOK
    <2> QED
      BY <2>1, <2>2
  <1>7. Positioned'
    BY <1>1 DEF Positioned, TypeOK, Threads
  <1> QED
    BY <1>3, <1>4, <1>5, <1>6, <1>7

\* Insert begins with a key that is not in the list.
LEMMA AddKeeps ==
  ASSUME ListInv, NEW k \in Keys, NEW size \in EntrySizes, Add(k, size)
  PROVE  ListInv'
  <1>1. N \in Nat /\ MaxHeight \in Nat /\ MaxHeight >= 1 /\ Writer \notin Readers /\ Writer \in Threads
    BY ListAssumption DEF Threads
  <1>2. maxHeight \in 1 .. MaxHeight
    BY Types
  <1>3. /\ maxHeight - 1 \in Levels /\ maxHeight - 1 \in 0 .. MaxHeight /\ maxHeight - 1 < maxHeight
        /\ k \in 1 .. NULL /\ Head_ < k /\ Head_ \in Nodes
    BY <1>1, <1>2
  <1> USE DEF ListInv, Add, Begin, insertVars
  <1>4. TypeOK'
    <2>1. /\ op' \in [Threads -> Searches \cup {"none", "First", "Next", "Raise", "Set", "Link"}]
          /\ key' \in [Threads -> 1 .. NULL]
          /\ level' \in [Threads -> 0 .. MaxHeight]
      BY <1>3 DEF TypeOK, Searches
    <2>2. at' \in [Threads -> Nodes]
      BY <1>3 DEF TypeOK
    <2> QED
      BY <2>1, <2>2 DEF TypeOK
  <1>5. (Chained /\ Nested)'
    BY DEF Chained, Nested
  <1>6. OnLevel'
    <2> SUFFICES ASSUME NEW t \in Threads, op'[t] \in Searches
                 PROVE  /\ level'[t] \in Levels
                        /\ at'[t] \in linked[level'[t]] \cup {Head_}
                        /\ at'[t] < key'[t]
      BY DEF OnLevel
    <2>1. CASE t = Writer
      BY <2>1, <1>1, <1>3 DEF TypeOK
    <2>2. CASE t # Writer
      BY <2>2 DEF OnLevel, TypeOK
    <2> QED
      BY <2>1, <2>2
  <1>7. Inserting'
    <2>1. op'[Writer] = "Insert" /\ key'[Writer] = k /\ level'[Writer] = maxHeight - 1
      BY <1>1 DEF TypeOK
    <2>2. \A i \in Levels : k \notin linked[i]
      <3>1. \A i \in Levels : linked[i] \subseteq linked[0]
        BY <1>1 DEF Nested
      <3> QED
        BY <3>1
    <2>3. \A i \in Levels : ~(maxHeight - 1 < i /\ i < maxHeight)
      BY <1>1, <1>2
    <2> QED
      BY <2>1, <2>2, <2>3, <1>3 DEF Inserting
  <1>8. Positioned'
    BY <1>1 DEF Positioned, TypeOK, Threads
  <1> QED
    BY <1>4, <1>5, <1>6, <1>7, <1>8

\* The last read of Insert's search fixes prev[0].
LEMMA FoundPlaceKeeps == ListInv /\ FoundPlace => ListInv'
  <1> SUFFICES ASSUME ListInv, FoundPlace PROVE ListInv'
    OBVIOUS
  <1>1. N \in Nat /\ MaxHeight \in Nat /\ MaxHeight >= 1 /\ Writer \notin Readers /\ Writer \in Threads
    BY ListAssumption DEF Threads
  <1>a. /\ level[Writer] = 0 /\ 0 \in Levels
        /\ Ahead(Writer) \in linked[0] \cup {NULL}
        /\ at[Writer] \in linked[0] \cup {Head_}
        /\ at[Writer] < key[Writer]
        /\ linked[0] \subseteq Keys
    BY <1>1, AheadIsNext DEF FoundPlace, Searches
  <1>b. key[Writer] \in Keys
    BY DEF ListInv, FoundPlace, Inserting
  <1>2. Ahead(Writer) >= key[Writer]
    BY <1>1, <1>a, <1>b DEF FoundPlace, KeyIsAfterNode
  <1> USE DEF ListInv, listVars, FoundPlace
  <1>3. TypeOK'
    BY <1>1, <1>a DEF TypeOK
  <1>4. (Chained /\ Nested)'
    BY DEF Chained, Nested
  <1>5. OnLevel'
    BY <1>1 DEF OnLevel, TypeOK, Searches
  <1>6. Inserting'
    <2>1. ASSUME NEW i \in Levels, i < maxHeight
          PROVE  Place(i)'
      <3>1. CASE i = 0
        BY <3>1, <1>1, <1>a, <1>b, <1>2 DEF Place, TypeOK, Ahead
      <3>2. CASE i # 0
        <4>1. Place(i)
          BY <3>2, <2>1, <1>1, <1>a DEF Inserting
        <4> QED
          BY <4>1, <3>2, <1>a DEF Place, TypeOK
      <3> QED
        BY <3>1, <3>2
    <2>2. op'[Writer] = "Raise"
      BY <1>1 DEF TypeOK
    <2> QED
      BY <2>1, <2>2 DEF Inserting
  <1>7. Positioned'
    BY <1>1 DEF Positioned, TypeOK, Threads
  <1> QED
    BY <1>3, <1>4, <1>5, <1>6, <1>7

\* The new levels of a taller list are empty, so head_ is the place on each.
LEMMA RaiseKeeps ==
  ASSUME ListInv, NEW h \in 1 .. MaxHeight, Raise(h)
  PROVE  ListInv'
  <1>1. N \in Nat /\ MaxHeight \in Nat /\ MaxHeight >= 1 /\ Writer \notin Readers /\ Writer \in Threads
    BY ListAssumption DEF Threads
  <1>2. /\ key[Writer] \in Keys
        /\ maxHeight \in 1 .. MaxHeight
        /\ maxHeight' \in 1 .. MaxHeight
        /\ h <= maxHeight' /\ maxHeight <= maxHeight'
        /\ op'[Writer] = "Set" /\ level'[Writer] = 0
    BY <1>1 DEF ListInv, Raise, Inserting, TypeOK
  <1> USE DEF ListInv, Raise
  <1>3. TypeOK'
    <2>1. heights' \subseteq 1 .. maxHeight'
      <3>1. heights \subseteq 1 .. maxHeight /\ heights' = heights \cup {maxHeight'}
        BY Types
      <3> HIDE DEF ListInv, Raise
      <3> QED
        BY <3>1, <1>1, <1>2
    <2>2. prev' \in [Levels -> Nodes]
      <3>1. prev \in [Levels -> Nodes] /\ Head_ \in Nodes
        <4> HIDE DEF ListInv, Raise
        <4> QED
          BY <1>1, Types, SMTT(30)
      <3>2. \A i \in Levels : (IF maxHeight <= i /\ i < h THEN Head_ ELSE prev[i]) \in Nodes
        BY <3>1
      <3> QED
        BY <3>2
    <2>3. level' \in [Threads -> 0 .. MaxHeight]
      BY <1>1 DEF TypeOK
    <2>4. op' \in [Threads -> Searches \cup {"none", "First", "Next", "Raise", "Set", "Link"}]
      BY DEF TypeOK
    <2> QED
      BY <1>2, <2>1, <2>2, <2>3, <2>4 DEF TypeOK
  <1>4. Chained'
    BY DEF Chained
  <1>5. Nested'
    BY <1>1, <1>2 DEF Nested
  <1>6. OnLevel'
    BY <1>1 DEF OnLevel, TypeOK, Searches
  <1>7. Inserting'
    <2>1. ASSUME NEW i \in Levels, i < h
          PROVE  Place(i)'
      <3>1. CASE i < maxHeight
        <4>1. Place(i)
          BY <3>1 DEF Inserting
        <4> QED
          BY <4>1, <3>1, <1>1, <1>2 DEF Place, TypeOK
      <3>2. CASE ~(i < maxHeight)
        <4>1. prev'[i] = Head_ /\ linked[i] = {}
          BY <3>2, <2>1, <1>1, <1>2 DEF Nested
        <4>2. next[Head_][i] = NULL
          BY <4>1 DEF Chained
        <4> QED
          BY <4>1, <4>2, <1>1, <1>2 DEF Place
      <3> QED
        BY <3>1, <3>2
    <2>2. \A i \in Levels : key[Writer] \notin linked[i]
      BY DEF Inserting
    <2> QED
      BY <2>1, <2>2, <1>1, <1>2 DEF Inserting
  <1>8. Positioned'
    BY <1>1 DEF Positioned, TypeOK, Threads
  <1> QED
    BY <1>3, <1>4, <1>5, <1>6, <1>7, <1>8

\* A link of a node that no list of that level holds yet is nobody's business.
LEMMA SetNextKeeps == ListInv /\ SetNext => ListInv'
  <1> SUFFICES ASSUME ListInv, SetNext PROVE ListInv'
    OBVIOUS
  <1> DEFINE l == level[Writer]
             x == key[Writer]
             s == next[prev[l]][l]
  <1>1. N \in Nat /\ MaxHeight \in Nat /\ MaxHeight >= 1 /\ Writer \notin Readers /\ Writer \in Threads
    BY ListAssumption DEF Threads
  <1>2. /\ x \in Keys /\ l \in Levels /\ l < height
        /\ height \in 1 .. MaxHeight /\ height <= maxHeight
    BY <1>1 DEF ListInv, SetNext, Inserting, TypeOK
  <1>3. \A i \in Levels : i >= l => x \notin linked[i]
    BY <1>1, <1>2 DEF ListInv, SetNext, Inserting
  <1>4. \A i \in Levels : l <= i /\ i < height => Place(i)
    BY DEF ListInv, SetNext, Inserting
  <1>5. prev[l] \in Nodes /\ s \in 1 .. Wild
    BY <1>2, Types
  <1> USE DEF ListInv, SetNext
  <1>6. \A n \in Nodes, i \in Levels :
          next'[n][i] = IF n = x /\ i = l THEN s ELSE next[n][i]
    BY <1>1, <1>2, ZenonT(60) DEF TypeOK
  <1>7. op'[Writer] = "Link" /\ UNCHANGED <<linked, key, level, prev, height, maxHeight, node, at>>
    BY <1>1 DEF TypeOK, insertVars
  <1>8. TypeOK'
    <2>1. next' \in [Nodes -> [Levels -> 1 .. Wild]]
      BY <1>1, <1>2, <1>5 DEF TypeOK
    <2> QED
      BY <2>1, <1>7 DEF TypeOK
  <1>9. Chained'
    <2>1. ASSUME NEW i \in Levels, NEW n \in linked[i] \cup {Head_}
          PROVE  next'[n][i] = next[n][i]
      <3>1. n \in Nodes
        BY <1>1, Types
      <3> QED
        BY <3>1, <1>6, <1>2, <1>3
    <2> QED
      BY <2>1, <1>7 DEF Chained
  <1>10. Nested'
    BY <1>7 DEF Nested
  <1>11. OnLevel'
    BY <1>1, <1>7 DEF OnLevel, TypeOK, Searches
  <1>12. Inserting'
    <2>1. ASSUME NEW i \in Levels, l <= i, i < height
          PROVE  Place(i)'
      <3>1. Place(i)
        BY <2>1, <1>4
      <3>2. prev[i] \in Nodes /\ prev[i] # x
        BY <3>1, <1>1, <1>2 DEF Place, TypeOK
      <3>3. next'[prev[i]][i] = next[prev[i]][i]
        BY <3>2, <1>6
      <3> QED
        BY <3>1, <3>3, <1>7 DEF Place
    <2>2. next'[x][l] = next'[prev[l]][l]
      <3>1. Place(l)
        BY <1>1, <1>2, <1>4
      <3>2. prev[l] \in Nodes /\ prev[l] # x
        BY <3>1, <1>1, <1>2, <1>5 DEF Place
      <3> QED
        BY <3>2, <1>1, <1>2, <1>6
    <2> QED
      BY <2>1, <2>2, <1>2, <1>7 DEF Inserting
  <1>13. Positioned'
    BY <1>1, <1>7 DEF Positioned, TypeOK, Threads
  <1> QED
    BY <1>8, <1>9, <1>10, <1>11, <1>12, <1>13

\* Publishing a node at the next level up: its place is still exact, so the
\* list stays sorted and complete, and nobody stands where it changes the order.
LEMMA LinkKeeps == ListInv /\ Link => ListInv'
  <1> SUFFICES ASSUME ListInv, Link PROVE ListInv'
    OBVIOUS
  <1> DEFINE l == level[Writer]
             x == key[Writer]
             p == prev[l]
  <1>1. N \in Nat /\ MaxHeight \in Nat /\ MaxHeight >= 1 /\ Writer \notin Readers /\ Writer \in Threads
    BY ListAssumption DEF Threads
  <1>2. /\ x \in Keys /\ l \in Levels /\ l < height
        /\ height \in 1 .. MaxHeight /\ height <= maxHeight
        /\ next[x][l] = next[p][l]
    BY <1>1 DEF ListInv, Link, Inserting, TypeOK
  <1>3. \A i \in Levels : i >= l => x \notin linked[i]
    BY <1>1, <1>2 DEF ListInv, Link, Inserting
  <1>4. \A i \in Levels : i < l => x \in linked[i]
    BY DEF ListInv, Link, Inserting
  <1>5. \A i \in Levels : l <= i /\ i < height => Place(i)
    BY DEF ListInv, Link, Inserting
  <1>6. Place(l) /\ p \in Nodes
    BY <1>1, <1>2, <1>5, Types
  <1>7. linked'[l] = linked[l] \cup {x} /\ \A i \in Levels : i # l => linked'[i] = linked[i]
    BY <1>2 DEF ListInv, TypeOK, Link
  <1>8. /\ next'[p][l] = x
        /\ \A n \in Nodes, i \in Levels : n # p \/ i # l => next'[n][i] = next[n][i]
    BY <1>1, <1>2, <1>6, Types DEF Link
  <1>9. /\ op'[Writer] = IF l + 1 < height THEN "Set" ELSE "none"
        /\ level'[Writer] = l + 1
        /\ UNCHANGED <<key, prev, height, maxHeight, node, at>>
        /\ \A t \in Readers : op'[t] = op[t] /\ level'[t] = level[t]
    BY <1>1 DEF ListInv, TypeOK, Link, insertVars, Threads
  <1>10. TypeOK'
    <2>1. next' \in [Nodes -> [Levels -> 1 .. Wild]]
      <3>1. x \in 1 .. Wild
        BY <1>1, <1>2
      <3> QED
        BY <3>1, <1>2, <1>6, Types DEF Link
    <2>2. level' \in [Threads -> 0 .. MaxHeight]
      <3>1. l + 1 \in 0 .. MaxHeight
        BY <1>1, <1>2
      <3> QED
        BY <3>1 DEF ListInv, TypeOK, Link
    <2>3. linked' \in [Levels -> SUBSET Keys]
      BY <1>2 DEF ListInv, TypeOK, Link
    <2>4. op' \in [Threads -> Searches \cup {"none", "First", "Next", "Raise", "Set", "Link"}]
      BY DEF ListInv, TypeOK, Link
    <2> QED
      BY <2>1, <2>2, <2>3, <2>4, <1>9 DEF ListInv, TypeOK, Link
  <1>11. Chained'
    <2> SUFFICES ASSUME NEW i \in Levels, NEW n \in linked'[i] \cup {Head_}
                 PROVE  /\ next'[n][i] \in linked'[i] \cup {NULL}
                        /\ next'[n][i] > n
                        /\ \A m \in linked'[i] : m > n => next'[n][i] <= m
      BY DEF Chained
    <2>1. linked[i] \subseteq Keys /\ n \in Nodes
      <3>1. linked[i] \subseteq Keys /\ linked'[i] \subseteq linked[i] \cup {x}
        BY <1>7, Types
      <3> QED
        BY <3>1, <1>1, <1>2
    <2>2. ASSUME NEW k \in linked[i] \cup {Head_}
          PROVE  /\ next[k][i] \in linked[i] \cup {NULL}
                 /\ next[k][i] > k
                 /\ \A m \in linked[i] : m > k => next[k][i] <= m
      BY DEF ListInv, Chained
    <2>3. CASE i # l
      <3>1. linked'[i] = linked[i] /\ next'[n][i] = next[n][i]
        BY <2>3, <2>1, <1>7, <1>8
      <3> QED
        BY <3>1, <2>2
    <2>4. CASE i = l /\ n = p
      <3>1. next'[n][i] = x /\ linked'[i] = linked[i] \cup {x}
        BY <2>4, <2>1, <1>7, <1>8
      <3>2. p \in linked[i] \cup {Head_} /\ p < x /\ next[p][i] >= x
        BY <2>4, <1>6 DEF Place
      <3>3. next[p][i] \in linked[i] \cup {NULL} /\ \A m \in linked[i] : m > p => next[p][i] <= m
        BY <3>2, <2>2
      <3> QED
        BY <3>1, <3>2, <3>3, <2>1, <2>4, <1>1, <1>2
    <2>5. CASE i = l /\ n = x
      <3>1. p \in linked[i] \cup {Head_} /\ p < x /\ next[p][i] >= x
        BY <2>5, <1>6 DEF Place
      <3>2. n # p
        BY <3>1, <2>5, <1>1, <1>2, <1>6
      <3>3. next'[n][i] = next[p][i] /\ linked'[i] = linked[i] \cup {x}
        BY <3>2, <2>5, <2>1, <1>2, <1>7, <1>8
      <3>4. next[p][i] \in linked[i] \cup {NULL} /\ \A m \in linked[i] : m > p => next[p][i] <= m
        BY <3>1, <2>2
      <3>5. x \notin linked[i]
        BY <2>5, <1>1, <1>2, <1>3
      <3> QED
        BY <3>1, <3>3, <3>4, <3>5, <2>1, <2>5, <1>1, <1>2, <1>6
    <2>6. CASE i = l /\ n # p /\ n # x
      <3>1. n \in linked[i] \cup {Head_}
        BY <2>6, <1>7
      <3>2. next'[n][i] = next[n][i] /\ linked'[i] = linked[i] \cup {x}
        BY <2>6, <2>1, <1>7, <1>8
      <3>3. p \in linked[i] \cup {Head_} /\ p < x /\ next[p][i] >= x
        BY <2>6, <1>6 DEF Place
      <3>4. next[p][i] \in linked[i] \cup {NULL} /\ \A m \in linked[i] : m > p => next[p][i] <= m
        BY <3>3, <2>2
      <3>5. /\ next[n][i] \in linked[i] \cup {NULL} /\ next[n][i] > n
            /\ \A m \in linked[i] : m > n => next[n][i] <= m
        BY <3>1, <2>2
      <3>6. ASSUME x > n PROVE next[n][i] <= x
        <4>1. n < p
          BY <3>1, <3>3, <3>4, <3>6, <2>1, <2>6, <1>1, <1>2, <1>6
        <4>2. p \in linked[i]
          BY <4>1, <3>3, <2>1, <1>1
        <4> QED
          BY <4>1, <4>2, <3>3, <3>5, <2>1, <1>1, <1>2, <1>6
      <3> QED
        BY <3>2, <3>5, <3>6
    <2> QED
      BY <2>3, <2>4, <2>5, <2>6
  <1>12. Nested'
    <2>1. maxHeight \in 1 .. MaxHeight
      BY Types
    <2>2. ASSUME NEW i \in Levels, NEW j \in Levels, i < j
          PROVE  linked'[j] \subseteq linked'[i]
      <3>1. linked[j] \subseteq linked[i] /\ linked[i] \subseteq linked'[i]
        BY <2>2, <1>7 DEF ListInv, Nested
      <3>2. CASE j = l
        BY <3>1, <3>2, <2>2, <1>4, <1>7
      <3>3. CASE j # l
        BY <3>1, <3>3, <1>7
      <3> QED
        BY <3>2, <3>3
    <2>3. ASSUME NEW i \in Levels, i >= maxHeight
          PROVE  linked'[i] = {}
      BY <2>1, <2>3, <1>1, <1>2, <1>7 DEF ListInv, Nested
    <2> QED
      BY <2>2, <2>3, <1>9 DEF Nested
  <1>13. OnLevel'
    BY <1>1, <1>7, <1>9 DEF ListInv, OnLevel, Searches, Threads
  <1>14. Inserting'
    <2>1. CASE l + 1 < height
      <3>1. op'[Writer] = "Set" /\ level'[Writer] = l + 1
        BY <2>1, <1>9
      <3>2. ASSUME NEW i \in Levels, l + 1 <= i, i < height
            PROVE  Place(i)'
        <4>1. Place(i) /\ i # l
          BY <3>2, <1>1, <1>2, <1>5
        <4>3. prev[i] \in Nodes
          BY Types
        <4>2. linked'[i] = linked[i] /\ next'[prev[i]][i] = next[prev[i]][i]
          BY <4>1, <4>3, <1>7, <1>8
        <4> QED
          BY <4>1, <4>2, <1>9 DEF Place
      <3>3. ASSUME NEW i \in Levels, i < l + 1
            PROVE  x \in linked'[i]
        <4>1. i < l \/ i = l
          BY <3>3, <1>1, <1>2
        <4> QED
          BY <4>1, <1>4, <1>7
      <3>4. ASSUME NEW i \in Levels, l + 1 <= i
            PROVE  x \notin linked'[i]
        <4>1. i >= l /\ i # l
          BY <3>4, <1>1, <1>2
        <4> QED
          BY <4>1, <1>3, <1>7
      <3> QED
        BY <3>1, <3>2, <3>3, <3>4, <2>1, <1>2, <1>9 DEF Inserting
    <2>2. CASE ~(l + 1 < height)
      BY <2>2, <1>9 DEF Inserting
    <2> QED
      BY <2>1, <2>2
  <1>15. Positioned'
    <2>1. 0 \in Levels
      BY <1>1
    <2>2. linked[0] \subseteq linked'[0]
      BY <2>1, <1>7
    <2> QED
      BY <2>2, <1>9 DEF ListInv, Positioned
  <1> QED
    BY <1>10, <1>11, <1>12, <1>13, <1>14, <1>15 DEF ListInv

\* 0 is a level, and what is read at level 0 is a position.
LEMMA Level0 ==
  ASSUME ListInv, NEW n \in linked[0] \cup {Head_}
  PROVE  /\ 0 \in Levels
         /\ next[n][0] \in linked[0] \cup {NULL}
         /\ next[n][0] > n
         /\ \A m \in linked[0] : m > n => next[n][0] <= m
         /\ linked[0] \subseteq Keys
  <1>1. 0 \in Levels
    BY ListAssumption
  <1> QED
    BY <1>1, Types DEF ListInv, Chained

\* What a reader's search returns.
LEMMA FoundIsPosition ==
  ASSUME ListInv, NEW r \in Readers, Return(r)
  PROVE  Found(r) \in linked[0] \cup {NULL}
  <1>1. r \in Threads /\ op[r] \in Searches /\ level[r] = 0
    BY DEF Return, Threads
  <1> QED
    BY <1>1, AheadIsNext DEF Found

\* What SeekToFirst and Next read: the first node, and the one behind.
Followed(r) == next[IF op[r] = "First" THEN Head_ ELSE node[r]][0]

LEMMA FollowedIsPosition ==
  ASSUME ListInv, NEW r \in Readers, Follow(r)
  PROVE  /\ Followed(r) \in linked[0] \cup {NULL}
         /\ linked[0] \subseteq Keys
         /\ op[r] = "First" => \A m \in linked[0] : Followed(r) <= m
         /\ op[r] = "Next" => /\ node[r] \in linked[0] /\ Followed(r) > node[r]
                             /\ \A m \in linked[0] : m > node[r] => Followed(r) <= m
  <1> DEFINE n == IF op[r] = "First" THEN Head_ ELSE node[r]
  <1>1. op[r] \in {"First", "Next"} /\ N \in Nat
    BY ListAssumption DEF Follow
  <1>2. op[r] = "Next" => node[r] \in linked[0]
    BY DEF ListInv, Positioned
  <1>3. n \in linked[0] \cup {Head_}
    BY <1>1, <1>2
  <1>4. Followed(r) = next[n][0]
    BY DEF Followed
  <1> HIDE DEF n
  <1>5. /\ Followed(r) \in linked[0] \cup {NULL}
        /\ Followed(r) > n
        /\ \A m \in linked[0] : m > n => Followed(r) <= m
        /\ linked[0] \subseteq Keys
    BY <1>3, <1>4, Level0
  <1> QED
    BY <1>1, <1>2, <1>5 DEF n

\* Every step of every thread keeps the invariant.
LEMMA NextKeeps == ListInv /\ [Next]_vars => ListInv'
  <1> SUFFICES ASSUME ListInv, [Next]_vars PROVE ListInv'
    OBVIOUS
  <1>1. ASSUME NEW r \in Readers, ReaderStep(r)
        PROVE  ListInv'
    <2>1. r \in Threads
      BY DEF Threads
    <2>2. CASE Seek(r)
      <3>1. PICK k \in Keys, h \in heights : Begin(r, "Seek", k, h)
        BY <2>2 DEF Seek
      <3>2. k \in 1 .. NULL
        BY ListAssumption
      <3> QED
        BY <3>1, <3>2, <2>2, BeginKeeps DEF Seek
    <2>3. CASE Prev(r)
      <3>1. PICK h \in heights : Begin(r, "Prev", node[r], h)
        BY <2>3 DEF Prev
      <3>2. node[r] \in 1 .. NULL
        BY DEF ListInv, TypeOK
      <3> QED
        BY <3>1, <3>2, <2>3, BeginKeeps DEF Prev
    <2>4. CASE SeekToLast(r)
      <3>1. PICK h \in heights : Begin(r, "Last", NULL, h)
        BY <2>4 DEF SeekToLast
      <3>2. NULL \in 1 .. NULL /\ NULL \notin Keys
        BY ListAssumption
      <3> HIDE DEF NULL
      <3> QED
        BY <3>1, <3>2, <2>4, BeginKeeps DEF SeekToLast
    <2>5. CASE SeekToFirst(r)
      BY <2>5, CallKeeps DEF SeekToFirst
    <2>6. CASE Next_(r)
      BY <2>6, CallKeeps DEF Next_
    <2>8. CASE Follow(r)
      BY <2>8, FollowedIsPosition, PositionKeeps DEF Follow, Followed
    <2>7. CASE Return(r)
      BY <2>7, FoundIsPosition, PositionKeeps DEF Return
    <2> QED
      BY <1>1, <2>2, <2>3, <2>4, <2>5, <2>6, <2>7, <2>8 DEF ReaderStep
  <1>2. ASSUME NEW t \in Threads, Advance(t) \/ Descend(t)
        PROVE  ListInv'
    BY <1>2, AdvanceKeeps, DescendKeeps
  <1>3. ASSUME NEW k \in Keys, NEW size \in EntrySizes, Add(k, size)
        PROVE  ListInv'
    BY <1>3, AddKeeps
  <1>4. ASSUME NEW h \in 1 .. MaxHeight, Raise(h)
        PROVE  ListInv'
    BY <1>4, RaiseKeeps
  <1>5. CASE UNCHANGED vars
    BY <1>5 DEF vars, ListInv, TypeOK, Chained, Nested, OnLevel, Inserting, Place, Positioned
  <1> QED
    BY <1>1, <1>2, <1>3, <1>4, <1>5, FoundPlaceKeeps, SetNextKeeps, LinkKeeps
    DEF Next, WriterStep

\* In every reachable state each level of the skip list (db/skiplist.h) is the
\* sorted list of the nodes published at it, every search stands on a node of
\* its level and Insert's prev is exact, for any number of keys and readers.
THEOREM ListIsSound == Spec => []ListInv
  BY InitList, NextKeeps, PTL DEF Spec

\* A reader's call, and what the set sees of it when it returns.
LEMMA AnswerIsAtomic ==
  ASSUME ListInv, NEW r \in Readers, NEW n \in 1 .. NULL,
         node' = [node EXCEPT ![r] = n], op' = [op EXCEPT ![r] = "none"],
         UNCHANGED <<listVars, insertVars, key, level, at>>,
         Abstract!IsAnswer(r, n)
  PROVE  Abstract!SetNext
  <1>1. Writer \notin Readers /\ r \in Threads
    BY ListAssumption DEF Threads
  <1>2. op \in [Threads -> Searches \cup {"none", "First", "Next", "Raise", "Set", "Link"}]
    BY DEF ListInv, TypeOK
  <1>3. linked' = linked /\ op'[Writer] = op[Writer] /\ key' = key
    BY <1>1, <1>2 DEF listVars, insertVars, Threads
  <1>4. [i \in Readers |-> CallOf(i)]' = [[i \in Readers |-> CallOf(i)] EXCEPT ![r] = <<"none">>]
    <2>1. CallOf(r)' = <<"none">>
      BY <1>1, <1>2 DEF CallOf
    <2>2. ASSUME NEW i \in Readers, i # r PROVE CallOf(i)' = CallOf(i)
      BY <1>1, <1>2, <1>3, <2>2 DEF CallOf, Threads
    <2> QED
      BY <2>1, <2>2
  <1>5. Abstract!Answer(r)
    <2>1. \E m \in 1 .. Abstract!End :
            Abstract!IsAnswer(r, m) /\ node' = [node EXCEPT ![r] = m]
      BY DEF Abstract!End
    <2> QED
      BY <1>3, <1>4, <2>1 DEF Abstract!Answer, Abstract!NoCall
  <1> QED
    BY <1>5 DEF Abstract!SetNext

\* The last read of a search decides what an atomic search would return.
LEMMA ReturnIsAtomic ==
  ASSUME ListInv, NEW r \in Readers, Return(r)
  PROVE  Abstract!SetNext
  <1>1. r \in Threads /\ op[r] \in Searches /\ level[r] = 0 /\ N \in Nat
    BY ListAssumption DEF Return, Threads
  <1>2. /\ Ahead(r) \in linked[0] \cup {NULL}
        /\ Ahead(r) > at[r]
        /\ \A m \in linked[0] : m > at[r] => Ahead(r) <= m
        /\ at[r] \in linked[0] \cup {Head_}
        /\ at[r] < key[r]
        /\ linked[0] \subseteq Keys
    BY <1>1, AheadIsNext
  <1>3. key[r] \in 1 .. NULL
    BY <1>1 DEF ListInv, TypeOK
  <1>4. Ahead(r) >= key[r]
    BY <1>1, <1>2, <1>3 DEF Return, KeyIsAfterNode
  <1>6. Found(r) \in 1 .. NULL
    BY <1>1, <1>2, FoundIsPosition
  <1>7. Abstract!IsAnswer(r, Found(r))
    <2>1. CASE op[r] = "Seek"
      <3>1. key[r] \in 1 .. N
        BY <2>1 DEF ListInv, Positioned
      <3>2. Found(r) = Ahead(r)
        BY <2>1 DEF Found
      <3>3. Abstract!IsCeiling(Found(r), key[r])
        BY <3>1, <3>2, <1>1, <1>2, <1>3, <1>4 DEF Abstract!IsCeiling, Abstract!End
      <3>4. CallOf(r) = <<"Seek", key[r]>>
        BY <2>1 DEF CallOf
      <3> QED
        BY <3>1, <3>3, <3>4 DEF Abstract!IsAnswer
    <2>2. CASE op[r] # "Seek"
      <3>1. Found(r) = IF at[r] = Head_ THEN NULL ELSE at[r]
        BY <2>2 DEF Found
      <3>2. Abstract!IsPredecessor(Found(r), key[r])
        BY <3>1, <1>1, <1>2, <1>3, <1>4 DEF Abstract!IsPredecessor, Abstract!End
      <3>3. CallOf(r) = <<op[r]>>
        BY <2>2 DEF CallOf
      <3>4. op[r] = "Prev" => key[r] = node[r]
        BY DEF ListInv, Positioned
      <3>5. op[r] = "Last" => key[r] = NULL
        BY DEF ListInv, Positioned
      <3>6. op[r] = "Prev" \/ op[r] = "Last"
        BY <1>1, <2>2 DEF ListInv, Positioned, Searches
      <3> QED
        BY <3>2, <3>3, <3>4, <3>5, <3>6 DEF Abstract!IsAnswer, Abstract!End
    <2> QED
      BY <2>1, <2>2
  <1> QED
    BY <1>6, <1>7, AnswerIsAtomic DEF Return

\* So does the only read of SeekToFirst and of Next.
LEMMA FollowIsAtomic ==
  ASSUME ListInv, NEW r \in Readers, Follow(r)
  PROVE  Abstract!SetNext
  <1>1. N \in Nat /\ op[r] \in {"First", "Next"}
    BY ListAssumption DEF Follow
  <1>2. /\ Followed(r) \in linked[0] \cup {NULL}
        /\ linked[0] \subseteq Keys
        /\ op[r] = "First" => \A m \in linked[0] : Followed(r) <= m
        /\ op[r] = "Next" => /\ node[r] \in linked[0] /\ Followed(r) > node[r]
                            /\ \A m \in linked[0] : m > node[r] => Followed(r) <= m
    BY FollowedIsPosition
  <1>3. Followed(r) \in 1 .. NULL
    BY <1>1, <1>2
  <1>4. CallOf(r) = <<op[r]>>
    BY <1>1 DEF CallOf
  <1>5. Abstract!IsAnswer(r, Followed(r))
    <2>1. CASE op[r] = "First"
      <3>1. Abstract!IsCeiling(Followed(r), 0)
        BY <1>1, <1>2, <1>3, <2>1 DEF Abstract!IsCeiling, Abstract!End
      <3> QED
        BY <1>4, <2>1, <3>1 DEF Abstract!IsAnswer
    <2>2. CASE op[r] = "Next"
      <3>1. Abstract!IsCeiling(Followed(r), node[r] + 1)
        BY <1>1, <1>2, <1>3, <2>2 DEF Abstract!IsCeiling, Abstract!End
      <3> QED
        BY <1>4, <2>2, <3>1 DEF Abstract!IsAnswer
    <2> QED
      BY <1>1, <2>1, <2>2
  <1> QED
    BY <1>3, <1>5, AnswerIsAtomic DEF Follow, Followed

\* A reader that begins a call, made of one name and a target.
LEMMA CallIsAtomic ==
  ASSUME ListInv, NEW r \in Readers, NEW o \in {"First", "Last", "Next", "Prev", "Seek"},
         op[r] = "none", op' = [op EXCEPT ![r] = o],
         o \in {"Next", "Prev"} => node[r] # NULL,
         o = "Seek" => key'[r] \in Keys,
         \A t \in Threads : t # r => key'[t] = key[t],
         UNCHANGED <<listVars, node>>
  PROVE  Abstract!SetNext
  <1>1. Writer \notin Readers /\ r \in Threads /\ Writer \in Threads
    BY ListAssumption DEF Threads
  <1>2. op \in [Threads -> Searches \cup {"none", "First", "Next", "Raise", "Set", "Link"}]
    BY DEF ListInv, TypeOK
  <1>3. linked' = linked /\ op'[Writer] = op[Writer] /\ key'[Writer] = key[Writer]
    BY <1>1, <1>2 DEF listVars
  <1>4. CallOf(r)' = IF o = "Seek" THEN <<"Seek", key'[r]>> ELSE <<o>>
    BY <1>1, <1>2 DEF CallOf
  <1>5. PICK c : c = CallOf(r)'
    OBVIOUS
  <1>6. [i \in Readers |-> CallOf(i)]' = [[i \in Readers |-> CallOf(i)] EXCEPT ![r] = c]
    <2>1. ASSUME NEW i \in Readers, i # r PROVE CallOf(i)' = CallOf(i)
      BY <1>1, <1>2, <2>1 DEF CallOf, Threads
    <2> QED
      BY <1>5, <2>1
  <1>7. c \in Abstract!Calls(r)
    BY <1>4, <1>5 DEF Abstract!Calls, Abstract!End
  <1>8. CallOf(r) = <<"none">>
    BY DEF CallOf
  <1>9. Abstract!Call(r)
    BY <1>3, <1>6, <1>7, <1>8 DEF Abstract!Call, Abstract!NoCall
  <1> QED
    BY <1>9 DEF Abstract!SetNext

\* A step of the writer is not seen by the readers' calls.
LEMMA CallsStay ==
  ASSUME ListInv, \A r \in Readers : op'[r] = op[r] /\ key'[r] = key[r]
  PROVE  [r \in Readers |-> CallOf(r)]' = [r \in Readers |-> CallOf(r)]
  BY DEF CallOf

\* A search that goes on.
LEMMA SearchIsInvisible ==
  ASSUME op' = op, key' = key, linked' = linked, node' = node
  PROVE  UNCHANGED Abstract!setVars
  BY DEF Abstract!setVars, CallOf

\* Insert, from its call to its return.
LEMMA WriterIsAtomic ==
  ASSUME ListInv, WriterStep
  PROVE  [Abstract!SetNext]_(Abstract!setVars)
  <1>1. /\ N \in Nat /\ MaxHeight \in Nat /\ MaxHeight >= 1 /\ Writer \notin Readers
        /\ Writer \in Threads
    BY ListAssumption DEF Threads
  <1>2. /\ op \in [Threads -> Searches \cup {"none", "First", "Next", "Raise", "Set", "Link"}]
        /\ key \in [Threads -> 1 .. NULL]
    BY DEF ListInv, TypeOK
  <1>3. CASE \E k \in Keys, size \in EntrySizes : Add(k, size)
    <2>1. PICK k \in Keys, size \in EntrySizes : Add(k, size)
      BY <1>3
    <2>2. /\ op[Writer] = "none" /\ op'[Writer] = "Insert" /\ key'[Writer] = k
          /\ k \notin linked[0] /\ linked' = linked /\ node' = node
          /\ \A r \in Readers : op'[r] = op[r] /\ key'[r] = key[r]
      BY <1>1, <1>2, <2>1 DEF Add, Begin, Threads
    <2>3. Abstract!CallInsert(k)
      BY <2>2, CallsStay DEF Abstract!CallInsert
    <2> QED
      BY <2>3 DEF Abstract!SetNext
  <1>4. CASE FoundPlace \/ SetNext \/ \E h \in 1 .. MaxHeight : Raise(h)
    <2>1. /\ op[Writer] # "none" /\ op'[Writer] # "none"
          /\ linked' = linked /\ node' = node /\ key' = key
          /\ \A r \in Readers : op'[r] = op[r]
      BY <1>1, <1>2, <1>4 DEF FoundPlace, SetNext, Raise, listVars, Threads
    <2> QED
      BY <2>1, CallsStay DEF Abstract!setVars
  <1>5. CASE Link
    <2>1. 0 \in Levels /\ level[Writer] \in Levels /\ key[Writer] \in Keys
      <3>1. level[Writer] < height /\ key[Writer] \in Keys
        BY <1>5 DEF Link, ListInv, Inserting
      <3>2. level[Writer] \in 0 .. MaxHeight /\ height \in 1 .. MaxHeight
        BY Types DEF ListInv, TypeOK, Threads
      <3> QED
        BY <3>1, <3>2, <1>1
    <2>2. /\ op[Writer] = "Link" /\ op'[Writer] \in {"Set", "none"}
          /\ key' = key /\ node' = node
          /\ \A r \in Readers : op'[r] = op[r]
      BY <1>1, <1>2, <1>5 DEF Link, Threads
    <2>3. key[Writer] # 0 /\ [r \in Readers |-> CallOf(r)]' = [r \in Readers |-> CallOf(r)]
      BY <2>1, <2>2, CallsStay, <1>1
    <2>4. CASE level[Writer] = 0
      <3>1. key[Writer] \notin linked[0]
        BY <2>1, <2>4, <1>5 DEF Link, ListInv, Inserting
      <3>2. linked'[0] = linked[0] \cup {key[Writer]}
        BY <2>1, <2>4, <1>5 DEF Link, ListInv, TypeOK
      <3>3. Abstract!TakeEffect
        BY <2>2, <2>3, <3>1, <3>2 DEF Abstract!TakeEffect
      <3> QED
        BY <3>3 DEF Abstract!SetNext
    <2>5. CASE level[Writer] # 0
      <3>1. linked'[0] = linked[0]
        BY <2>1, <2>5, <1>5 DEF Link, ListInv, TypeOK
      <3>2. key[Writer] \in linked[0]
        BY <2>1, <2>5, <1>1, <1>5 DEF Link, ListInv, Inserting
      <3>3. CASE op'[Writer] = "none"
        <4>1. Abstract!InsertReturns
          BY <2>2, <2>3, <3>1, <3>2, <3>3 DEF Abstract!InsertReturns
        <4> QED
          BY <4>1 DEF Abstract!SetNext
      <3>4. CASE op'[Writer] # "none"
        BY <2>2, <2>3, <3>1, <3>4 DEF Abstract!setVars
      <3> QED
        BY <3>3, <3>4
    <2> QED
      BY <2>4, <2>5
  <1> QED
    BY <1>3, <1>4, <1>5 DEF WriterStep

\* Every step is a step of the ordered set, or invisible to it.
LEMMA StepIsAtomic ==
  ASSUME ListInv, [Next]_vars
  PROVE  [Abstract!SetNext]_(Abstract!setVars)
  <1>1. N \in Nat /\ MaxHeight \in Nat /\ MaxHeight >= 1 /\ Writer \notin Readers
    BY ListAssumption
  <1>2. ASSUME NEW r \in Readers, ReaderStep(r)
        PROVE  Abstract!SetNext
    <2>1. key \in [Threads -> 1 .. NULL] /\ r \in Threads
      BY DEF ListInv, TypeOK, Threads
    <2>2. CASE Seek(r)
      <3>1. PICK k \in Keys, h \in heights : Begin(r, "Seek", k, h)
        BY <2>2 DEF Seek
      <3> QED
        BY <2>1, <2>2, <3>1, CallIsAtomic DEF Seek, Begin
    <2>3. CASE Prev(r)
      <3>1. PICK h \in heights : Begin(r, "Prev", node[r], h)
        BY <2>3 DEF Prev
      <3> QED
        BY <2>1, <2>3, <3>1, CallIsAtomic DEF Prev, Begin
    <2>4. CASE SeekToLast(r)
      <3>1. PICK h \in heights : Begin(r, "Last", NULL, h)
        BY <2>4 DEF SeekToLast
      <3> QED
        BY <2>1, <2>4, <3>1, CallIsAtomic DEF SeekToLast, Begin
    <2>5. CASE SeekToFirst(r)
      BY <2>5, CallIsAtomic DEF SeekToFirst
    <2>6. CASE Next_(r)
      BY <2>6, CallIsAtomic DEF Next_
    <2>7. CASE Follow(r)
      BY <2>7, FollowIsAtomic
    <2>8. CASE Return(r)
      BY <2>8, ReturnIsAtomic
    <2> QED
      BY <1>2, <2>2, <2>3, <2>4, <2>5, <2>6, <2>7, <2>8 DEF ReaderStep
  <1>3. ASSUME NEW t \in Threads, Advance(t) \/ Descend(t)
        PROVE  UNCHANGED Abstract!setVars
    BY <1>3, SearchIsInvisible DEF Advance, Descend, listVars
  <1>4. CASE UNCHANGED vars
    BY <1>4, SearchIsInvisible DEF vars
  <1> QED
    BY <1>2, <1>3, <1>4, WriterIsAtomic DEF Next

\* Lock-free readers see an atomic ordered set: the skip list implements
\* OrderedSet, with the nodes published at level 0 as its keys.  Whatever is
\* linked while a call runs, its answer is the right one for the target it was
\* called with at one instant between call and return.
THEOREM ReadersAreAtomic == Spec => ImplementsOrderedSet
  <1>1. Init => Abstract!SetInit
    <2>1. 0 \in Levels
      BY ListAssumption
    <2> QED
      BY <2>1 DEF Init, CallOf, Threads, Abstract!SetInit, Abstract!End, Abstract!NoCall
  <1>2. ListInv /\ [Next]_vars => [Abstract!SetNext]_(Abstract!setVars)
    BY StepIsAtomic
  <1> QED
    BY <1>1, <1>2, ListIsSound, PTL DEF Spec, ImplementsOrderedSet, Abstract!SetSpec

-----------------------------------------------------------------------------
(***************************************************************************)
(* The arena.  ArenaSound says nothing of the free part of the current     *)
(* block, so it is not inductive: ArenaInv adds that everything handed out *)
(* of the current block lies before alloc_ptr_, and that before the first  *)
(* shared block there is nothing to hand out.                              *)
(***************************************************************************)

\* The byte ranges of the history
Ranges == [block : Nat, from : Nat, to : Nat, aligned : BOOLEAN]

Arenas ==
  [blocks : Seq(Nat), block : Nat, offset : Nat, remaining : Nat, usage : Nat,
   given : SUBSET Ranges]

\* alloc_ptr_ and alloc_bytes_remaining_ are within the current block
Current(a) ==
  /\ a.block \in 0 .. Len(a.blocks)
  /\ a.block = 0 => a.offset = 0 /\ a.remaining = 0
  /\ a.block # 0 => a.offset + a.remaining = a.blocks[a.block]

Aligned(o) == o % Align = 0

\* A range lies in its block, before alloc_ptr_, and is aligned if asked for
Within(a, r) ==
  /\ r.block \in 1 .. Len(a.blocks)
  /\ r.from < r.to
  /\ r.to <= a.blocks[r.block]
  /\ r.block = a.block => r.to <= a.offset
  /\ r.aligned => Aligned(r.from)

Apart(r, s) == r.block = s.block => r.to <= s.from \/ s.to <= r.from

ArenaInv(a) ==
  /\ a \in Arenas
  /\ Current(a)
  /\ \A r \in a.given : Within(a, r)
  /\ \A r, s \in a.given : r # s => Apart(r, s)

\* A multiple of the alignment is aligned, offset 0 too.
LEMMA Multiple ==
  ASSUME NEW a \in Nat \ {0}, NEW q \in Nat
  PROVE  (a * q) % a = 0 /\ 0 % a = 0
  OBVIOUS

\* What the slop of AllocateAligned is for.
LEMMA Padding ==
  ASSUME NEW o \in Nat, NEW a \in Nat \ {0}, NEW m, m = o % a
  PROVE  m \in 0 .. a - 1 /\ (o + (a - m)) % a = 0
  <1>1. m \in 0 .. a - 1 /\ o \div a \in Nat /\ o = a * (o \div a) + m
    OBVIOUS
  <1>2. PICK q \in Nat : q = o \div a
    BY <1>1
  <1>3. PICK p \in Nat : p = a * q
    OBVIOUS
  <1>4. a * (q + 1) = p + a
    BY <1>3
  <1>5. o + (a - m) = p + a
    BY <1>1, <1>2, <1>3
  <1>6. (a * (q + 1)) % a = 0
    BY Multiple
  <1>7. (o + (a - m)) % a = 0
    BY <1>4, <1>5, <1>6
  <1> QED
    BY <1>1, <1>7

\* An object that is not large fits a shared block.
LEMMA SmallFits ==
  ASSUME NEW k \in Nat, NEW b \in Nat, ~(b > k \div 4)
  PROVE  b <= k
  OBVIOUS

\* Taking skip wasted bytes and an object from the current block.
LEMMA BumpKeeps ==
  ASSUME NEW a, ArenaInv(a), NEW skip \in Nat, NEW bytes \in Nat \ {0},
         NEW aligned \in BOOLEAN, skip + bytes <= a.remaining,
         aligned => Aligned(a.offset + skip)
  PROVE  ArenaInv(Bump(a, skip, bytes, aligned))
  <1> DEFINE n == Bump(a, skip, bytes, aligned)
             x == Range_(a.block, a.offset + skip, bytes, aligned)
  <1>1. /\ a.blocks \in Seq(Nat) /\ a.block \in Nat /\ a.offset \in Nat
        /\ a.remaining \in Nat /\ a.usage \in Nat /\ a.given \subseteq Ranges
    BY DEF ArenaInv, Arenas
  <1>r. n = [blocks |-> a.blocks, block |-> a.block, offset |-> a.offset + skip + bytes,
             remaining |-> a.remaining - (skip + bytes), usage |-> a.usage,
             given |-> a.given \cup {x}]
    <2>1. a = [blocks |-> a.blocks, block |-> a.block, offset |-> a.offset,
               remaining |-> a.remaining, usage |-> a.usage, given |-> a.given]
      BY DEF ArenaInv, Arenas
    <2>2. n = [a EXCEPT !.offset = @ + skip + bytes, !.remaining = @ - (skip + bytes),
                        !.given = @ \cup {x}]
      BY Zenon DEF Bump
    <2> HIDE DEF n, x
    <2> QED
      BY <2>1, <2>2
  <1> HIDE DEF n
  <1>2. /\ n.blocks = a.blocks /\ n.block = a.block /\ n.usage = a.usage
        /\ n.offset = a.offset + skip + bytes
        /\ n.remaining = a.remaining - (skip + bytes)
        /\ n.given = a.given \cup {x}
    BY <1>r
  <1>3. /\ x.block = a.block /\ x.from = a.offset + skip
        /\ x.to = a.offset + skip + bytes /\ x.aligned = aligned
        /\ x \in Ranges
    BY <1>1 DEF Range_, Ranges
  <1>4. n \in Arenas
    <2>1. n.offset \in Nat /\ n.remaining \in Nat /\ n.given \in SUBSET Ranges
      BY <1>1, <1>2, <1>3
    <2> QED
      BY <1>1, <1>2, <1>r, <2>1 DEF Arenas
  <1> HIDE DEF n, x
  <1>5. a.block # 0 /\ a.block \in 1 .. Len(a.blocks) /\ a.offset + a.remaining = a.blocks[a.block]
    BY <1>1 DEF ArenaInv, Current
  <1>6. Current(n)
    BY <1>1, <1>2, <1>5 DEF Current
  <1>7. Within(n, x)
    BY <1>1, <1>2, <1>3, <1>5, SMTT(30) DEF Within
  <1>8. ASSUME NEW r \in a.given
        PROVE  Within(n, r) /\ Apart(r, x) /\ Apart(x, r)
    <2>1. Within(a, r)
      BY DEF ArenaInv
    <2>2. r.block \in Nat /\ r.from \in Nat /\ r.to \in Nat
      BY <1>1 DEF Ranges
    <2>3. Within(n, r)
      BY <2>1, <2>2, <1>1, <1>2 DEF Within
    <2> QED
      BY <2>1, <2>2, <2>3, <1>1, <1>3, SMTT(30) DEF Within, Apart
  <1>9. \A r \in n.given : Within(n, r)
    BY <1>2, <1>7, <1>8
  <1>10. \A r, s \in n.given : r # s => Apart(r, s)
    BY <1>2, <1>8 DEF ArenaInv
  <1> QED
    BY <1>4, <1>6, <1>9, <1>10 DEF ArenaInv, n

\* A new block for the object alone, or a new shared block.
LEMMA FallbackKeeps ==
  ASSUME NEW a, ArenaInv(a), NEW bytes \in Nat \ {0}, NEW aligned \in BOOLEAN
  PROVE  ArenaInv(AllocateFallback(a, bytes, aligned))
  <1> DEFINE n == AllocateFallback(a, bytes, aligned)
             large == bytes > kBlockSize \div 4
             size == IF large THEN bytes ELSE kBlockSize
             x == Range_(Len(a.blocks) + 1, 0, bytes, aligned)
  <1>0. kBlockSize \in Nat /\ Align \in Nat \ {0} /\ PointerSize \in Nat \ {0} /\ Aligned(0)
    BY ArenaAssumption, Multiple DEF Aligned
  <1>1. /\ a.blocks \in Seq(Nat) /\ a.block \in Nat /\ a.offset \in Nat
        /\ a.remaining \in Nat /\ a.usage \in Nat /\ a.given \subseteq Ranges
    BY DEF ArenaInv, Arenas
  <1>2. size \in Nat /\ bytes <= size
    BY <1>0, SmallFits
  <1>m. /\ large => size = bytes
        /\ ~large => size = kBlockSize /\ bytes <= kBlockSize
    BY <1>0, SmallFits
  <1>n. n = IF large
            THEN [AllocateNewBlock(a, size) EXCEPT
                    !.given = @ \cup {Range_(Len(AllocateNewBlock(a, size).blocks), 0, bytes, aligned)}]
            ELSE [AllocateNewBlock(a, size) EXCEPT
                    !.block = Len(AllocateNewBlock(a, size).blocks), !.offset = bytes,
                    !.remaining = kBlockSize - bytes,
                    !.given = @ \cup {Range_(Len(AllocateNewBlock(a, size).blocks), 0, bytes, aligned)}]
    BY DEF AllocateFallback
  <1> HIDE DEF n, large, size
  <1>3. PICK b \in Seq(Nat) : b = Append(a.blocks, size)
    <2>1. Append(a.blocks, size) \in Seq(Nat)
      BY <1>1, <1>2
    <2> QED
      BY <2>1, Zenon
  <1>4. /\ Len(b) = Len(a.blocks) + 1 /\ b[Len(b)] = size
        /\ \A i \in 1 .. Len(a.blocks) : b[i] = a.blocks[i]
        /\ Len(a.blocks) \in Nat
    BY <1>1, <1>2, <1>3
  <1>5. /\ x.block = Len(b) /\ x.from = 0 /\ x.to = bytes /\ x.aligned = aligned
        /\ x \in Ranges
    BY <1>4 DEF Range_, Ranges
  <1>r. n = [blocks |-> b,
             block |-> IF large THEN a.block ELSE Len(b),
             offset |-> IF large THEN a.offset ELSE bytes,
             remaining |-> IF large THEN a.remaining ELSE kBlockSize - bytes,
             usage |-> a.usage + size + PointerSize,
             given |-> a.given \cup {x}]
    <2>1. a = [blocks |-> a.blocks, block |-> a.block, offset |-> a.offset,
               remaining |-> a.remaining, usage |-> a.usage, given |-> a.given]
      BY DEF ArenaInv, Arenas
    <2>2. PICK w : w = AllocateNewBlock(a, size)
      OBVIOUS
    <2>3. w = [blocks |-> b, block |-> a.block, offset |-> a.offset,
               remaining |-> a.remaining, usage |-> a.usage + size + PointerSize, given |-> a.given]
      BY <2>1, <2>2, <1>3 DEF AllocateNewBlock
    <2>4. x = Range_(Len(w.blocks), 0, bytes, aligned)
      BY <2>3, <1>4
    <2> HIDE DEF x
    <2>5. CASE large
      <3>1. n = [w EXCEPT !.given = @ \cup {x}]
        BY <2>2, <2>4, <2>5, <1>n
      <3> QED
        BY <2>3, <2>5, <3>1
    <2>6. CASE ~large
      <3>1. Len(b) = Len(w.blocks)
        BY <2>3
      <3>2. n = [w EXCEPT !.block = Len(b), !.offset = bytes,
                          !.remaining = kBlockSize - bytes, !.given = @ \cup {x}]
        BY <2>2, <2>4, <2>6, <3>1, <1>n
      <3> QED
        BY <2>3, <2>6, <3>2
    <2> QED
      BY <2>5, <2>6
  <1> HIDE DEF x
  <1>6. /\ n.blocks = b /\ n.usage = a.usage + size + PointerSize
        /\ n.given = a.given \cup {x}
        /\ n.block = IF large THEN a.block ELSE Len(b)
        /\ n.offset = IF large THEN a.offset ELSE bytes
        /\ n.remaining = IF large THEN a.remaining ELSE kBlockSize - bytes
    BY <1>r
  <1>7. n \in Arenas
    <2>1. n.usage \in Nat /\ n.given \in SUBSET Ranges
      BY <1>0, <1>1, <1>2, <1>5, <1>6
    <2>2. n.block \in Nat /\ n.offset \in Nat /\ n.remaining \in Nat
      BY <1>0, <1>1, <1>m, <1>4, <1>6
    <2> QED
      BY <1>6, <1>r, <2>1, <2>2 DEF Arenas
  <1>8. Current(n)
    <2>1. Current(a)
      BY DEF ArenaInv
    <2>2. CASE large
      <3>1. n.block = a.block /\ n.offset = a.offset /\ n.remaining = a.remaining
        BY <2>2, <1>6
      <3>2. a.block # 0 => b[a.block] = a.blocks[a.block]
        BY <2>1, <1>1, <1>4, SMTT(30) DEF Current
      <3> QED
        BY <2>1, <3>1, <3>2, <1>1, <1>4, <1>6 DEF Current
    <2>3. CASE ~large
      <3>1. n.block = Len(b) /\ n.offset + n.remaining = size /\ Len(b) > 0
        BY <2>3, <1>0, <1>m, <1>4, <1>6
      <3> QED
        BY <3>1, <1>4, <1>6 DEF Current
    <2> QED
      BY <2>2, <2>3
  <1>9. Within(n, x)
    <2>1. x.block = n.block => n.offset = bytes
      <3>1. a.block # Len(b)
        BY <1>1, <1>4 DEF ArenaInv, Current
      <3> QED
        BY <3>1, <1>5, <1>6
    <2>2. x.block \in 1 .. Len(b) /\ x.from < x.to /\ x.to <= b[x.block] /\ x.to = bytes
      BY <1>2, <1>4, <1>5
    <2>3. x.aligned => Aligned(x.from)
      BY <1>0, <1>5
    <2> QED
      BY <2>1, <2>2, <2>3, <1>6 DEF Within
  <1>10. ASSUME NEW r \in a.given
         PROVE  Within(n, r) /\ Apart(r, x) /\ Apart(x, r)
    <2>1. Within(a, r)
      BY DEF ArenaInv
    <2>2. r.block \in Nat /\ r.from \in Nat /\ r.to \in Nat
      BY <1>1 DEF Ranges
    <2>3. r.block \in 1 .. Len(a.blocks) /\ r.block # Len(b) /\ r.block \in 1 .. Len(b)
          /\ b[r.block] = a.blocks[r.block]
      BY <2>1, <1>4, SMTT(30) DEF Within
    <2>4. n.block = r.block => n.block = a.block /\ n.offset = a.offset
      BY <2>3, <1>6
    <2>5. Within(n, r)
      BY <2>1, <2>3, <2>4, <1>6 DEF Within
    <2> QED
      BY <2>3, <2>5, <1>5 DEF Apart
  <1>11. \A r \in n.given : Within(n, r)
    BY <1>6, <1>9, <1>10
  <1>12. \A r, s \in n.given : r # s => Apart(r, s)
    BY <1>6, <1>10 DEF ArenaInv
  <1> QED
    BY <1>7, <1>8, <1>11, <1>12 DEF ArenaInv, n

\* Both kinds of allocation.
LEMMA AllocationKeeps ==
  ASSUME NEW a, ArenaInv(a), NEW bytes \in Nat \ {0}
  PROVE  ArenaInv(Allocate(a, bytes)) /\ ArenaInv(AllocateAligned(a, bytes))
  <1>1. a.offset \in Nat /\ a.remaining \in Nat /\ Align \in Nat \ {0}
    BY ArenaAssumption DEF ArenaInv, Arenas
  <1>2. ArenaInv(Allocate(a, bytes))
    <2>1. CASE bytes <= a.remaining
      <3>1. 0 + bytes <= a.remaining /\ 0 \in Nat /\ FALSE \in BOOLEAN
        BY <2>1
      <3>2. FALSE => Aligned(a.offset + 0)
        OBVIOUS
      <3>3. ArenaInv(Bump(a, 0, bytes, FALSE))
        BY <3>1, <3>2, BumpKeeps, Zenon
      <3> QED
        BY <2>1, <3>3 DEF Allocate
    <2>2. CASE ~(bytes <= a.remaining)
      BY <2>2, FallbackKeeps DEF Allocate
    <2> QED
      BY <2>1, <2>2
  <1>3. ArenaInv(AllocateAligned(a, bytes))
    <2> DEFINE mod == a.offset % Align
               slop == IF mod = 0 THEN 0 ELSE Align - mod
    <2>1. slop \in Nat /\ Aligned(a.offset + slop)
      <3>1. mod \in 0 .. Align - 1 /\ Aligned(a.offset + (Align - mod))
        BY <1>1, Padding DEF Aligned
      <3>a. mod = 0 => Aligned(a.offset)
        BY Zenon DEF Aligned
      <3> HIDE DEF mod
      <3>2. CASE mod = 0
        <4>1. slop = 0 /\ a.offset + slop = a.offset
          BY <3>2, <1>1
        <4> QED
          BY <3>2, <3>a, <4>1
      <3>3. CASE mod # 0
        <4>1. slop = Align - mod /\ slop \in Nat
          BY <3>1, <3>3, <1>1
        <4> QED
          BY <3>1, <4>1
      <3> QED
        BY <3>2, <3>3
    <2>2. AllocateAligned(a, bytes) = IF bytes + slop <= a.remaining
                                      THEN Bump(a, slop, bytes, TRUE)
                                      ELSE AllocateFallback(a, bytes, TRUE)
      BY DEF AllocateAligned
    <2> HIDE DEF slop
    <2>3. CASE bytes + slop <= a.remaining
      <3>1. slop + bytes <= a.remaining
        BY <2>1, <2>3, <1>1
      <3>2. ArenaInv(Bump(a, slop, bytes, TRUE))
        BY <2>1, <3>1, BumpKeeps
      <3> QED
        BY <2>2, <2>3, <3>2
    <2>4. CASE ~(bytes + slop <= a.remaining)
      BY <2>2, <2>4, FallbackKeeps
    <2> QED
      BY <2>3, <2>4
  <1> QED
    BY <1>2, <1>3

\* No two entries or nodes of a memtable ever share a byte (util/arena.cc): what
\* Allocate and AllocateAligned return lies inside a block the arena owns,
\* overlaps nothing returned before and is aligned for a node, for every block
\* size, alignment and sequence of entry sizes.
THEOREM ArenaNeverOverlaps == Spec => []ArenaSound
  <1>0. /\ \A h \in 1 .. MaxHeight : NodeSize(h) \in Nat \ {0}
        /\ MaxHeight \in 1 .. MaxHeight /\ EntrySizes \subseteq Nat \ {0}
    <2>1. PointerSize \in Nat \ {0} /\ MaxHeight \in Nat \ {0} /\ EntrySizes \subseteq Nat \ {0}
      BY ArenaAssumption, ListAssumption
    <2>2. ASSUME NEW h \in 1 .. MaxHeight
          PROVE  PointerSize * (h + 1) \in Nat \ {0}
      BY <2>1
    <2> QED
      BY <2>1, <2>2 DEF NodeSize
  <1>1. Init => ArenaInv(arena)
    <2>1. ArenaInv(NewArena)
      BY DEF NewArena, ArenaInv, Arenas, Current
    <2> QED
      BY <1>0, <2>1, AllocationKeeps DEF Init
  <1>2. ArenaInv(arena) /\ [Next]_vars => ArenaInv(arena)'
    <2> SUFFICES ASSUME ArenaInv(arena), [Next]_vars
                 PROVE  ArenaInv(arena')
      OBVIOUS
    <2>1. ASSUME NEW k \in Keys, NEW size \in EntrySizes, Add(k, size)
          PROVE  ArenaInv(arena')
      BY <2>1, <1>0, AllocationKeeps DEF Add
    <2>2. ASSUME NEW h \in 1 .. MaxHeight, Raise(h)
          PROVE  ArenaInv(arena')
      BY <2>2, <1>0, AllocationKeeps DEF Raise
    <2>3. ASSUME NEW r \in Readers, ReaderStep(r)
          PROVE  arena' = arena
      BY <2>3 DEF ReaderStep, Seek, Prev, SeekToLast, SeekToFirst, Next_, Follow, Return, listVars
    <2>4. ASSUME NEW t \in Threads, Advance(t) \/ Descend(t)
          PROVE  arena' = arena
      BY <2>4 DEF Advance, Descend, listVars
    <2>5. CASE FoundPlace \/ SetNext \/ Link \/ UNCHANGED vars
      BY <2>5 DEF FoundPlace, SetNext, Link, listVars, vars
    <2> QED
      BY <2>1, <2>2, <2>3, <2>4, <2>5 DEF Next, WriterStep
  <1>3. ArenaInv(arena) => ArenaSound
    <2> SUFFICES ASSUME ArenaInv(arena) PROVE ArenaSound
      OBVIOUS
    <2>1. arena.blocks \in Seq(Nat) /\ Current(arena)
      BY DEF ArenaInv, Arenas
    <2>2. ASSUME NEW r \in arena.given
          PROVE  /\ r.block \in DOMAIN arena.blocks
                 /\ r.to <= arena.blocks[r.block]
                 /\ r.aligned => r.from % Align = 0
                 /\ \A s \in arena.given :
                      s # r /\ s.block = r.block => r.to <= s.from \/ s.to <= r.from
      <3>1. Within(arena, r)
        BY DEF ArenaInv
      <3>2. r.block \in DOMAIN arena.blocks
        BY <2>1, <3>1 DEF Within
      <3>3. \A s \in arena.given : s # r => Apart(r, s)
        BY DEF ArenaInv
      <3>4. r.aligned => r.from % Align = 0
        BY <3>1, Zenon DEF Within, Aligned
      <3> QED
        BY <3>1, <3>2, <3>3, <3>4 DEF Within, Apart
    <2> QED
      BY <2>1, <2>2 DEF ArenaSound, Current
  <1> QED
    BY <1>1, <1>2, <1>3, PTL DEF Spec
=============================================================================
