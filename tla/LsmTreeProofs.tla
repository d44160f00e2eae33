--------------------------- MODULE LsmTreeProofs ----------------------------
(***************************************************************************)
(* Theorems about LsmTree, for any number of keys, writes and levels and   *)
(* any sizes: the levels are disjoint, what is newer lies above, and a read*)
(* returns the last write.                                                 *)
(***************************************************************************)
EXTENDS LsmTree, FiniteSetTheorems, SequenceTheorems, TLAPS

-----------------------------------------------------------------------------
(* Finite sets in order.                                                   *)

StrictOrder(S, R) ==
    /\ \A x \in S : <<x, x>> \notin R
    /\ \A x, y, z \in S : <<x, y>> \in R /\ <<y, z>> \in R => <<x, z>> \in R
    /\ \A x, y \in S : x = y \/ <<x, y>> \in R \/ <<y, x>> \in R

Before(S, R, x) == {y \in S : <<y, x>> \in R}

\* How many elements come before one tells them apart, and takes every value.
LEMMA Ranks ==
  ASSUME NEW S, IsFiniteSet(S), NEW R, StrictOrder(S, R)
  PROVE  /\ Cardinality(S) \in Nat
         /\ \A x \in S : Cardinality(Before(S, R, x)) \in 0..(Cardinality(S) - 1)
         /\ \A x, y \in S : <<x, y>> \in R =>
               Cardinality(Before(S, R, x)) < Cardinality(Before(S, R, y))
         /\ \A n \in 0..(Cardinality(S) - 1) : \E x \in S : Cardinality(Before(S, R, x)) = n
  <1> DEFINE rank == [x \in S |-> Cardinality(Before(S, R, x))]
             T == 0..(Cardinality(S) - 1)
  <1>1. Cardinality(S) \in Nat
    BY FS_CardinalityType
  <1>2. \A x \in S : IsFiniteSet(Before(S, R, x)) /\ Cardinality(Before(S, R, x)) \in Nat
    <2> TAKE x \in S
    <2>1. Before(S, R, x) \in SUBSET S
      BY DEF Before
    <2> QED
      BY <2>1, FS_Subset, FS_CardinalityType
  <1>3. ASSUME NEW x \in S PROVE Cardinality(Before(S, R, x)) \in T
    <2>1. /\ Before(S, R, x) \in SUBSET S /\ x \notin Before(S, R, x)
      BY DEF Before, StrictOrder
    <2>2. /\ Cardinality(Before(S, R, x)) <= Cardinality(S)
          /\ Cardinality(Before(S, R, x)) # Cardinality(S)
      BY <2>1, FS_Subset
    <2> QED
      BY <2>2, <1>1, <1>2
  <1>4. ASSUME NEW x \in S, NEW y \in S, <<x, y>> \in R
        PROVE  Cardinality(Before(S, R, x)) < Cardinality(Before(S, R, y))
    <2>1. /\ Before(S, R, x) \in SUBSET Before(S, R, y)
          /\ x \in Before(S, R, y) /\ x \notin Before(S, R, x)
      BY <1>4 DEF Before, StrictOrder
    <2>2. /\ Cardinality(Before(S, R, x)) <= Cardinality(Before(S, R, y))
          /\ Cardinality(Before(S, R, x)) # Cardinality(Before(S, R, y))
      BY <2>1, <1>2, FS_Subset
    <2> QED
      BY <2>2, <1>2
  <1>5. rank \in Injection(S, T)
    <2>1. rank \in [S -> T]
      BY <1>3
    <2>2. ASSUME NEW x \in S, NEW y \in S, rank[x] = rank[y] PROVE x = y
      <3>1. ~(rank[x] < rank[y]) /\ ~(rank[y] < rank[x])
        BY <2>2, <1>2
      <3> QED
        BY <3>1, <1>4 DEF StrictOrder
    <2> QED
      BY <2>1, <2>2 DEF Injection, IsInjective
  <1>6. IsFiniteSet(T) /\ Cardinality(T) = Cardinality(S)
    <2>1. /\ 0 \in Int /\ Cardinality(S) - 1 \in Int
      BY <1>1
    <2>2. /\ IsFiniteSet(T)
          /\ Cardinality(T) = IF 0 > Cardinality(S) - 1 THEN 0 ELSE Cardinality(S) - 1 - 0 + 1
      BY <2>1, FS_Interval
    <2> QED
      BY <2>2, <1>1
  <1>7. rank \in Surjection(S, T)
    <2> HIDE DEF rank, T
    <2> QED
      BY <1>5, <1>6, FS_Injection
  <1>8. ASSUME NEW n \in T PROVE \E x \in S : Cardinality(Before(S, R, x)) = n
    BY <1>7 DEF Surjection
  <1> QED
    BY <1>1, <1>3, <1>4, <1>8

\* InOrder lists a finite set, every element once, as the order has it.
LEMMA InOrderFacts ==
  ASSUME NEW S, IsFiniteSet(S), NEW R, StrictOrder(S, R)
  PROVE  /\ Cardinality(S) \in Nat
         /\ InOrder(S, R) \in [1..Cardinality(S) -> S]
         /\ InOrder(S, R) \in Seq(S) /\ Len(InOrder(S, R)) = Cardinality(S)
         /\ \A i, j \in 1..Cardinality(S) : i < j => <<InOrder(S, R)[i], InOrder(S, R)[j]>> \in R
         /\ \A x \in S : \E i \in 1..Cardinality(S) : InOrder(S, R)[i] = x
  <1> DEFINE n == Cardinality(S)
             s == InOrder(S, R)
             rank(x) == Cardinality(Before(S, R, x))
  <1>1. /\ n \in Nat
        /\ \A x \in S : rank(x) \in 0..(n - 1)
        /\ \A x, y \in S : <<x, y>> \in R => rank(x) < rank(y)
        /\ \A i \in 0..(n - 1) : \E x \in S : rank(x) = i
    BY Ranks
  <1>2. s = [i \in 1..n |-> CHOOSE x \in S : rank(x) = i - 1]
    BY DEF InOrder, Before
  <1> HIDE DEF n, s
  <1>3. ASSUME NEW i \in 1..n PROVE s[i] \in S /\ rank(s[i]) = i - 1
    <2>1. i - 1 \in 0..(n - 1)
      BY <1>1
    <2>2. \E x \in S : rank(x) = i - 1
      BY <1>1, <2>1
    <2>3. s[i] = CHOOSE x \in S : rank(x) = i - 1
      BY <1>2
    <2> HIDE DEF rank
    <2> QED
      BY <2>2, <2>3
  <1>4. s \in [1..n -> S]
    <2>1. s = [i \in 1..n |-> s[i]]
      BY <1>2
    <2> QED
      BY <2>1, <1>3
  <1>5. s \in Seq(S) /\ Len(s) = n
    BY <1>4, <1>1
  <1>6. ASSUME NEW i \in 1..n, NEW j \in 1..n, i < j PROVE <<s[i], s[j]>> \in R
    <2>1. /\ s[i] \in S /\ s[j] \in S /\ rank(s[i]) = i - 1 /\ rank(s[j]) = j - 1
      BY <1>3
    <2>2. s[i] # s[j] /\ ~(rank(s[j]) < rank(s[i]))
      BY <2>1, <1>1, <1>6
    <2> HIDE DEF rank
    <2> QED
      BY <2>1, <2>2, <1>1 DEF StrictOrder
  <1>7. ASSUME NEW x \in S PROVE \E i \in 1..n : s[i] = x
    <2>1. rank(x) \in 0..(n - 1)
      BY <1>1
    <2> DEFINE i == rank(x) + 1
    <2>2. i \in 1..n /\ i - 1 = rank(x)
      BY <2>1, <1>1
    <2>3. s[i] \in S /\ rank(s[i]) = rank(x)
      BY <2>2, <1>3
    <2>4. ~(rank(x) < rank(s[i])) /\ ~(rank(s[i]) < rank(x))
      BY <2>1, <2>3, <1>1
    <2>5. s[i] = x
      BY <2>3, <2>4, <1>1 DEF StrictOrder
    <2> QED
      BY <2>2, <2>5
  <1> QED
    BY <1>1, <1>4, <1>5, <1>6, <1>7 DEF n, s

\* A nonempty finite set has a first and a last element.
LEMMA Extremes ==
  ASSUME NEW S, IsFiniteSet(S), S # {}, NEW R, StrictOrder(S, R)
  PROVE  /\ \E a \in S : \A x \in S \ {a} : <<a, x>> \in R
         /\ \E z \in S : \A x \in S \ {z} : <<x, z>> \in R
  <1> DEFINE n == Cardinality(S)
             s == InOrder(S, R)
  <1>1. /\ n \in Nat /\ s \in [1..n -> S]
        /\ \A i, j \in 1..n : i < j => <<s[i], s[j]>> \in R
        /\ \A x \in S : \E i \in 1..n : s[i] = x
    BY InOrderFacts
  <1> HIDE DEF n, s
  <1>2. 1 \in 1..n /\ n \in 1..n
    BY <1>1
  <1>3. ASSUME NEW x \in S \ {s[1]} PROVE <<s[1], x>> \in R
    <2>1. PICK i \in 1..n : s[i] = x
      BY <1>1
    <2>2. 1 < i
      BY <2>1, <1>1
    <2> QED
      BY <2>1, <2>2, <1>1, <1>2
  <1>4. ASSUME NEW x \in S \ {s[n]} PROVE <<x, s[n]>> \in R
    <2>1. PICK i \in 1..n : s[i] = x
      BY <1>1
    <2>2. i < n
      BY <2>1, <1>1
    <2> QED
      BY <2>1, <2>2, <1>1, <1>2
  <1> QED
    BY <1>1, <1>2, <1>3, <1>4

\* The naturals are well founded under <.
LEMMA NatLess == IsWellFoundedOn({p \in Nat \X Nat : p[1] < p[2]}, Nat)
  BY NatLessThanWellFounded DEF OpToRel

\* Every nonempty set of naturals has a least element.
LEMMA LeastNatural ==
  ASSUME NEW T \in SUBSET Nat, T # {}
  PROVE  \E m \in T : \A y \in T : m <= y
  <1> DEFINE R == {p \in Nat \X Nat : p[1] < p[2]}
  <1>1. PICK m \in T : \A y \in T : ~(<<y, m>> \in R)
    <2>1. IsWellFoundedOn(R, Nat)
      BY NatLess
    <2> HIDE DEF R
    <2> QED
      BY <2>1, WFMin
  <1>2. ASSUME NEW y \in T PROVE m <= y
    <2>1. ~(y < m)
      BY <1>1
    <2>2. y \in Nat /\ m \in Nat
      OBVIOUS
    <2> QED
      BY <2>1, <2>2
  <1> QED
    BY <1>2

\* What a loop of N rounds goes through, and that there is such a run.
Run(S, start, N, step) ==
    {f \in [0..N -> S] : f[0] = start /\ \A n \in 1..N : f[n] = step[n][f[n - 1]]}

\* A loop of N rounds runs: the recursive function that follows it exists.
LEMMA Rounds ==
  ASSUME NEW S, NEW start \in S, NEW N \in Nat, NEW step \in [1..N -> [S -> S]]
  PROVE  Run(S, start, N, step) # {}
  <1> DEFINE Good(n, f) == f[0] = start /\ \A i \in 1..n : f[i] = step[i][f[i - 1]]
             Bad == {n \in 0..N : ~\E f \in [0..n -> S] : Good(n, f)}
  <1>1. CASE Bad = {}
    <2>1. N \in 0..N /\ N \notin Bad
      <3>1. N \in 0..N
        OBVIOUS
      <3> HIDE DEF Bad
      <3> QED
        BY <1>1, <3>1
    <2>2. \E f \in [0..N -> S] : Good(N, f)
      <3> HIDE DEF Good
      <3> QED
        BY <2>1
    <2> QED
      BY <2>2 DEF Run
  <1>2. CASE Bad # {}
    <2>1. Bad \in SUBSET Nat
      OBVIOUS
    <2>2. PICK n \in Bad : \A y \in Bad : n <= y
      <3> HIDE DEF Bad
      <3> QED
        BY <1>2, <2>1, LeastNatural
    <2>3. n \in 0..N
      OBVIOUS
    <2>4. CASE n = 0
      <3> DEFINE f == [i \in 0..0 |-> start]
      <3>1. f \in [0..n -> S] /\ Good(n, f)
        BY <2>4
      <3> QED
        BY <3>1
    <2>5. CASE n # 0
      <3>11. n - 1 \in 0..N /\ ~(n <= n - 1)
        BY <2>3, <2>5
      <3>1. n - 1 \notin Bad
        <4> HIDE DEF Bad
        <4> QED
          BY <2>2, <3>11
      <3>2. PICK f \in [0..(n - 1) -> S] : Good(n - 1, f)
        BY <3>11, <3>1
      <3> DEFINE g == [i \in 0..n |-> IF i = n THEN step[n][f[n - 1]] ELSE f[i]]
      <3>3. n - 1 \in 0..(n - 1) /\ n \in 1..N /\ f[n - 1] \in S
        BY <2>3, <2>5
      <3>4. step[n][f[n - 1]] \in S
        BY <3>3
      <3>5. \A i \in 0..n : i # n => i \in 0..(n - 1)
        BY <2>3
      <3>6. g \in [0..n -> S]
        BY <3>4, <3>5
      <3>7. g[0] = start
        <4>1. 0 \in 0..n /\ 0 # n
          BY <2>3, <2>5
        <4> QED
          BY <4>1, <3>2
      <3>8. ASSUME NEW i \in 1..n PROVE g[i] = step[i][g[i - 1]]
        <4>1. i \in 0..n /\ i - 1 \in 0..n /\ i - 1 # n
          BY <2>3
        <4>2. g[i - 1] = f[i - 1]
          BY <4>1
        <4>3. CASE i = n
          BY <4>1, <4>2, <4>3
        <4>4. CASE i # n
          <5>1. i \in 1..(n - 1)
            BY <4>4, <2>3
          <5> QED
            BY <5>1, <4>1, <4>2, <4>4, <3>2
        <4> QED
          BY <4>3, <4>4
      <3>9. Good(n, g)
        BY <3>7, <3>8
      <3> QED
        BY <3>6, <3>9
    <2> QED
      BY <2>4, <2>5
  <1> QED
    BY <1>1, <1>2

\* Induction over the rounds of a loop: A is the set of rounds a claim holds of.
LEMMA UpTo ==
  ASSUME NEW N \in Nat, NEW A, 0 \in A,
         \A n \in 1..N : n - 1 \in A => n \in A
  PROVE  \A n \in 0..N : n \in A
  <1> DEFINE Bad == {n \in 0..N : n \notin A}
  <1>1. CASE Bad = {}
    BY <1>1
  <1>2. CASE Bad # {}
    <2>1. Bad \in SUBSET Nat
      OBVIOUS
    <2>2. PICK n \in Bad : \A y \in Bad : n <= y
      <3> HIDE DEF Bad
      <3> QED
        BY <1>2, <2>1, LeastNatural
    <2>3. n \in 1..N /\ n - 1 \in 0..N
      OBVIOUS
    <2>4. n - 1 \notin Bad
      <3>1. n - 1 < n
        BY <2>3
      <3> HIDE DEF Bad
      <3> QED
        BY <3>1, <2>1, <2>2
    <2> QED
      BY <2>3, <2>4
  <1> QED
    BY <1>1, <1>2

-----------------------------------------------------------------------------
(* Internal keys and tables.                                               *)

InternalKeys == Nat \X Nat \X {"value", "deletion"}

\* The entries of a table: one for each user key and sequence number.
KeySet(S) ==
    /\ S \subseteq InternalKeys /\ IsFiniteSet(S) /\ S # {}
    /\ \A a, b \in S : a[1] = b[1] /\ a[2] = b[2] => a = b

Tables == {f \in [number : Nat, entries : SUBSET InternalKeys] : KeySet(f.entries)}

Disjoint(S) ==
    \A f, g \in S : f = g \/ Less(largest(f), smallest(g)) \/ Less(largest(g), smallest(f))

\* InternalKeyComparator is a strict order, and it refines that of the user keys.
LEMMA LessOrders ==
  /\ \A a \in InternalKeys : ~Less(a, a)
  /\ \A a, b \in InternalKeys : Less(a, b) => ~Less(b, a)
  /\ \A a, b, c \in InternalKeys : Less(a, b) /\ Less(b, c) => Less(a, c)
  /\ \A a, b, c \in InternalKeys : ~Less(b, a) /\ Less(b, c) => Less(a, c)
  /\ \A a, b, c \in InternalKeys : Less(a, b) /\ ~Less(c, b) => Less(a, c)
  /\ \A a, b, c \in InternalKeys : ~Less(b, a) /\ ~Less(c, b) => ~Less(c, a)
  /\ \A a, b \in InternalKeys : Less(a, b) => a[1] <= b[1]
  /\ \A a, b \in InternalKeys : ~Less(a, b) => b[1] <= a[1]
  /\ \A a, b \in InternalKeys : a[1] < b[1] => Less(a, b)
  BY DEF InternalKeys, Less

\* No two entries of a table are the same key for InternalKeyComparator.
LEMMA KeySetOrder ==
  ASSUME NEW S, KeySet(S)
  PROVE  StrictOrder(S, {p \in S \X S : Less(p[1], p[2])})
  <1>1. \A a, b \in S : a = b \/ Less(a, b) \/ Less(b, a)
    <2> SUFFICES ASSUME NEW a \in S, NEW b \in S, ~Less(a, b), ~Less(b, a) PROVE a = b
      OBVIOUS
    <2>1. a \in InternalKeys /\ b \in InternalKeys
      BY DEF KeySet
    <2>2. a[1] = b[1] /\ a[2] = b[2]
      BY <2>1 DEF InternalKeys, Less
    <2> QED
      BY <2>2 DEF KeySet
  <1>2. S \subseteq InternalKeys
    BY DEF KeySet
  <1> QED
    BY <1>1, <1>2, LessOrders DEF StrictOrder

\* The first and the last entry of a table bound all the others.
LEMMA FirstAndLast ==
  ASSUME NEW S, KeySet(S)
  PROVE  /\ FirstOf(S) \in S /\ FirstOf(S) \in InternalKeys
         /\ LastOf(S) \in S /\ LastOf(S) \in InternalKeys
         /\ \A e \in S : ~Less(e, FirstOf(S)) /\ ~Less(LastOf(S), e)
         /\ \A e \in S : e # FirstOf(S) => Less(FirstOf(S), e)
         /\ \A e \in S : e # LastOf(S) => Less(e, LastOf(S))
         /\ \A e \in S : FirstOf(S)[1] <= e[1] /\ e[1] <= LastOf(S)[1]
  <1> DEFINE R == {p \in S \X S : Less(p[1], p[2])}
  <1>1. /\ \E a \in S : \A x \in S \ {a} : <<a, x>> \in R
        /\ \E z \in S : \A x \in S \ {z} : <<x, z>> \in R
    <2>1. StrictOrder(S, R) /\ IsFiniteSet(S) /\ S # {}
      BY KeySetOrder DEF KeySet
    <2> HIDE DEF R
    <2> QED
      BY <2>1, Extremes
  <1>2. FirstOf(S) \in S /\ \A e \in S \ {FirstOf(S)} : Less(FirstOf(S), e)
    <2>1. \E a \in S : \A x \in S \ {a} : Less(a, x)
      BY <1>1
    <2> QED
      BY <2>1 DEF FirstOf
  <1>3. LastOf(S) \in S /\ \A e \in S \ {LastOf(S)} : Less(e, LastOf(S))
    <2>1. \E a \in S : \A x \in S \ {a} : Less(x, a)
      BY <1>1
    <2> QED
      BY <2>1 DEF LastOf
  <1>4. S \subseteq InternalKeys
    BY DEF KeySet
  <1> HIDE DEF R
  <1> QED
    BY <1>2, <1>3, <1>4, LessOrders

\* A file's smallest and largest key are entries of it and bound the others.
LEMMA TableKeys ==
  ASSUME NEW f \in Tables
  PROVE  /\ f.number \in Nat /\ f.entries # {}
         /\ smallest(f) \in f.entries /\ smallest(f) \in InternalKeys
         /\ largest(f) \in f.entries /\ largest(f) \in InternalKeys
         /\ smallest(f)[1] \in Nat /\ largest(f)[1] \in Nat
         /\ smallest(f)[1] <= largest(f)[1] /\ ~Less(largest(f), smallest(f))
         /\ \A e \in f.entries : /\ e \in InternalKeys
                                 /\ ~Less(e, smallest(f)) /\ ~Less(largest(f), e)
                                 /\ smallest(f)[1] <= e[1] /\ e[1] <= largest(f)[1]
  <1>1. KeySet(f.entries) /\ f.number \in Nat
    BY DEF Tables
  <1>2. /\ FirstOf(f.entries) \in f.entries /\ FirstOf(f.entries) \in InternalKeys
        /\ LastOf(f.entries) \in f.entries /\ LastOf(f.entries) \in InternalKeys
        /\ \A e \in f.entries : ~Less(e, FirstOf(f.entries)) /\ ~Less(LastOf(f.entries), e)
        /\ \A e \in f.entries : FirstOf(f.entries)[1] <= e[1] /\ e[1] <= LastOf(f.entries)[1]
    BY <1>1, FirstAndLast
  <1>3. f.entries \subseteq InternalKeys /\ f.entries # {}
    BY <1>1 DEF KeySet
  <1>4. \A e \in InternalKeys : e[1] \in Nat
    BY DEF InternalKeys
  <1> QED
    BY <1>1, <1>2, <1>3, <1>4 DEF smallest, largest

\* The files of a level whose ranges are disjoint, in order.
LEMMA DisjointInOrder ==
  ASSUME NEW S \in SUBSET Tables, IsFiniteSet(S), Disjoint(S)
  PROVE  /\ Listed(S) \in Seq(S) /\ Listed(S) \in Seq(Tables)
         /\ \A i, j \in 1..Len(Listed(S)) :
               i < j => Less(largest(Listed(S)[i]), smallest(Listed(S)[j]))
         /\ \A f \in S : \E i \in 1..Len(Listed(S)) : Listed(S)[i] = f
         /\ \A i \in 1..Len(Listed(S)) : Listed(S)[i] \in S
  <1> DEFINE R == {p \in S \X S : Precedes(p[1], p[2])}
  <1>1. \A f, g \in S : Precedes(f, g) <=> Less(largest(f), smallest(g))
    <2> SUFFICES ASSUME NEW f \in S, NEW g \in S
                 PROVE  Precedes(f, g) <=> Less(largest(f), smallest(g))
      OBVIOUS
    <2>1. /\ smallest(f) \in InternalKeys /\ largest(f) \in InternalKeys
          /\ smallest(g) \in InternalKeys /\ largest(g) \in InternalKeys
          /\ ~Less(largest(f), smallest(f)) /\ ~Less(largest(g), smallest(g))
          /\ f.number \in Nat /\ g.number \in Nat
      BY TableKeys
    <2>2. CASE f = g
      BY <2>1, <2>2, LessOrders DEF Precedes
    <2>3. CASE Less(largest(f), smallest(g))
      BY <2>1, <2>3, LessOrders DEF Precedes
    <2>4. CASE Less(largest(g), smallest(f))
      BY <2>1, <2>4, LessOrders DEF Precedes
    <2> QED
      BY <2>2, <2>3, <2>4 DEF Disjoint
  <1>2. StrictOrder(S, R)
    <2>1. \A f \in S : /\ smallest(f) \in InternalKeys /\ largest(f) \in InternalKeys
                       /\ ~Less(largest(f), smallest(f))
      BY TableKeys
    <2> QED
      BY <1>1, <2>1, LessOrders DEF StrictOrder, Disjoint
  <1> HIDE DEF R
  <1>3. /\ Cardinality(S) \in Nat
        /\ InOrder(S, R) \in [1..Cardinality(S) -> S]
        /\ InOrder(S, R) \in Seq(S) /\ Len(InOrder(S, R)) = Cardinality(S)
        /\ \A i, j \in 1..Cardinality(S) : i < j => <<InOrder(S, R)[i], InOrder(S, R)[j]>> \in R
        /\ \A x \in S : \E i \in 1..Cardinality(S) : InOrder(S, R)[i] = x
    BY <1>2, InOrderFacts
  <1>4. Listed(S) = InOrder(S, R)
    BY DEF Listed, R
  <1>5. \A i, j \in 1..Cardinality(S) :
           i < j => Less(largest(Listed(S)[i]), smallest(Listed(S)[j]))
    <2> SUFFICES ASSUME NEW i \in 1..Cardinality(S), NEW j \in 1..Cardinality(S), i < j
                 PROVE  Less(largest(Listed(S)[i]), smallest(Listed(S)[j]))
      OBVIOUS
    <2>1. <<Listed(S)[i], Listed(S)[j]>> \in R
      BY <1>3, <1>4
    <2> QED
      BY <2>1, <1>1 DEF R
  <1>6. Listed(S) \in Seq(Tables)
    <2>1. Listed(S) \in [1..Cardinality(S) -> Tables]
      BY <1>3, <1>4
    <2> QED
      BY <2>1, <1>3
  <1> QED
    BY <1>3, <1>4, <1>5, <1>6

\* FindFile's search: all files before the one it returns end before the
\* target, and no file from there on does.
LEMMA FindFileFacts ==
  ASSUME NEW list \in Seq(Tables), NEW target \in InternalKeys,
         \A i, j \in 1..Len(list) : i < j => Less(largest(list[i]), smallest(list[j]))
  PROVE  /\ FindFile(list, target) \in 1..(Len(list) + 1)
         /\ \A i \in 1..Len(list) :
               i < FindFile(list, target) <=> Less(largest(list[i]), target)
  <1> DEFINE N == Len(list)
             S == {p \in (0..N) \X (0..N) : p[1] <= p[2]}
             start == <<0, N>>
             step == [n \in 1..N |-> [p \in S |-> Bisect(list, target, p)]]
  <1>1. N \in Nat
    OBVIOUS
  <1>2. \A p \in S : /\ Bisect(list, target, p) \in S
                     /\ p[1] < p[2] =>
                          Bisect(list, target, p)[2] - Bisect(list, target, p)[1] < p[2] - p[1]
                     /\ p[1] = p[2] => Bisect(list, target, p) = p
    <2> SUFFICES ASSUME NEW p \in S
                 PROVE  /\ Bisect(list, target, p) \in S
                        /\ p[1] < p[2] =>
                          Bisect(list, target, p)[2] - Bisect(list, target, p)[1] < p[2] - p[1]
                        /\ p[1] = p[2] => Bisect(list, target, p) = p
      OBVIOUS
    <2>1. PICK a \in 0..N, b \in 0..N : p = <<a, b>> /\ a <= b
      OBVIOUS
    <2> DEFINE mid == (a + b) \div 2
    <2>2. mid \in Int /\ a <= mid /\ (a < b => mid < b)
      BY <2>1, <1>1
    <2> HIDE DEF mid, N
    <2>3. Bisect(list, target, p) =
             IF a >= b THEN p
             ELSE IF Less(largest(list[mid + 1]), target) THEN <<mid + 1, b>> ELSE <<a, mid>>
      BY <2>1 DEF Bisect, mid
    <2>4. CASE a >= b
      BY <2>1, <2>3, <2>4, <1>1
    <2>5. CASE a < b
      <3>1. mid + 1 \in 0..N /\ mid \in 0..N /\ mid + 1 <= b /\ a <= mid
        BY <2>1, <2>2, <2>5, <1>1
      <3>2. \/ Bisect(list, target, p) = <<mid + 1, b>>
            \/ Bisect(list, target, p) = <<a, mid>>
        BY <2>1, <2>3, <2>5, <1>1
      <3>3. <<mid + 1, b>> \in S /\ <<a, mid>> \in S
        BY <3>1, <2>1
      <3>4. b - (mid + 1) < b - a /\ mid - a < b - a
        BY <3>1, <2>1, <2>2, <2>5, <1>1
      <3>5. p[1] = a /\ p[2] = b /\ a # b
        BY <2>1, <2>5, <1>1
      <3> HIDE DEF S
      <3> QED
        BY <3>2, <3>3, <3>4, <3>5
    <2> QED
      BY <2>1, <2>4, <2>5, <1>1
  <1>3. start \in S /\ step \in [1..N -> [S -> S]]
    BY <1>1, <1>2
  <1>4. PICK f \in [0..N -> S] : /\ f[0] = start
                                 /\ \A n \in 1..N : f[n] = step[n][f[n - 1]]
    <2> HIDE DEF N, S, start, step
    <2>1. Run(S, start, N, step) # {}
      BY <1>1, <1>3, Rounds
    <2> QED
      BY <2>1 DEF Run
  <1> DEFINE Is(g) == g = [n \in 0..N |-> IF n = 0 THEN start ELSE Bisect(list, target, g[n - 1])]
             left_right == CHOOSE g : Is(g)
  <1>5. Is(f)
    <2>1. \A n \in 0..N : n # 0 => n \in 1..N /\ n - 1 \in 0..N
      BY <1>1
    <2>2. \A n \in 1..N : f[n] = Bisect(list, target, f[n - 1])
      <3> TAKE n \in 1..N
      <3>1. f[n - 1] \in S
        <4>1. n - 1 \in 0..N
          BY <1>1
        <4> HIDE DEF S
        <4> QED
          BY <4>1
      <3> HIDE DEF S, N
      <3> QED
        BY <3>1, <1>4
    <2> HIDE DEF S, N, start
    <2> QED
      BY <2>1, <2>2, <1>4
  <1>6. Is(left_right)
    <2> HIDE DEF Is
    <2> QED
      BY <1>5
  <1>7. FindFile(list, target) = left_right[N][2] + 1
    BY DEF FindFile
  <1> HIDE DEF left_right
  <1>8. /\ left_right[0] = start
        /\ \A n \in 1..N : n - 1 \in 0..N /\ left_right[n] = Bisect(list, target, left_right[n - 1])
    <2>1. 0 \in 0..N /\ \A n \in 1..N : n \in 0..N /\ n # 0 /\ n - 1 \in 0..N
      BY <1>1
    <2> HIDE DEF N, start
    <2> QED
      BY <1>6, <2>1
  <1> DEFINE Found(p) == /\ \A i \in 1..N : i <= p[1] => Less(largest(list[i]), target)
                         /\ \A i \in 1..N : i > p[2] => ~Less(largest(list[i]), target)
             Good == {n \in 0..N : /\ left_right[n] \in S /\ Found(left_right[n])
                                   /\ left_right[n][2] - left_right[n][1] <= N - n}
  <1>9. \A p \in S : Found(p) => Found(Bisect(list, target, p))
    <2> SUFFICES ASSUME NEW p \in S, Found(p) PROVE Found(Bisect(list, target, p))
      OBVIOUS
    <2>1. PICK a \in 0..N, b \in 0..N : p = <<a, b>> /\ a <= b
      OBVIOUS
    <2> DEFINE mid == (a + b) \div 2
    <2>2. mid \in Int /\ a <= mid /\ (a < b => mid < b)
      BY <2>1, <1>1
    <2> HIDE DEF mid
    <2>3. Bisect(list, target, p) =
             IF a >= b THEN p
             ELSE IF Less(largest(list[mid + 1]), target) THEN <<mid + 1, b>> ELSE <<a, mid>>
      BY <2>1 DEF Bisect, mid
    <2>4. CASE a >= b
      BY <2>1, <2>3, <2>4, <1>1
    <2>5. CASE a < b
      <3>1. mid + 1 \in 1..N
        BY <2>1, <2>2, <2>5, <1>1
      <3>2. \A i \in 1..N : /\ list[i] \in Tables
                            /\ largest(list[i]) \in InternalKeys /\ smallest(list[i]) \in InternalKeys
                            /\ ~Less(largest(list[i]), smallest(list[i]))
        BY TableKeys
      <3>3. \A i, j \in 1..N : i < j => Less(largest(list[i]), largest(list[j]))
        BY <3>2, LessOrders
      <3>4. CASE Less(largest(list[mid + 1]), target)
        <4>1. \A i \in 1..N : i <= mid + 1 => Less(largest(list[i]), target)
          <5> TAKE i \in 1..N
          <5> HAVE i <= mid + 1
          <5>1. i = mid + 1 \/ i < mid + 1
            BY <3>1, <1>1
          <5> HIDE DEF N
          <5> QED
            BY <5>1, <3>1, <3>2, <3>3, <3>4, LessOrders
        <4>2. Bisect(list, target, p) = <<mid + 1, b>>
          BY <2>1, <2>3, <2>5, <3>4, <1>1
        <4> HIDE DEF N
        <4> QED
          BY <4>1, <4>2, <2>1
      <3>5. CASE ~Less(largest(list[mid + 1]), target)
        <4>1. \A i \in 1..N : i > mid => ~Less(largest(list[i]), target)
          <5> TAKE i \in 1..N
          <5> HAVE i > mid
          <5>1. i = mid + 1 \/ mid + 1 < i
            BY <3>1, <1>1, <2>2
          <5> HIDE DEF N
          <5> QED
            BY <5>1, <3>1, <3>2, <3>3, <3>5, LessOrders
        <4>2. Bisect(list, target, p) = <<a, mid>>
          BY <2>1, <2>3, <2>5, <3>5, <1>1
        <4> HIDE DEF N
        <4> QED
          BY <4>1, <4>2, <2>1
      <3> QED
        BY <3>4, <3>5
    <2>6. a >= b \/ a < b
      BY <2>1, <1>1
    <2> QED
      BY <2>4, <2>5, <2>6
  <1>10. 0 \in Good
    BY <1>1, <1>3, <1>8
  <1>11. ASSUME NEW n \in 1..N, n - 1 \in Good PROVE n \in Good
    <2>1. PICK p \in S : p = left_right[n - 1]
      BY <1>11
    <2>2. /\ Found(p) /\ p[2] - p[1] <= N - (n - 1)
          /\ left_right[n] = Bisect(list, target, p)
      BY <1>11, <1>8, <2>1
    <2>3. PICK q \in S : q = Bisect(list, target, p)
      BY <1>2
    <2>4. /\ p[1] < p[2] => q[2] - q[1] < p[2] - p[1]
          /\ p[1] = p[2] => q = p
      BY <1>2, <2>3
    <2>5. /\ p[1] \in 0..N /\ p[2] \in 0..N /\ p[1] <= p[2]
          /\ q[1] \in 0..N /\ q[2] \in 0..N /\ q[1] <= q[2]
      OBVIOUS
    <2>6. q[2] - q[1] <= N - n
      <3> HIDE DEF N, S
      <3> QED
        BY <2>2, <2>4, <2>5, <1>1
    <2>7. Found(q)
      BY <1>9, <2>2, <2>3
    <2> HIDE DEF Found, S
    <2> QED
      BY <2>2, <2>3, <2>6, <2>7, <1>1
  <1>12. N \in Good
    <2>1. \A n \in 0..N : n \in Good
      <3> HIDE DEF Good, N
      <3> QED
        BY <1>1, <1>10, <1>11, UpTo
    <2> HIDE DEF Good
    <2> QED
      BY <2>1, <1>1
  <1>13. PICK a \in 0..N, b \in 0..N : left_right[N] = <<a, b>> /\ a <= b
    <2>1. left_right[N] \in S
      BY <1>12
    <2> QED
      BY <2>1
  <1>14. a = b /\ Found(<<a, b>>)
    BY <1>12, <1>13, <1>1
  <1>15. FindFile(list, target) = b + 1
    BY <1>7, <1>13
  <1> QED
    BY <1>13, <1>14, <1>15, <1>1

-----------------------------------------------------------------------------
(* Ranges of user keys.                                                    *)

\* f touches the user keys that the files of S span.
Overlaps(f, S) ==
    \E a, b \in S : smallest(a)[1] <= largest(f)[1] /\ smallest(f)[1] <= largest(b)[1]

\* Every gap that a range of user keys finds between the files of S is a gap
\* before all or behind all of them.
Connected(S) ==
    \A lo, hi \in Nat :
       lo <= hi /\ (\A f \in S : AfterFile(lo, f) \/ BeforeFile(hi, f))
          => (\A f \in S : AfterFile(lo, f)) \/ (\A f \in S : BeforeFile(hi, f))

\* A finite set of numbers has a least and a greatest.
LEMMA Bounds ==
  ASSUME NEW S \in SUBSET Nat, S # {}, IsFiniteSet(S)
  PROVE  /\ Min(S) \in S /\ \A x \in S : Min(S) <= x
         /\ Max(S) \in S /\ \A x \in S : x <= Max(S)
  <1> DEFINE R == {p \in S \X S : p[1] < p[2]}
  <1>1. StrictOrder(S, R)
    BY DEF StrictOrder
  <1>2. /\ \E a \in S : \A x \in S \ {a} : <<a, x>> \in R
        /\ \E z \in S : \A x \in S \ {z} : <<x, z>> \in R
    <2> HIDE DEF R
    <2> QED
      BY <1>1, Extremes
  <1>3. PICK a \in S : \A x \in S : a <= x
    <2>1. PICK a \in S : \A x \in S \ {a} : <<a, x>> \in R
      BY <1>2
    <2>2. ASSUME NEW x \in S PROVE a <= x
      <3>1. CASE x = a
        BY <3>1
      <3>2. CASE x # a
        <4>1. <<a, x>> \in R
          BY <2>1, <3>2
        <4> QED
          BY <4>1
      <3> QED
        BY <3>1, <3>2
    <2> QED
      BY <2>2
  <1>4. PICK z \in S : \A x \in S : x <= z
    <2>1. PICK z \in S : \A x \in S \ {z} : <<x, z>> \in R
      BY <1>2
    <2>2. ASSUME NEW x \in S PROVE x <= z
      <3>1. CASE x = z
        BY <3>1
      <3>2. CASE x # z
        <4>1. <<x, z>> \in R
          BY <2>1, <3>2
        <4> QED
          BY <4>1
      <3> QED
        BY <3>1, <3>2
    <2> QED
      BY <2>2
  <1> QED
    BY <1>3, <1>4 DEF Min, Max

\* VersionSet::GetRange: the range of user keys that some files span.
LEMMA Ranges ==
  ASSUME NEW S \in SUBSET Tables, S # {}, IsFiniteSet(S)
  PROVE  /\ UserRange(S)[1] \in Nat /\ UserRange(S)[2] \in Nat
         /\ UserRange(S)[1] <= UserRange(S)[2]
         /\ \E f \in S : UserRange(S)[1] = smallest(f)[1]
         /\ \E f \in S : UserRange(S)[2] = largest(f)[1]
         /\ \A f \in S : UserRange(S)[1] <= smallest(f)[1] /\ largest(f)[1] <= UserRange(S)[2]
  <1> DEFINE A == {smallest(f)[1] : f \in S}
             B == {largest(f)[1] : f \in S}
  <1>1. \A f \in S : /\ smallest(f)[1] \in Nat /\ largest(f)[1] \in Nat
                     /\ smallest(f)[1] <= largest(f)[1]
    BY TableKeys
  <1>2. A \in SUBSET Nat /\ A # {} /\ B \in SUBSET Nat /\ B # {}
    BY <1>1
  <1>3. IsFiniteSet(A) /\ IsFiniteSet(B)
    <2> DEFINE fa == [f \in S |-> smallest(f)[1]]
               fb == [f \in S |-> largest(f)[1]]
    <2>1. fa \in Surjection(S, A) /\ fb \in Surjection(S, B)
      BY DEF Surjection
    <2> HIDE DEF fa, fb, A, B
    <2> QED
      BY <2>1, FS_Surjection
  <1>4. /\ Min(A) \in A /\ \A x \in A : Min(A) <= x
        /\ Max(B) \in B /\ \A x \in B : x <= Max(B)
    <2> HIDE DEF A, B
    <2> QED
      BY <1>2, <1>3, Bounds
  <1>5. UserRange(S) = <<Min(A), Max(B)>>
    BY DEF UserRange
  <1>6. /\ \E f \in S : Min(A) = smallest(f)[1]
        /\ \E f \in S : Max(B) = largest(f)[1]
        /\ \A f \in S : Min(A) <= smallest(f)[1] /\ largest(f)[1] <= Max(B)
    BY <1>4
  <1>7. Min(A) \in Nat /\ Max(B) \in Nat
    BY <1>2, <1>4
  <1> HIDE DEF A, B
  <1>8. Min(A) <= Max(B)
    BY <1>1, <1>6, <1>7
  <1> QED
    BY <1>5, <1>6, <1>7, <1>8

\* A file overlaps others exactly when it touches the range they span.
LEMMA RangeOverlaps ==
  ASSUME NEW S \in SUBSET Tables, S # {}, IsFiniteSet(S), NEW f \in Tables
  PROVE  Overlaps(f, S) <=>
            UserRange(S)[1] <= largest(f)[1] /\ smallest(f)[1] <= UserRange(S)[2]
  <1> DEFINE lo == UserRange(S)[1]
             hi == UserRange(S)[2]
  <1>1. /\ lo \in Nat /\ hi \in Nat
        /\ \E g \in S : lo = smallest(g)[1]
        /\ \E g \in S : hi = largest(g)[1]
        /\ \A g \in S : lo <= smallest(g)[1] /\ largest(g)[1] <= hi
    BY Ranges
  <1> HIDE DEF lo, hi
  <1>2. \A g \in S : smallest(g)[1] \in Nat /\ largest(g)[1] \in Nat
    BY TableKeys
  <1>3. smallest(f)[1] \in Nat /\ largest(f)[1] \in Nat
    BY TableKeys
  <1>4. Overlaps(f, S) <=> lo <= largest(f)[1] /\ smallest(f)[1] <= hi
    BY <1>1, <1>2, <1>3 DEF Overlaps
  <1> QED
    BY <1>4 DEF lo, hi

\* What GetOverlappingInputs finds: beyond level 0 the files in the range, in
\* level 0 the least set that has every file it spans.
LEMMA OverlappingInputs ==
  ASSUME NEW level \in Nat, NEW lo, NEW hi
  PROVE  /\ GetOverlappingInputs(level, lo, hi) \subseteq files[level]
         /\ level # 0 =>
              \A f \in files[level] : f \in GetOverlappingInputs(level, lo, hi) <=>
                 largest(f)[1] >= lo /\ smallest(f)[1] <= hi
         /\ level = 0 =>
              /\ Spanned(GetOverlappingInputs(0, lo, hi), lo, hi)
                    \subseteq GetOverlappingInputs(0, lo, hi)
              /\ \A S \in SUBSET files[0] :
                    Spanned(S, lo, hi) \subseteq S =>
                       GetOverlappingInputs(0, lo, hi) \subseteq S
  <1>1. CASE level # 0
    BY <1>1 DEF GetOverlappingInputs, InRange
  <1>2. CASE level = 0
    <2> DEFINE G == GetOverlappingInputs(0, lo, hi)
    <2>1. G = {f \in files[0] :
                 \A S \in SUBSET files[0] : Spanned(S, lo, hi) \subseteq S => f \in S}
      BY DEF GetOverlappingInputs
    <2> HIDE DEF G
    <2>2. \A S \in SUBSET files[0] : Spanned(S, lo, hi) \subseteq S => G \subseteq S
      BY <2>1
    <2>3. ASSUME NEW f \in Spanned(G, lo, hi) PROVE f \in G
      <3>1. f \in files[0]
        BY DEF Spanned
      <3>2. ASSUME NEW S \in SUBSET files[0], Spanned(S, lo, hi) \subseteq S
            PROVE  f \in S
        <4>1. G \subseteq S
          BY <2>2, <3>2
        <4>2. f \in Spanned(S, lo, hi)
          BY <4>1 DEF Spanned
        <4> QED
          BY <4>2, <3>2
      <3> QED
        BY <2>1, <3>1, <3>2
    <2>4. G \subseteq files[0]
      BY <2>1
    <2> QED
      BY <2>2, <2>3, <2>4, <1>2 DEF G
  <1> QED
    BY <1>1, <1>2

\* The files of the levels, as the steps below need them: finitely many
\* tables on each level.
FilesTyped ==
    /\ files \in [Levels -> SUBSET Tables]
    /\ \A level \in Levels : IsFiniteSet(files[level])

\* The range GetOverlappingInputs grows takes in every file it touches.
LEMMA SpannedFacts ==
  ASSUME NEW S, NEW lo, NEW hi, NEW f \in files[0]
  PROVE  /\ Overlaps(f, S) => f \in Spanned(S, lo, hi)
         /\ lo <= largest(f)[1] /\ smallest(f)[1] <= hi => f \in Spanned(S, lo, hi)
  BY DEF Spanned, Overlaps

\* The inputs found for the range of A reach no further than A does.
LEMMA StayConnected ==
  ASSUME FilesTyped, NEW level \in Levels,
         NEW A \in SUBSET Tables, A # {}, IsFiniteSet(A), Connected(A),
         NEW B, B \subseteq A,
         NEW X, X = GetOverlappingInputs(level, UserRange(A)[1], UserRange(A)[2]),
         A \subseteq X \cup B
  PROVE  Connected(X \cup B)
  <1>0. Levels \subseteq Nat /\ files[level] \in SUBSET Tables
    BY LsmAssumption DEF Levels, FilesTyped
  <1> DEFINE from == UserRange(A)[1]
             to == UserRange(A)[2]
  <1>1. /\ from \in Nat /\ to \in Nat /\ from <= to
        /\ \E f \in A : from = smallest(f)[1]
        /\ \E f \in A : to = largest(f)[1]
    BY Ranges
  <1> HIDE DEF from, to
  <1>2. X = GetOverlappingInputs(level, from, to)
    BY DEF from, to
  <1>3. SUFFICES ASSUME NEW lo \in Nat, NEW hi \in Nat, lo <= hi,
                        \A f \in X \cup B : AfterFile(lo, f) \/ BeforeFile(hi, f)
                 PROVE  \/ \A f \in X \cup B : AfterFile(lo, f)
                        \/ \A f \in X \cup B : BeforeFile(hi, f)
    BY DEF Connected
  <1>4. (\A f \in A : AfterFile(lo, f)) \/ (\A f \in A : BeforeFile(hi, f))
    BY <1>3 DEF Connected
  <1>5. X \subseteq files[level] /\ X \in SUBSET Tables
    BY <1>0, <1>2, OverlappingInputs
  <1>6. \A f \in Tables : smallest(f)[1] \in Nat /\ largest(f)[1] \in Nat /\ smallest(f)[1] <= largest(f)[1]
    BY TableKeys
  <1>7. CASE level # 0
    <2>1. \A f \in X : from <= largest(f)[1] /\ smallest(f)[1] <= to
      <3>1. \A f \in files[level] : f \in X <=> largest(f)[1] >= from /\ smallest(f)[1] <= to
        BY <1>0, <1>2, <1>7, OverlappingInputs
      <3> QED
        BY <3>1, <1>1, <1>5, <1>6
    <2>2. CASE \A f \in A : AfterFile(lo, f)
      <3>1. to < lo
        BY <1>1, <1>6, <2>2 DEF AfterFile
      <3>2. \A f \in X : AfterFile(lo, f)
        BY <2>1, <3>1, <1>1, <1>3, <1>5, <1>6 DEF AfterFile, BeforeFile
      <3> QED
        BY <2>2, <3>2
    <2>3. CASE \A f \in A : BeforeFile(hi, f)
      <3>1. hi < from
        BY <1>1, <1>6, <2>3 DEF BeforeFile
      <3>2. \A f \in X : BeforeFile(hi, f)
        BY <2>1, <3>1, <1>1, <1>3, <1>5, <1>6 DEF AfterFile, BeforeFile
      <3> QED
        BY <2>3, <3>2
    <2> QED
      BY <1>4, <2>2, <2>3
  <1>8. CASE level = 0
    <2>1. Spanned(X, from, to) \subseteq X
      BY <1>2, <1>8, OverlappingInputs
    <2>2. \A S \in SUBSET files[0] : Spanned(S, from, to) \subseteq S => X \subseteq S
      BY <1>2, <1>8, OverlappingInputs
    <2>3. CASE \A f \in A : AfterFile(lo, f)
      <3> DEFINE S == {f \in X : AfterFile(lo, f)}
      <3>1. to < lo
        BY <1>1, <1>6, <2>3 DEF AfterFile
      <3>2. ASSUME NEW g \in Spanned(S, from, to) PROVE g \in S
        <4>1. g \in Spanned(X, from, to)
          BY DEF Spanned
        <4>2. g \in X /\ g \in Tables
          BY <4>1, <2>1, <1>5
        <4>3. PICK limit \in {to} \cup {largest(x)[1] : x \in S} : smallest(g)[1] <= limit
          BY DEF Spanned
        <4>4. limit \in Nat /\ limit < lo
          BY <3>1, <1>1, <1>5, <1>6 DEF AfterFile
        <4>5. ~BeforeFile(hi, g)
          BY <4>2, <4>3, <4>4, <1>3, <1>6 DEF BeforeFile
        <4> QED
          BY <4>2, <4>5, <1>3
      <3>3. S \in SUBSET files[0]
        BY <1>5, <1>8
      <3>4. X \subseteq S
        BY <2>2, <3>2, <3>3
      <3> QED
        BY <2>3, <3>4
    <2>4. CASE \A f \in A : BeforeFile(hi, f)
      <3> DEFINE S == {f \in X : BeforeFile(hi, f)}
      <3>1. hi < from
        BY <1>1, <1>6, <2>4 DEF BeforeFile
      <3>2. ASSUME NEW g \in Spanned(S, from, to) PROVE g \in S
        <4>1. g \in Spanned(X, from, to)
          BY DEF Spanned
        <4>2. g \in X /\ g \in Tables
          BY <4>1, <2>1, <1>5
        <4>3. PICK start \in {from} \cup {smallest(x)[1] : x \in S} : largest(g)[1] >= start
          BY DEF Spanned
        <4>4. start \in Nat /\ hi < start
          BY <3>1, <1>1, <1>5, <1>6 DEF BeforeFile
        <4>5. ~AfterFile(lo, g)
          BY <4>2, <4>3, <4>4, <1>3, <1>6 DEF AfterFile
        <4> QED
          BY <4>2, <4>5, <1>3
      <3>3. S \in SUBSET files[0]
        BY <1>5, <1>8
      <3>4. X \subseteq S
        BY <2>2, <3>2, <3>3
      <3> QED
        BY <2>4, <3>4
    <2> QED
      BY <1>4, <2>3, <2>4
  <1> QED
    BY <1>7, <1>8

-----------------------------------------------------------------------------
(* Where a flushed memtable goes.                                          *)

\* No entry is newer than the last one a run may write.
WithinMaxSeq == \A level \in Levels : \A f \in files[level] : \A e \in f.entries : e[2] <= MaxSeq

LevelFacts == kNumLevels \in Nat /\ kNumLevels > 1 /\ Levels = 0..(kNumLevels - 1)

\* The levels are the first kNumLevels naturals.
LEMMA AboutLevels == LevelFacts /\ Levels \in SUBSET Nat /\ 0 \in Levels
  BY LsmAssumption DEF LevelFacts, Levels

\* On a level whose files are disjoint the binary search decides the overlap.
LEMMA OverlapDecided ==
  ASSUME FilesTyped, WithinMaxSeq, NEW level \in Levels,
         level # 0 => Disjoint(files[level]),
         NEW lo \in Nat, NEW hi \in Nat
  PROVE  OverlapInLevel(level, lo, hi) <=>
            \E f \in files[level] : lo <= largest(f)[1] /\ smallest(f)[1] <= hi
  <1>1. /\ files[level] \in SUBSET Tables /\ IsFiniteSet(files[level])
        /\ \A f \in files[level] : \A e \in f.entries : e[2] <= MaxSeq
    BY DEF FilesTyped, WithinMaxSeq
  <1>2. \A f \in Tables : /\ smallest(f)[1] \in Nat /\ largest(f)[1] \in Nat
                          /\ smallest(f)[1] <= largest(f)[1]
    BY TableKeys
  <1>3. CASE level = 0
    <2>1. OverlapInLevel(0, lo, hi) <=>
             \E f \in files[0] : ~AfterFile(lo, f) /\ ~BeforeFile(hi, f)
      BY DEF OverlapInLevel
    <2> QED
      BY <2>1, <1>1, <1>2, <1>3 DEF AfterFile, BeforeFile
  <1>4. CASE level # 0
    <2> DEFINE list == Listed(files[level])
               target == Seek(lo, MaxSeq + 1)
               i == FindFile(list, target)
               N == Len(list)
    <2>1. /\ list \in Seq(Tables)
          /\ \A m, n \in 1..N : m < n => Less(largest(list[m]), smallest(list[n]))
          /\ \A f \in files[level] : \E n \in 1..N : list[n] = f
          /\ \A n \in 1..N : list[n] \in files[level]
      BY <1>1, <1>4, DisjointInOrder
    <2>2. MaxSeq \in Nat /\ target \in InternalKeys /\ N \in Nat
      BY <2>1, LsmAssumption DEF Seek, InternalKeys
    <2> HIDE DEF list
    <2>3. /\ i \in 1..(N + 1)
          /\ \A n \in 1..N : n < i <=> Less(largest(list[n]), target)
      <3> HIDE DEF target
      <3> QED
        BY <2>1, <2>2, FindFileFacts
    <2>4. OverlapInLevel(level, lo, hi) <=> i <= N /\ ~BeforeFile(hi, list[i])
      BY <1>4 DEF OverlapInLevel, list
    <2> HIDE DEF i, N
    <2>5. \A n \in 1..N : n < i <=> largest(list[n])[1] < lo
      <3> TAKE n \in 1..N
      <3>1. list[n] \in files[level] /\ list[n] \in Tables
        BY <2>1, <1>1
      <3>2. largest(list[n]) \in InternalKeys /\ largest(list[n])[2] <= MaxSeq
        BY <3>1, <1>1, TableKeys
      <3>3. Less(largest(list[n]), target) <=> largest(list[n])[1] < lo
        BY <3>2, <2>2 DEF Less, Seek, InternalKeys
      <3> HIDE DEF target
      <3> QED
        BY <3>3, <2>3
    <2> HIDE DEF target
    <2>6. ASSUME i <= N, ~BeforeFile(hi, list[i])
          PROVE  \E f \in files[level] : lo <= largest(f)[1] /\ smallest(f)[1] <= hi
      <3>1. i \in 1..N /\ list[i] \in files[level] /\ list[i] \in Tables
        BY <2>6, <2>1, <2>2, <2>3, <1>1
      <3>2. lo <= largest(list[i])[1] /\ smallest(list[i])[1] <= hi
        BY <3>1, <2>3, <2>5, <2>6, <1>2 DEF BeforeFile
      <3> QED
        BY <3>1, <3>2
    <2>7. ASSUME NEW f \in files[level], lo <= largest(f)[1], smallest(f)[1] <= hi
          PROVE  i <= N /\ ~BeforeFile(hi, list[i])
      <3>1. PICK n \in 1..N : list[n] = f
        BY <2>1
      <3>2. largest(f)[1] \in Nat /\ smallest(f)[1] \in Nat
        BY <1>1, <1>2
      <3>3. ~(n < i)
        BY <3>1, <3>2, <2>5, <2>7
      <3>4. i \in 1..N /\ (i = n \/ i < n)
        BY <3>3, <2>2, <2>3
      <3>5. list[i] \in Tables
        BY <3>4, <2>1, <1>1
      <3>6. smallest(list[i])[1] <= smallest(f)[1]
        <4>1. CASE i = n
          BY <4>1, <3>1, <3>2
        <4>2. CASE i < n
          <5>1. Less(largest(list[i]), smallest(f))
            BY <4>2, <3>1, <3>4, <2>1
          <5>2. largest(list[i]) \in InternalKeys /\ smallest(f) \in InternalKeys
            BY <3>5, <1>1, TableKeys
          <5>3. largest(list[i])[1] <= smallest(f)[1]
            BY <5>1, <5>2, LessOrders
          <5> QED
            BY <5>3, <3>2, <3>5, <1>2
        <4> QED
          BY <3>4, <4>1, <4>2
      <3> QED
        BY <3>2, <3>4, <3>5, <3>6, <2>7, <1>2 DEF BeforeFile
    <2> QED
      BY <2>4, <2>6, <2>7
  <1> QED
    BY <1>3, <1>4

\* A memtable that goes below level 0 overlaps nothing down to its level.
LEMMA PickLevel ==
  ASSUME NEW lo \in Nat, NEW hi \in Nat
  PROVE  /\ PickLevelForMemTableOutput(lo, hi) \in 0..kMaxMemCompactLevel
         /\ PickLevelForMemTableOutput(lo, hi) # 0 =>
               \A level \in 0..PickLevelForMemTableOutput(lo, hi) : ~OverlapInLevel(level, lo, hi)
  <1>1. kMaxMemCompactLevel \in Nat
    BY LsmAssumption
  <1>2. CASE OverlapInLevel(0, lo, hi)
    <2>1. PickLevelForMemTableOutput(lo, hi) = 0 /\ 0 \in 0..kMaxMemCompactLevel
      BY <1>1, <1>2 DEF PickLevelForMemTableOutput
    <2> QED
      BY <2>1
  <1>3. CASE ~OverlapInLevel(0, lo, hi)
    <2> DEFINE Stop(level) == StopsAt(level, lo, hi)
               T == {level \in 0..kMaxMemCompactLevel : Stop(level)}
               Is(level) == Stop(level) /\ \A above \in 0..(level - 1) : ~Stop(above)
               p == PickLevelForMemTableOutput(lo, hi)
    <2>1. kMaxMemCompactLevel \in T
      BY <1>1 DEF StopsAt
    <2> HIDE DEF Stop
    <2>2. PICK m \in T : \A y \in T : m <= y
      <3>1. T \in SUBSET Nat /\ T # {}
        BY <2>1
      <3> HIDE DEF T
      <3> QED
        BY <3>1, LeastNatural
    <2>3. m \in 0..kMaxMemCompactLevel /\ Is(m)
      <3>1. m \in 0..kMaxMemCompactLevel /\ Stop(m)
        OBVIOUS
      <3>2. ASSUME NEW above \in 0..(m - 1) PROVE ~Stop(above)
        <4>1. above \in 0..kMaxMemCompactLevel /\ ~(m <= above)
          BY <3>1, <1>1
        <4> QED
          BY <4>1, <2>2
      <3> QED
        BY <3>1, <3>2
    <2>4. p = CHOOSE level \in 0..kMaxMemCompactLevel : Is(level)
      BY <1>3 DEF PickLevelForMemTableOutput, Stop
    <2>5. p \in 0..kMaxMemCompactLevel /\ Is(p)
      <3> HIDE DEF Is, p
      <3> QED
        BY <2>3, <2>4
    <2> HIDE DEF p
    <2>6. ASSUME NEW level \in 0..p PROVE ~OverlapInLevel(level, lo, hi)
      <3>1. CASE level = 0
        BY <3>1, <1>3
      <3>2. CASE level # 0
        <4>1. level - 1 \in 0..(p - 1) /\ (level - 1) + 1 = level
          BY <3>2, <2>5, <1>1
        <4>2. ~Stop(level - 1)
          BY <4>1, <2>5
        <4> QED
          BY <4>1, <4>2 DEF Stop, StopsAt
      <3> QED
        BY <3>1, <3>2
    <2> QED
      BY <2>5, <2>6 DEF p
  <1> QED
    BY <1>2, <1>3

-----------------------------------------------------------------------------
(* What a compaction starts with.                                          *)

Numbered ==
    \A a, b \in Levels : \A f \in files[a], g \in files[b] :
       f.number = g.number => f = g /\ a = b

Chosen(c) ==
    /\ c.level \in 0..(kNumLevels - 2)
    /\ c.in0 \in SUBSET files[c.level] /\ c.in0 # {}
    /\ c.in1 \in SUBSET files[c.level + 1]
    /\ \A f \in files[c.level + 1] : Overlaps(f, c.in0) <=> f \in c.in1
    /\ c.level = 0 => \A f \in files[0] : Overlaps(f, c.in0) => f \in c.in0

\* A file overlaps every set of files it belongs to.
LEMMA SelfOverlap ==
  ASSUME NEW S \in SUBSET Tables, NEW f \in S
  PROVE  Overlaps(f, S)
  BY TableKeys DEF Overlaps

\* What overlaps some files overlaps more of them.
LEMMA OverlapsMore ==
  ASSUME NEW S, NEW T, S \subseteq T, NEW f, Overlaps(f, S)
  PROVE  Overlaps(f, T)
  BY DEF Overlaps

\* GetOverlappingInputs returns the files that overlap the range, on level 0
\* with all that overlap those.
LEMMA InputsOf ==
  ASSUME FilesTyped, NEW level \in Levels, NEW S \in SUBSET Tables, S # {}, IsFiniteSet(S),
         NEW X, X = GetOverlappingInputs(level, UserRange(S)[1], UserRange(S)[2])
  PROVE  /\ X \in SUBSET files[level] /\ X \in SUBSET Tables /\ IsFiniteSet(X)
         /\ \A f \in files[level] : Overlaps(f, S) => f \in X
         /\ level # 0 => \A f \in X : Overlaps(f, S)
         /\ level = 0 => \A f \in files[0] : Overlaps(f, X) => f \in X
         /\ S \subseteq files[level] => S \subseteq X
  <1>1. /\ files[level] \in SUBSET Tables /\ IsFiniteSet(files[level]) /\ level \in Nat
    BY AboutLevels DEF FilesTyped
  <1> DEFINE lo == UserRange(S)[1]
             hi == UserRange(S)[2]
  <1>2. X \in SUBSET files[level] /\ X = GetOverlappingInputs(level, lo, hi)
    BY <1>1, OverlappingInputs
  <1>3. IsFiniteSet(X) /\ X \in SUBSET Tables
    BY <1>1, <1>2, FS_Subset
  <1>4. \A f \in Tables : Overlaps(f, S) <=> lo <= largest(f)[1] /\ smallest(f)[1] <= hi
    BY RangeOverlaps
  <1>5. lo \in Nat /\ hi \in Nat
    BY Ranges
  <1>6. \A f \in Tables : smallest(f)[1] \in Nat /\ largest(f)[1] \in Nat
    BY TableKeys
  <1> HIDE DEF lo, hi
  <1>7. CASE level = 0
    <2>1. Spanned(X, lo, hi) \subseteq X
      BY <1>2, <1>7, OverlappingInputs
    <2>2. \A f \in files[0] : Overlaps(f, X) => f \in X
      BY <2>1, SpannedFacts
    <2>3. \A f \in files[0] : Overlaps(f, S) => f \in X
      BY <2>1, <1>1, <1>4, <1>7, SpannedFacts
    <2> QED
      BY <2>2, <2>3, <1>2, <1>3, <1>7, SelfOverlap
  <1>8. CASE level # 0
    <2>1. \A f \in files[level] : f \in X <=> largest(f)[1] >= lo /\ smallest(f)[1] <= hi
      BY <1>1, <1>2, <1>8, OverlappingInputs
    <2>2. \A f \in files[level] : f \in X <=> Overlaps(f, S)
      BY <2>1, <1>1, <1>4, <1>5, <1>6
    <2> QED
      BY <2>2, <1>2, <1>3, <1>8, SelfOverlap
  <1> QED
    BY <1>7, <1>8

\* A set that has not grown in size has not grown.
LEMMA Grown ==
  ASSUME NEW A, NEW B, IsFiniteSet(B), A \subseteq B, Cardinality(B) = Cardinality(A)
  PROVE  B = A
  BY FS_Subset

\* SetupOtherInputs keeps what it is given: the inputs of the next level are
\* the files the compaction overlaps there.
LEMMA SetupChosen ==
  ASSUME FilesTyped, NEW level \in 0..(kNumLevels - 2),
         NEW in0 \in SUBSET files[level], in0 # {},
         level = 0 => \A f \in files[0] : Overlaps(f, in0) => f \in in0,
         NEW c, c = SetupOtherInputs(level, in0)
  PROVE  /\ Chosen(c) /\ c.level = level
         /\ Connected(in0) => Connected(c.in0 \cup c.in1)
  <1>1. level \in Levels /\ level + 1 \in Levels /\ level + 1 # 0 /\ level \in Nat
    BY AboutLevels DEF LevelFacts
  <1>2. /\ files[level] \in SUBSET Tables /\ IsFiniteSet(files[level])
        /\ files[level + 1] \in SUBSET Tables /\ IsFiniteSet(files[level + 1])
    BY <1>1 DEF FilesTyped
  <1> DEFINE r == UserRange(in0)
             in1 == GetOverlappingInputs(level + 1, r[1], r[2])
             all == UserRange(in0 \cup in1)
             more0 == GetOverlappingInputs(level, all[1], all[2])
             more == UserRange(more0)
             more1 == GetOverlappingInputs(level + 1, more[1], more[2])
             expand == /\ in1 # {} /\ Cardinality(more0) > Cardinality(in0)
                       /\ TotalFileSize(in1) + TotalFileSize(more0)
                             < ExpandedCompactionByteSizeLimit
                       /\ Cardinality(more1) = Cardinality(in1)
             in == IF expand THEN <<more0, more1>> ELSE <<in0, in1>>
             range == UserRange(in[1] \cup in[2])
             below == IF level + 2 < kNumLevels
                      THEN GetOverlappingInputs(level + 2, range[1], range[2]) ELSE {}
  <1>3. c = Compaction(level, in[1], in[2], below)
    BY DEF SetupOtherInputs
  <1>4. c.level = level /\ c.in0 = in[1] /\ c.in1 = in[2]
    <2> HIDE DEF in, below
    <2> QED
      BY <1>3 DEF Compaction
  <1>5. in0 \in SUBSET Tables /\ IsFiniteSet(in0)
    BY <1>2, FS_Subset
  <1>6. /\ in1 \in SUBSET files[level + 1] /\ in1 \in SUBSET Tables /\ IsFiniteSet(in1)
        /\ \A f \in files[level + 1] : Overlaps(f, in0) <=> f \in in1
    BY <1>1, <1>2, <1>5, InputsOf
  <1> DEFINE A == in0 \cup in1
  <1>7. A \in SUBSET Tables /\ A # {} /\ IsFiniteSet(A)
    BY <1>5, <1>6, FS_Union
  <1> HIDE DEF in1
  <1>8. /\ more0 \in SUBSET files[level] /\ more0 \in SUBSET Tables /\ IsFiniteSet(more0)
        /\ \A f \in files[level] : Overlaps(f, A) => f \in more0
        /\ level = 0 => \A f \in files[0] : Overlaps(f, more0) => f \in more0
    <2> HIDE DEF A
    <2>1. more0 = GetOverlappingInputs(level, UserRange(A)[1], UserRange(A)[2])
      BY DEF A
    <2> HIDE DEF more0
    <2> QED
      BY <2>1, <1>1, <1>7, InputsOf
  <1>9. in0 \subseteq more0 /\ more0 # {}
    BY <1>7, <1>8, SelfOverlap
  <1>10. /\ more1 \in SUBSET files[level + 1] /\ IsFiniteSet(more1)
         /\ \A f \in files[level + 1] : Overlaps(f, more0) <=> f \in more1
    <2> HIDE DEF more0
    <2> QED
      BY <1>1, <1>2, <1>8, <1>9, InputsOf
  <1>11. in1 \subseteq more1
    BY <1>6, <1>9, <1>10, OverlapsMore
  <1>12. ASSUME Connected(in0) PROVE Connected(in0 \cup in1)
    <2>1. in1 = GetOverlappingInputs(level + 1, UserRange(in0)[1], UserRange(in0)[2])
      BY DEF in1
    <2>2. Connected(in1 \cup in0)
      BY <2>1, <1>1, <1>5, <1>12, StayConnected
    <2>3. in1 \cup in0 = in0 \cup in1
      OBVIOUS
    <2> QED
      BY <2>2, <2>3
  <1>13. ASSUME Connected(A) PROVE Connected(more0 \cup in1)
    <2>1. more0 = GetOverlappingInputs(level, UserRange(A)[1], UserRange(A)[2])
      BY DEF A
    <2>2. in1 \subseteq A /\ A \subseteq more0 \cup in1
      BY <1>9
    <2> HIDE DEF A, more0
    <2> QED
      BY <2>1, <2>2, <1>1, <1>7, <1>13, StayConnected
  <1> HIDE DEF more0, more1
  <1>14. CASE expand
    <2>1. c.in0 = more0 /\ c.in1 = more1
      BY <1>4, <1>14
    <2>2. more1 = in1
      BY <1>10, <1>11, <1>14, Grown
    <2>3. Chosen(c)
      BY <2>1, <1>4, <1>8, <1>9, <1>10 DEF Chosen
    <2> QED
      BY <2>1, <2>2, <2>3, <1>4, <1>12, <1>13
  <1>15. CASE ~expand
    <2>1. c.in0 = in0 /\ c.in1 = in1
      BY <1>4, <1>15
    <2>2. Chosen(c)
      BY <2>1, <1>4, <1>6 DEF Chosen
    <2> QED
      BY <2>1, <2>2, <1>4, <1>12
  <1> QED
    BY <1>14, <1>15

\* The limit of a level is a positive number.
LEMMA LimitsPositive == \A level \in Levels : MaxBytesForLevel[level] \in Nat \ {0}
  <1> DEFINE N == kNumLevels - 1
             S == Nat \ {0}
             step == [n \in 1..N |-> [x \in S |-> IF n > 1 THEN 10 * x ELSE BaseBytes]]
             Is(g) == g = [level \in Levels |-> IF level > 1 THEN 10 * g[level - 1] ELSE BaseBytes]
  <1>1. N \in Nat /\ Levels = 0..N
    BY AboutLevels DEF LevelFacts
  <1>2. BaseBytes \in S /\ step \in [1..N -> [S -> S]]
    BY LsmAssumption
  <1>3. PICK f \in [0..N -> S] : /\ f[0] = BaseBytes
                                 /\ \A n \in 1..N : f[n] = step[n][f[n - 1]]
    <2> HIDE DEF N, S, step
    <2>1. Run(S, BaseBytes, N, step) # {}
      BY <1>1, <1>2, Rounds
    <2> QED
      BY <2>1 DEF Run
  <1>4. Is(f)
    <2>1. ASSUME NEW n \in 0..N
          PROVE  f[n] = IF n > 1 THEN 10 * f[n - 1] ELSE BaseBytes
      <3>1. CASE n = 0
        BY <3>1, <1>3
      <3>2. CASE n # 0
        <4>1. n \in 1..N /\ n - 1 \in 0..N
          BY <3>2, <1>1
        <4>2. f[n - 1] \in S
          BY <4>1
        <4> HIDE DEF N, S
        <4> QED
          BY <4>1, <4>2, <1>3
      <3> QED
        BY <3>1, <3>2
    <2>2. f = [n \in 0..N |-> f[n]]
      OBVIOUS
    <2> HIDE DEF N, S
    <2> QED
      BY <2>1, <2>2, <1>1
  <1>5. Is(MaxBytesForLevel)
    <2>1. MaxBytesForLevel = CHOOSE g : Is(g)
      BY DEF MaxBytesForLevel
    <2> HIDE DEF Is
    <2> QED
      BY <2>1, <1>4
  <1> DEFINE Good == {n \in 0..N : MaxBytesForLevel[n] \in S}
  <1>6. 0 \in Good
    BY <1>1, <1>2, <1>5
  <1>7. ASSUME NEW n \in 1..N, n - 1 \in Good PROVE n \in Good
    <2>1. n \in 0..N /\ n \in Levels /\ MaxBytesForLevel[n - 1] \in S
      BY <1>1, <1>7
    <2>2. MaxBytesForLevel[n] = IF n > 1 THEN 10 * MaxBytesForLevel[n - 1] ELSE BaseBytes
      BY <2>1, <1>5
    <2>3. MaxBytesForLevel[n] \in S
      BY <2>1, <2>2, <1>2
    <2> QED
      BY <2>1, <2>3
  <1>8. \A n \in 0..N : n \in Good
    <2> HIDE DEF Good, N
    <2> QED
      BY <1>1, <1>6, <1>7, UpTo
  <1> QED
    BY <1>1, <1>8

-----------------------------------------------------------------------------
(* What the state always looks like.                                       *)

\* Every write as the entry it became.
Written == {<<history[i][1], i, history[i][2]>> : i \in 1..Len(history)}

\* Every write is an entry of its own, told by its sequence number.
LEMMA WrittenFacts ==
  ASSUME history \in Seq(Keys \X Types)
  PROVE  /\ Written \subseteq InternalKeys /\ IsFiniteSet(Written)
         /\ \A e \in Written : /\ e[2] \in 1..Len(history) /\ e[1] \in Keys /\ e[3] \in Types
                               /\ e[1] = history[e[2]][1] /\ e[3] = history[e[2]][2]
         /\ \A a, b \in Written : a[2] = b[2] => a = b
         /\ Len(history) \in Nat
  <1>1. Len(history) \in Nat /\ \A i \in 1..Len(history) : history[i] \in Keys \X Types
    OBVIOUS
  <1>2. \A i \in 1..Len(history) : /\ history[i][1] \in Keys /\ history[i][1] \in Nat
                                   /\ history[i][2] \in Types /\ history[i][2] \in {"value", "deletion"}
    BY <1>1, LsmAssumption
  <1>3. Written \subseteq InternalKeys
    BY <1>1, <1>2 DEF Written, InternalKeys
  <1>4. IsFiniteSet(Written)
    <2> DEFINE D == 1..Len(history)
               w == [i \in D |-> <<history[i][1], i, history[i][2]>>]
    <2>1. IsFiniteSet(D)
      BY <1>1, FS_Interval
    <2>2. w \in Surjection(D, Written)
      BY DEF Surjection, Written
    <2> HIDE DEF D, w
    <2> QED
      BY <2>1, <2>2, FS_Surjection
  <1>5. ASSUME NEW e \in Written
        PROVE  /\ e[2] \in 1..Len(history) /\ e[1] \in Keys /\ e[3] \in Types
               /\ e[1] = history[e[2]][1] /\ e[3] = history[e[2]][2]
    BY <1>2 DEF Written
  <1>6. \A a, b \in Written : a[2] = b[2] => a = b
    BY DEF Written
  <1> QED
    BY <1>1, <1>3, <1>4, <1>5, <1>6

\* Any of the entries written make up a table.
LEMMA WrittenTables ==
  ASSUME history \in Seq(Keys \X Types), NEW S \in SUBSET Written, S # {}
  PROVE  KeySet(S)
  BY WrittenFacts, FS_Subset DEF KeySet

\* BySmallestKey is a strict order of files with numbers of their own.
LEMMA PrecedesOrders ==
  ASSUME NEW S \in SUBSET Tables, \A f, g \in S : f.number = g.number => f = g
  PROVE  StrictOrder(S, {p \in S \X S : Precedes(p[1], p[2])})
  <1>1. \A f \in S : f.number \in Nat /\ smallest(f) \in InternalKeys
    BY TableKeys
  <1>2. \A f, g \in S : f = g \/ Precedes(f, g) \/ Precedes(g, f)
    BY <1>1 DEF Precedes
  <1>3. \A f \in S : ~Precedes(f, f)
    BY <1>1, LessOrders DEF Precedes
  <1>4. \A f, g, h \in S : Precedes(f, g) /\ Precedes(g, h) => Precedes(f, h)
    <2> SUFFICES ASSUME NEW f \in S, NEW g \in S, NEW h \in S, Precedes(f, g), Precedes(g, h)
                 PROVE  Precedes(f, h)
      OBVIOUS
    <2> QED
      BY <1>1, LessOrders DEF Precedes
  <1> QED
    BY <1>2, <1>3, <1>4 DEF StrictOrder

\* Of some files there is a first in the order of BySmallestKey.
LEMMA FirstFileIn ==
  ASSUME NEW S \in SUBSET Tables, S # {}, IsFiniteSet(S),
         \A f, g \in S : f.number = g.number => f = g
  PROVE  FirstFile(S) \in S /\ \A g \in S \ {FirstFile(S)} : Precedes(FirstFile(S), g)
  <1> DEFINE R == {p \in S \X S : Precedes(p[1], p[2])}
  <1>1. \E f \in S : \A g \in S \ {f} : <<f, g>> \in R
    <2>1. StrictOrder(S, R)
      BY PrecedesOrders
    <2> HIDE DEF R
    <2> QED
      BY <2>1, Extremes
  <1>2. \E f \in S : \A g \in S \ {f} : Precedes(f, g)
    BY <1>1
  <1> QED
    BY <1>2 DEF FirstFile

\* Files of one level have different numbers.
LEMMA NumbersTellApart ==
  ASSUME Numbered, NEW level \in Levels
  PROVE  \A f, g \in files[level] : f.number = g.number => f = g
  BY DEF Numbered

\* A level whose score asks for a compaction has a file.
LEMMA ScoreMeansFiles ==
  ASSUME FilesTyped, NEW level \in 0..(kNumLevels - 2), Score(level)[1] >= Score(level)[2]
  PROVE  files[level] # {}
  <1> SUFFICES ASSUME files[level] = {} PROVE FALSE
    OBVIOUS
  <1>1. level \in Levels
    BY AboutLevels DEF LevelFacts
  <1>2. CASE level = 0
    <2>1. Score(level) = <<0, kL0_CompactionTrigger>>
      BY <1>2, FS_EmptySet DEF Score
    <2> QED
      BY <2>1, LsmAssumption
  <1>3. CASE level # 0
    <2>1. UNION {{f} \X f.entries : f \in files[level]} = {}
      OBVIOUS
    <2>2. TotalFileSize(files[level]) = 0
      BY <2>1, FS_EmptySet DEF TotalFileSize
    <2>3. Score(level) = <<0, MaxBytesForLevel[level]>>
      BY <2>2, <1>3 DEF Score
    <2>4. MaxBytesForLevel[level] \in Nat \ {0}
      BY <1>1, LimitsPositive
    <2> QED
      BY <2>3, <2>4
  <1> QED
    BY <1>2, <1>3

\* The file a compaction starts with is one of its level.
LEMMA PickedFacts ==
  ASSUME FilesTyped, Numbered, NeedsCompaction,
         file_to_compact # None =>
            \E level \in 0..(kNumLevels - 2) : \E f \in files[level] : file_to_compact = <<level, f>>,
         NEW v \in Picked
  PROVE  \E level \in 0..(kNumLevels - 2) : \E f \in files[level] : v = <<level, f>>
  <1>1. CASE ~SizeCompaction
    BY <1>1 DEF Picked, NeedsCompaction
  <1>2. CASE SizeCompaction
    <2>1. PICK big \in 0..(kNumLevels - 2) : Score(big)[1] >= Score(big)[2] /\ BestLevel(big)
      BY <1>2 DEF SizeCompaction
    <2>2. PICK level \in 0..(kNumLevels - 2) : BestLevel(level) /\ v = <<level, AfterPointer(level)>>
      BY <1>2 DEF Picked
    <2>3. level = big
      <3>1. ~(level < big)
        BY <2>1, <2>2 DEF BestLevel
      <3>2. ~(big < level)
        BY <2>1, <2>2 DEF BestLevel
      <3> QED
        BY <3>1, <3>2, AboutLevels DEF LevelFacts
    <2>4. level \in Levels /\ files[level] # {}
      BY <2>1, <2>3, ScoreMeansFiles, AboutLevels DEF LevelFacts
    <2>5. files[level] \in SUBSET Tables /\ IsFiniteSet(files[level])
      BY <2>4 DEF FilesTyped
    <2> DEFINE beyond == {f \in files[level] : compact_pointer[level] = None
                                            \/ Less(compact_pointer[level], largest(f))}
               S == IF beyond = {} THEN files[level] ELSE beyond
    <2>6. S \in SUBSET files[level] /\ S # {}
      BY <2>4
    <2>7. AfterPointer(level) = FirstFile(S)
      BY DEF AfterPointer
    <2> HIDE DEF S, beyond
    <2>8. IsFiniteSet(S) /\ S \in SUBSET Tables
      BY <2>5, <2>6, FS_Subset
    <2>9. \A f, g \in S : f.number = g.number => f = g
      BY <2>4, <2>6, NumbersTellApart
    <2>10. AfterPointer(level) \in files[level]
      BY <2>6, <2>7, <2>8, <2>9, FirstFileIn
    <2> QED
      BY <2>2, <2>10
  <1> QED
    BY <1>1, <1>2

\* A single file leaves no gap.
LEMMA OneFileConnected ==
  ASSUME NEW f \in Tables
  PROVE  Connected({f})
  BY DEF Connected

\* What PickCompaction sets up from a file.
LEMMA PickChosen ==
  ASSUME FilesTyped, NEW level \in 0..(kNumLevels - 2), NEW f \in files[level],
         NEW c, c = PickCompaction(level, f)
  PROVE  Chosen(c) /\ Connected(c.in0 \cup c.in1)
  <1>1. level \in Levels /\ files[level] \in SUBSET Tables
    BY AboutLevels DEF LevelFacts, FilesTyped
  <1>2. {f} \in SUBSET Tables /\ {f} # {} /\ IsFiniteSet({f}) /\ Connected({f})
    BY <1>1, FS_Singleton, OneFileConnected
  <1>3. CASE level = 0
    <2> DEFINE G == GetOverlappingInputs(0, UserRange({f})[1], UserRange({f})[2])
    <2>1. /\ G \in SUBSET files[0] /\ {f} \subseteq G
          /\ \A g \in files[0] : Overlaps(g, G) => g \in G
      <3> HIDE DEF G
      <3>1. G = GetOverlappingInputs(level, UserRange({f})[1], UserRange({f})[2])
        BY <1>3 DEF G
      <3>2. {f} \subseteq files[level]
        OBVIOUS
      <3>3. /\ G \in SUBSET files[level]
            /\ level = 0 => \A g \in files[0] : Overlaps(g, G) => g \in G
            /\ {f} \subseteq files[level] => {f} \subseteq G
        <4> DEFINE F == {f}
        <4>1. /\ F \in SUBSET Tables /\ F # {} /\ IsFiniteSet(F)
              /\ G = GetOverlappingInputs(level, UserRange(F)[1], UserRange(F)[2])
          BY <3>1, <1>2
        <4> HIDE DEF F
        <4>2. /\ G \in SUBSET files[level]
              /\ level = 0 => \A g \in files[0] : Overlaps(g, G) => g \in G
              /\ F \subseteq files[level] => F \subseteq G
          BY <4>1, <1>1, InputsOf
        <4> QED
          BY <4>2 DEF F
      <3> QED
        BY <3>2, <3>3, <1>3
    <2>2. Connected(G \cup {})
      <3>1. G = GetOverlappingInputs(level, UserRange({f})[1], UserRange({f})[2])
        BY <1>3
      <3>2. {} \subseteq {f} /\ {f} \subseteq G \cup {}
        BY <2>1
      <3> HIDE DEF G
      <3> QED
        BY <3>1, <3>2, <1>1, <1>2, StayConnected
    <2>3. c = SetupOtherInputs(level, G)
      BY <1>3 DEF PickCompaction
    <2> HIDE DEF G
    <2>4. G \cup {} = G /\ G # {}
      BY <2>1
    <2>5. Chosen(c) /\ (Connected(G) => Connected(c.in0 \cup c.in1))
      BY <2>1, <2>3, <2>4, <1>3, SetupChosen
    <2> QED
      BY <2>2, <2>4, <2>5
  <1>4. CASE level # 0
    <2>1. c = SetupOtherInputs(level, {f})
      BY <1>4 DEF PickCompaction
    <2>2. {f} \in SUBSET files[level]
      OBVIOUS
    <2>3. Chosen(c) /\ (Connected({f}) => Connected(c.in0 \cup c.in1))
      BY <2>1, <2>2, <1>2, <1>4, SetupChosen
    <2> QED
      BY <2>3, <1>2
  <1> QED
    BY <1>3, <1>4

-----------------------------------------------------------------------------
(* The files a read looks into.                                            *)

Apart(S) ==
    \A f, g \in S : f = g \/ AfterFile(smallest(g)[1], f) \/ AfterFile(smallest(f)[1], g)

\* Files whose ranges of user keys do not touch do not overlap.
LEMMA ApartDisjoint ==
  ASSUME NEW S \in SUBSET Tables, Apart(S)
  PROVE  Disjoint(S)
  <1> SUFFICES ASSUME NEW f \in S, NEW g \in S, f # g
               PROVE  Less(largest(f), smallest(g)) \/ Less(largest(g), smallest(f))
    BY DEF Disjoint
  <1>1. /\ smallest(f) \in InternalKeys /\ largest(f) \in InternalKeys
        /\ smallest(g) \in InternalKeys /\ largest(g) \in InternalKeys
        /\ smallest(f)[1] \in Nat /\ largest(f)[1] \in Nat
        /\ smallest(g)[1] \in Nat /\ largest(g)[1] \in Nat
    BY TableKeys
  <1>2. largest(f)[1] < smallest(g)[1] \/ largest(g)[1] < smallest(f)[1]
    BY <1>1 DEF Apart, AfterFile
  <1> QED
    BY <1>1, <1>2, LessOrders

\* A read misses no file that has an entry it could return.
LEMMA InLevelFacts ==
  ASSUME FilesTyped, Numbered, NEW level \in Levels,
         level # 0 => Disjoint(files[level]),
         NEW k \in Nat, NEW s \in Nat
  PROVE  /\ InLevel(level, k, s) \subseteq files[level]
         /\ level # 0 => \A f, g \in InLevel(level, k, s) : f = g
         /\ level # 0 /\ Apart(files[level]) =>
               \A f \in files[level] : Hits(f.entries, k, s) # {} => f \in InLevel(level, k, s)
         /\ level = 0 =>
               \A f \in files[level] : Hits(f.entries, k, s) # {} => f \in InLevel(level, k, s)
  <1>1. files[level] \in SUBSET Tables /\ IsFiniteSet(files[level])
    BY DEF FilesTyped
  <1>2. \A f \in Tables : \A e \in Hits(f.entries, k, s) :
           /\ e \in InternalKeys /\ e[1] = k /\ e[2] <= s
           /\ ~Less(largest(f), e) /\ smallest(f)[1] <= k /\ k <= largest(f)[1]
    BY TableKeys DEF Hits
  <1>3. \A f \in Tables : smallest(f)[1] \in Nat /\ largest(f)[1] \in Nat
    BY TableKeys
  <1>4. CASE level = 0
    <2>1. InLevel(level, k, s) = {f \in files[0] : ~AfterFile(k, f) /\ ~BeforeFile(k, f)}
      BY <1>4 DEF InLevel
    <2>2. ASSUME NEW f \in files[level], Hits(f.entries, k, s) # {}
          PROVE  f \in InLevel(level, k, s)
      <3>1. f \in Tables /\ smallest(f)[1] <= k /\ k <= largest(f)[1]
        BY <1>1, <1>2, <2>2
      <3> QED
        BY <3>1, <2>1, <1>3, <1>4 DEF AfterFile, BeforeFile
    <2> QED
      BY <2>1, <2>2, <1>4
  <1>5. CASE level # 0
    <2> DEFINE list == Listed(files[level])
               target == Seek(k, s)
               i == FindFile(list, target)
               N == Len(list)
    <2>1. /\ list \in Seq(Tables)
          /\ \A m, n \in 1..N : m < n => Less(largest(list[m]), smallest(list[n]))
          /\ \A f \in files[level] : \E n \in 1..N : list[n] = f
          /\ \A n \in 1..N : list[n] \in files[level]
      BY <1>1, <1>5, DisjointInOrder
    <2>2. target \in InternalKeys /\ target[1] = k /\ target[2] = s /\ N \in Nat
      BY <2>1 DEF Seek, InternalKeys
    <2> HIDE DEF list, target
    <2>3. /\ i \in 1..(N + 1)
          /\ \A n \in 1..N : n < i <=> Less(largest(list[n]), target)
      BY <2>1, <2>2, FindFileFacts
    <2>4. InLevel(level, k, s) = IF i > N \/ BeforeFile(k, list[i]) THEN {} ELSE {list[i]}
      BY <1>5 DEF InLevel, list, target
    <2> HIDE DEF i, N
    <2>5. ~(i > N) => i \in 1..N /\ list[i] \in files[level]
      BY <2>1, <2>2, <2>3
    <2>6. ASSUME Apart(files[level]), NEW f \in files[level], Hits(f.entries, k, s) # {}
          PROVE  f \in InLevel(level, k, s)
      <3>1. PICK e \in Hits(f.entries, k, s) : TRUE
        BY <2>6
      <3>2. f \in Tables
        BY <1>1
      <3>3. /\ e \in InternalKeys /\ e[1] = k /\ e[2] <= s
            /\ ~Less(largest(f), e) /\ smallest(f)[1] <= k /\ k <= largest(f)[1]
            /\ largest(f) \in InternalKeys /\ smallest(f)[1] \in Nat
        BY <3>1, <3>2, <1>2, <1>3, TableKeys
      <3>4. ~Less(e, target)
        BY <3>3, <2>2 DEF Less, InternalKeys
      <3>5. ~Less(largest(f), target)
        BY <3>3, <3>4, <2>2, LessOrders
      <3>6. PICK n \in 1..N : list[n] = f
        BY <2>1
      <3>7. ~(n < i)
        BY <3>5, <3>6, <2>3
      <3>8. i \in 1..N /\ list[i] \in files[level] /\ ~(i > N)
        BY <3>7, <2>2, <2>3, <2>5
      <3>9. i = n
        <4> SUFFICES ASSUME i < n PROVE FALSE
          BY <3>7, <3>8, <2>2
        <4>1. Less(largest(list[i]), smallest(f))
          BY <3>6, <3>8, <2>1
        <4>2. list[i] \in Tables /\ largest(list[i]) \in InternalKeys /\ smallest(list[i]) \in InternalKeys
          BY <3>8, <1>1, TableKeys
        <4>3. ~Less(largest(list[i]), target)
          BY <3>8, <2>2, <2>3
        <4>4. k <= largest(list[i])[1]
          BY <4>2, <4>3, <2>2, LessOrders
        <4>5. list[i] # f
          BY <4>1, <4>2, <3>2, TableKeys
        <4>6. largest(list[i])[1] < smallest(f)[1] \/ largest(f)[1] < smallest(list[i])[1]
          BY <4>5, <3>8, <2>6 DEF Apart, AfterFile
        <4>7. /\ smallest(list[i])[1] \in Nat /\ largest(list[i])[1] \in Nat
              /\ smallest(list[i])[1] <= largest(list[i])[1]
              /\ largest(f)[1] \in Nat
          BY <4>2, <3>2, TableKeys
        <4>8. largest(list[i])[1] <= smallest(f)[1]
          BY <4>1, <4>2, <3>2, TableKeys, LessOrders
        <4> QED
          BY <4>4, <4>6, <4>7, <4>8, <3>3
      <3>10. ~BeforeFile(k, list[i])
        BY <3>3, <3>6, <3>9 DEF BeforeFile
      <3> QED
        BY <3>6, <3>8, <3>9, <3>10, <2>4
    <2>7. InLevel(level, k, s) \subseteq files[level] /\ \A f, g \in InLevel(level, k, s) : f = g
      BY <2>4, <2>5
    <2> QED
      BY <2>6, <2>7, <1>5
  <1> QED
    BY <1>4, <1>5

\* Of the files a read may look into there is a first.
LEMMA VisitsFacts ==
  ASSUME FilesTyped, Numbered, \A level \in Levels \ {0} : Disjoint(files[level]),
         NEW k \in Nat, NEW s \in Nat,
         NEW V \in SUBSET ForEachOverlapping(k, s), V # {}
  PROVE  /\ FirstVisited(V) \in V
         /\ \A u \in V \ {FirstVisited(V)} : NewestFirst(FirstVisited(V), u)
  <1> DEFINE R == {p \in V \X V : NewestFirst(p[1], p[2])}
  <1>1. \A level \in Levels : /\ InLevel(level, k, s) \subseteq files[level]
                              /\ level # 0 => \A f, g \in InLevel(level, k, s) : f = g
    BY InLevelFacts
  <1>2. \A v \in V : /\ v[1] \in Levels /\ v[2] \in InLevel(v[1], k, s) /\ v[2] \in files[v[1]]
                     /\ v = <<v[1], v[2]>>
    BY <1>1 DEF ForEachOverlapping
  <1>3. \A v \in V : v[1] \in Nat /\ v[2].number \in Nat
    <2> TAKE v \in V
    <2>1. v[1] \in Nat /\ v[2] \in Tables
      BY <1>2, AboutLevels DEF FilesTyped
    <2> QED
      BY <2>1, TableKeys
  <1>4. \A v, u \in V : v = u \/ NewestFirst(v, u) \/ NewestFirst(u, v)
    <2> SUFFICES ASSUME NEW v \in V, NEW u \in V, ~NewestFirst(v, u), ~NewestFirst(u, v)
                 PROVE  v = u
      OBVIOUS
    <2>1. v[1] = u[1] /\ v[2].number = u[2].number
      BY <1>3 DEF NewestFirst
    <2>2. v[2] = u[2]
      BY <2>1, <1>2 DEF Numbered
    <2> QED
      BY <2>1, <2>2, <1>2
  <1>5. StrictOrder(V, R)
    BY <1>3, <1>4 DEF StrictOrder, NewestFirst
  <1>6. IsFiniteSet(V)
    <2> DEFINE Sets == {{level} \X files[level] : level \in Levels}
               lev == [level \in Levels |-> {level} \X files[level]]
    <2>1. IsFiniteSet(Levels)
      <3>1. Levels = 0..(kNumLevels - 1) /\ 0 \in Int /\ kNumLevels - 1 \in Int
        BY AboutLevels DEF LevelFacts
      <3> QED
        BY <3>1, FS_Interval
    <2>2. IsFiniteSet(Sets)
      <3>1. lev \in Surjection(Levels, Sets)
        BY DEF Surjection
      <3> HIDE DEF lev, Sets
      <3> QED
        BY <3>1, <2>1, FS_Surjection
    <2>3. \A T \in Sets : IsFiniteSet(T)
      <3> TAKE T \in Sets
      <3>1. PICK level \in Levels : T = {level} \X files[level]
        OBVIOUS
      <3>2. IsFiniteSet({level}) /\ IsFiniteSet(files[level])
        BY FS_Singleton DEF FilesTyped
      <3> QED
        BY <3>1, <3>2, FS_Product
    <2>4. IsFiniteSet(UNION Sets)
      <3> HIDE DEF Sets
      <3> QED
        BY <2>2, <2>3, FS_UNION
    <2>5. V \subseteq UNION Sets
      <3> SUFFICES ASSUME NEW v \in V PROVE v \in UNION Sets
        OBVIOUS
      <3>1. v \in {v[1]} \X files[v[1]] /\ v[1] \in Levels
        BY <1>2
      <3> QED
        BY <3>1
    <2> HIDE DEF Sets
    <2> QED
      BY <2>4, <2>5, FS_Subset
  <1>7. \E v \in V : \A u \in V \ {v} : <<v, u>> \in R
    <2> HIDE DEF R
    <2> QED
      BY <1>5, <1>6, Extremes
  <1>8. \E v \in V : \A u \in V \ {v} : NewestFirst(v, u)
    BY <1>7
  <1> QED
    BY <1>8 DEF FirstVisited

\* The file UpdateStats chooses has a level to be compacted into.
LEMMA ChosenBySeeks ==
  ASSUME FilesTyped, Numbered, \A level \in Levels \ {0} : Disjoint(files[level]),
         NEW k \in Nat, NEW s \in Nat,
         Cardinality(ForEachOverlapping(k, s)) >= 2
  PROVE  \E level \in 0..(kNumLevels - 2) : \E f \in files[level] :
            FirstVisited(ForEachOverlapping(k, s)) = <<level, f>>
  <1> DEFINE V == ForEachOverlapping(k, s)
             v == FirstVisited(V)
  <1>1. V # {}
    BY FS_EmptySet
  <1>2. v \in V /\ \A u \in V \ {v} : NewestFirst(v, u)
    <2> HIDE DEF V
    <2>1. V \in SUBSET ForEachOverlapping(k, s)
      BY DEF V
    <2> QED
      BY <2>1, <1>1, VisitsFacts
  <1>3. PICK u \in V : u # v
    <2>1. V # {v}
      BY FS_Singleton
    <2> QED
      BY <2>1, <1>1
  <1>4. \A w \in V : /\ w[1] \in Levels /\ w[2] \in InLevel(w[1], k, s) /\ w[2] \in files[w[1]]
                     /\ w = <<w[1], w[2]>>
    BY InLevelFacts DEF ForEachOverlapping
  <1>5. \A level \in Levels : level # 0 => \A f, g \in InLevel(level, k, s) : f = g
    BY InLevelFacts
  <1> HIDE DEF v, V
  <1>6. v[1] < u[1] \/ v[1] = u[1]
    BY <1>2, <1>3 DEF NewestFirst
  <1>7. v[1] \in Levels /\ u[1] \in Levels
    BY <1>2, <1>3, <1>4
  <1>8. v[1] \in 0..(kNumLevels - 2)
    <2>1. CASE v[1] < u[1]
      BY <2>1, <1>7, AboutLevels DEF LevelFacts
    <2>2. CASE v[1] = u[1]
      <3>1. v[1] = 0
        BY <2>2, <1>2, <1>3, <1>4, <1>5, <1>7
      <3> QED
        BY <3>1, AboutLevels DEF LevelFacts
    <2> QED
      BY <1>6, <2>1, <2>2
  <1> QED
    BY <1>2, <1>4, <1>8 DEF v, V

-----------------------------------------------------------------------------
(* What a compaction writes.                                               *)

\* The closed outputs and the open one hold the entries P, in order.
Cut(closed, open, P, I) ==
    /\ closed \in Seq(SUBSET I) /\ open \in SUBSET I
    /\ \A i \in 1..Len(closed) : closed[i] # {}
    /\ \A i, j \in 1..Len(closed) :
          i < j => \A a \in closed[i], b \in closed[j] : Less(a, b)
    /\ \A i \in 1..Len(closed) : \A a \in closed[i], b \in open : Less(a, b)
    /\ \A x : x \in P <=> x \in open \/ \E i \in 1..Len(closed) : x \in closed[i]

\* FinishCompactionOutputFile keeps the outputs in order.
LEMMA CutClosed ==
  ASSUME NEW I, NEW closed, NEW open, NEW P, Cut(closed, open, P, I)
  PROVE  Cut(Closed(closed, open), {}, P, I)
  <1>1. CASE open = {}
    BY <1>1 DEF Closed, Cut
  <1>2. CASE open # {}
    <2> DEFINE s == Append(closed, open)
               n == Len(closed)
    <2>1. closed \in Seq(SUBSET I) /\ open \in SUBSET I /\ n \in Nat
      BY DEF Cut
    <2>2. /\ s \in Seq(SUBSET I) /\ Len(s) = n + 1
          /\ \A i \in 1..n : s[i] = closed[i]
          /\ s[n + 1] = open
      BY <2>1
    <2>3. \A i \in 1..(n + 1) : i \in 1..n \/ i = n + 1
      BY <2>1
    <2>4. \A i \in 1..n : i \in 1..(n + 1)
      BY <2>1
    <2>5. n + 1 \in 1..(n + 1) /\ \A i \in 1..(n + 1) : ~(n + 1 < i)
      BY <2>1
    <2>6. Closed(closed, open) = s
      BY <1>2 DEF Closed
    <2> HIDE DEF s, n
    <2>7. \A i \in 1..(n + 1) : s[i] # {}
      BY <1>2, <2>2, <2>3 DEF Cut, n
    <2>8. ASSUME NEW i \in 1..(n + 1), NEW j \in 1..(n + 1), i < j, NEW a \in s[i], NEW b \in s[j]
          PROVE  Less(a, b)
      <3>1. i \in 1..n /\ a \in closed[i]
        BY <2>2, <2>3, <2>5, <2>8
      <3>2. CASE j \in 1..n
        BY <3>1, <3>2, <2>2, <2>8 DEF Cut, n
      <3>3. CASE j = n + 1
        BY <3>1, <3>3, <2>2, <2>8 DEF Cut, n
      <3> QED
        BY <3>2, <3>3, <2>3
    <2>9. ASSUME NEW x PROVE x \in P <=> \E i \in 1..(n + 1) : x \in s[i]
      <3>1. x \in P <=> x \in open \/ \E i \in 1..n : x \in closed[i]
        BY DEF Cut, n
      <3> QED
        BY <3>1, <2>2, <2>3, <2>4, <2>5
    <2>10. Cut(s, {}, P, I)
      BY <2>2, <2>7, <2>8, <2>9 DEF Cut
    <2> QED
      BY <2>6, <2>10
  <1> QED
    BY <1>1, <1>2

\* An output stays in order with entries behind all others.
LEMMA CutMore ==
  ASSUME NEW I, NEW closed, NEW open, NEW P, Cut(closed, open, P, I),
         NEW A \in SUBSET I, \A x \in P, a \in A : Less(x, a)
  PROVE  Cut(closed, open \cup A, P \cup A, I)
  BY DEF Cut

\* A round of DoCompactionWork's loop keeps the outputs in order and loses no
\* entry that is kept.
LEMMA AfterEntryCut ==
  ASSUME NEW st, NEW P, NEW I, NEW e \in I, Cut(st.closed, st.open, P, I),
         \A x \in P : Less(x, e)
  PROVE  Cut(AfterEntry(st, e).closed, AfterEntry(st, e).open, P \cup (Kept \cap {e}), I)
  <1> DEFINE stop == PassedBytes(st.from, e) > MaxGrandParentOverlapBytes
             done == IF stop THEN Closed(st.closed, st.open) ELSE st.closed
             rest == IF stop THEN {} ELSE st.open
             now == rest \cup (Kept \cap {e})
             full == e \in Kept /\ Cardinality(now) >= TargetFileSize
             from == IF stop THEN e ELSE st.from
  <1>1. AfterEntry(st, e) = [closed |-> IF full THEN Closed(done, now) ELSE done,
                             open |-> IF full THEN {} ELSE now,
                             from |-> from]
    BY DEF AfterEntry
  <1>2. Cut(done, rest, P, I)
    BY CutClosed
  <1> HIDE DEF done, rest, full, from
  <1>3. Cut(done, now, P \cup (Kept \cap {e}), I)
    <2>1. Kept \cap {e} \in SUBSET I
      OBVIOUS
    <2>2. \A x \in P, a \in Kept \cap {e} : Less(x, a)
      OBVIOUS
    <2> QED
      BY <1>2, <2>1, <2>2, CutMore
  <1> HIDE DEF now
  <1>4. CASE full
    <2>1. Cut(Closed(done, now), {}, P \cup (Kept \cap {e}), I)
      BY <1>3, CutClosed
    <2>2. AfterEntry(st, e).closed = Closed(done, now) /\ AfterEntry(st, e).open = {}
      BY <1>1, <1>4
    <2> QED
      BY <2>1, <2>2
  <1>5. CASE ~full
    <2>1. AfterEntry(st, e).closed = done /\ AfterEntry(st, e).open = now
      BY <1>1, <1>5
    <2> QED
      BY <2>1, <1>3
  <1> QED
    BY <1>4, <1>5

\* A round of DoCompactionWork's loop leaves outputs of entries it has read.
LEMMA AfterEntryTyped ==
  ASSUME NEW I, NEW st \in [closed : Seq(SUBSET I), open : SUBSET I, from : I], NEW e \in I
  PROVE  AfterEntry(st, e) \in [closed : Seq(SUBSET I), open : SUBSET I, from : I]
  <1> DEFINE stop == PassedBytes(st.from, e) > MaxGrandParentOverlapBytes
             done == IF stop THEN Closed(st.closed, st.open) ELSE st.closed
             rest == IF stop THEN {} ELSE st.open
             now == rest \cup (Kept \cap {e})
             full == e \in Kept /\ Cardinality(now) >= TargetFileSize
             from == IF stop THEN e ELSE st.from
  <1>1. AfterEntry(st, e) = [closed |-> IF full THEN Closed(done, now) ELSE done,
                             open |-> IF full THEN {} ELSE now,
                             from |-> from]
    BY DEF AfterEntry
  <1>2. st.closed \in Seq(SUBSET I) /\ st.open \in SUBSET I /\ st.from \in I
    OBVIOUS
  <1>3. \A s \in Seq(SUBSET I) : \A o \in SUBSET I : Closed(s, o) \in Seq(SUBSET I)
    BY DEF Closed
  <1>4. done \in Seq(SUBSET I) /\ now \in SUBSET I /\ from \in I
    BY <1>2, <1>3
  <1> HIDE DEF done, now, from, full
  <1>5. Closed(done, now) \in Seq(SUBSET I) /\ {} \in SUBSET I
    BY <1>3, <1>4
  <1> QED
    BY <1>1, <1>4, <1>5

\* The outputs are not empty, follow each other in order and hold what is kept.
OutputsFit(out) ==
    /\ out \in Seq(SUBSET Inputs)
    /\ \A i \in 1..Len(out) : out[i] # {}
    /\ \A i, j \in 1..Len(out) : i < j => \A a \in out[i], b \in out[j] : Less(a, b)
    /\ \A x : x \in Kept <=> \E i \in 1..Len(out) : x \in out[i]

\* DoCompactionWork cuts the entries it keeps into files, in order.
LEMMA OutputsAreCut ==
  ASSUME KeySet(Inputs)
  PROVE  OutputsFit(Outputs)
  <1> DEFINE I == Inputs
             R == {p \in I \X I : Less(p[1], p[2])}
             entries == InOrder(I, R)
             N == Len(entries)
             S == [closed : Seq(SUBSET I), open : SUBSET I, from : I]
             start == [closed |-> <<>>, open |-> {}, from |-> FirstOf(I)]
             step == [n \in 1..N |-> [st \in S |-> AfterEntry(st, entries[n])]]
             Is(g) == g = [n \in 0..N |-> IF n = 0 THEN start ELSE AfterEntry(g[n - 1], entries[n])]
             state == CHOOSE g : Is(g)
  <1>1. /\ N \in Nat /\ entries \in Seq(I)
        /\ \A i, j \in 1..N : i < j => Less(entries[i], entries[j])
        /\ \A x \in I : \E i \in 1..N : entries[i] = x
        /\ \A i \in 1..N : entries[i] \in I
    <2>1. StrictOrder(I, R) /\ IsFiniteSet(I)
      BY KeySetOrder DEF KeySet
    <2> HIDE DEF R, I
    <2>2. /\ Cardinality(I) \in Nat
          /\ entries \in [1..Cardinality(I) -> I]
          /\ entries \in Seq(I) /\ N = Cardinality(I)
          /\ \A i, j \in 1..Cardinality(I) : i < j => <<entries[i], entries[j]>> \in R
          /\ \A x \in I : \E i \in 1..Cardinality(I) : entries[i] = x
      BY <2>1, InOrderFacts
    <2>3. \A i, j \in 1..Cardinality(I) : i < j => Less(entries[i], entries[j])
      BY <2>2 DEF R
    <2> HIDE DEF entries, N
    <2> QED
      BY <2>2, <2>3
  <1>2. Outputs = Closed(state[N].closed, state[N].open)
    BY DEF Outputs
  <1>3. start \in S
    <2>1. FirstOf(I) \in I
      BY FirstAndLast
    <2>2. <<>> \in Seq(SUBSET I)
      OBVIOUS
    <2> HIDE DEF I
    <2> QED
      BY <2>1, <2>2
  <1>4. step \in [1..N -> [S -> S]]
    <2>1. \A n \in 1..N : \A st \in S : AfterEntry(st, entries[n]) \in S
      <3> HIDE DEF I, entries, N
      <3> QED
        BY <1>1, AfterEntryTyped
    <2> HIDE DEF S, N, entries
    <2> QED
      BY <2>1
  <1>5. PICK f \in [0..N -> S] : /\ f[0] = start
                                 /\ \A n \in 1..N : f[n] = step[n][f[n - 1]]
    <2> HIDE DEF N, S, start, step
    <2>1. Run(S, start, N, step) # {}
      BY <1>1, <1>3, <1>4, Rounds
    <2> QED
      BY <2>1 DEF Run
  <1> HIDE DEF start, S, I, entries, N
  <1>6. Is(f)
    <2>1. ASSUME NEW n \in 0..N
          PROVE  f[n] = IF n = 0 THEN start ELSE AfterEntry(f[n - 1], entries[n])
      <3>1. CASE n = 0
        BY <3>1, <1>5
      <3>2. CASE n # 0
        <4>1. n \in 1..N /\ n - 1 \in 0..N
          BY <3>2, <1>1
        <4>2. f[n - 1] \in S
          BY <4>1
        <4> QED
          BY <4>1, <4>2, <3>2, <1>5
      <3> QED
        BY <3>1, <3>2
    <2>2. f = [n \in 0..N |-> f[n]]
      OBVIOUS
    <2> QED
      BY <2>1, <2>2
  <1>7. Is(state)
    <2> HIDE DEF Is
    <2> QED
      BY <1>6
  <1> HIDE DEF state
  <1>8. /\ state[0] = start
        /\ \A n \in 1..N : n - 1 \in 0..N /\ state[n] = AfterEntry(state[n - 1], entries[n])
    <2>1. 0 \in 0..N /\ \A n \in 1..N : n \in 0..N /\ n # 0 /\ n - 1 \in 0..N
      BY <1>1
    <2> QED
      BY <1>7, <2>1
  <1> DEFINE Seen(n) == {x \in Kept : \E i \in 1..n : x = entries[i]}
             Good == {n \in 0..N : Cut(state[n].closed, state[n].open, Seen(n), I)}
  <1>9. 0 \in Good
    <2>1. Seen(0) = {}
      OBVIOUS
    <2>2. state[0].closed = <<>> /\ state[0].open = {}
      BY <1>8 DEF start
    <2>3. Cut(<<>>, {}, {}, I)
      BY DEF Cut
    <2> HIDE DEF Seen
    <2>4. Cut(state[0].closed, state[0].open, Seen(0), I)
      BY <2>1, <2>2, <2>3
    <2>5. 0 \in 0..N
      BY <1>1
    <2> QED
      BY <2>4, <2>5
  <1>10. ASSUME NEW n \in 1..N, n - 1 \in Good PROVE n \in Good
    <2>1. n \in 0..N /\ n \in Nat /\ \A i \in 1..(n - 1) : i \in 1..N /\ i < n
      BY <1>1
    <2>2. Cut(state[n - 1].closed, state[n - 1].open, Seen(n - 1), I)
      BY <1>10
    <2>3. \A x \in Seen(n - 1) : Less(x, entries[n])
      BY <2>1, <1>1
    <2>4. Seen(n) = Seen(n - 1) \cup (Kept \cap {entries[n]})
      <3>1. \A i : i \in 1..n <=> i \in 1..(n - 1) \/ i = n
        BY <2>1
      <3> QED
        BY <3>1
    <2>5. state[n] = AfterEntry(state[n - 1], entries[n]) /\ entries[n] \in I
      BY <1>1, <1>8
    <2> HIDE DEF Seen
    <2>6. PICK e \in I : e = entries[n]
      BY <2>5
    <2>7. PICK st : st = state[n - 1]
      OBVIOUS
    <2>8. PICK P : P = Seen(n - 1)
      OBVIOUS
    <2>9. Cut(st.closed, st.open, P, I) /\ \A x \in P : Less(x, e)
      BY <2>2, <2>3, <2>6, <2>7, <2>8
    <2>10. Cut(AfterEntry(st, e).closed, AfterEntry(st, e).open, P \cup (Kept \cap {e}), I)
      BY <2>9, AfterEntryCut
    <2>11. Cut(state[n].closed, state[n].open, Seen(n), I)
      BY <2>4, <2>5, <2>6, <2>7, <2>8, <2>10
    <2> QED
      BY <2>1, <2>11
  <1>11. \A n \in 0..N : n \in Good
    <2> HIDE DEF Good
    <2> QED
      BY <1>1, <1>9, <1>10, UpTo
  <1>12. Seen(N) = Kept
    <2>1. Kept \subseteq I
      BY DEF Kept, I
    <2> QED
      BY <2>1, <1>1
  <1> HIDE DEF Seen
  <1>13. Cut(Closed(state[N].closed, state[N].open), {}, Kept, I)
    <2>1. N \in 0..N
      BY <1>1
    <2>2. Cut(state[N].closed, state[N].open, Seen(N), I)
      BY <1>11, <2>1
    <2> QED
      BY <2>2, <1>12, CutClosed
  <1>14. Cut(Outputs, {}, Kept, I)
    BY <1>2, <1>13
  <1> HIDE DEF I
  <1> QED
    BY <1>14 DEF Cut, OutputsFit, I

FilesOK(fs, W, next) ==
    /\ fs \in [Levels -> SUBSET Tables]
    /\ \A level \in Levels : IsFiniteSet(fs[level])
    /\ \A a, b \in Levels : \A f \in fs[a], g \in fs[b] : f.number = g.number => f = g /\ a = b
    /\ \A level \in Levels : \A f \in fs[level] : f.entries \subseteq W /\ f.number < next

\* A file chosen by seeks is there and has a level to be compacted into.
SeeksOK(chosen, fs) ==
    chosen # None =>
       \E level \in 0..(kNumLevels - 2) : \E f \in fs[level] : chosen = <<level, f>>

\* A compaction under way has its inputs in the levels it reads.
CompOK(state, fs) ==
    state # None =>
       /\ state.c.level \in 0..(kNumLevels - 2)
       /\ state.c.in0 \in SUBSET fs[state.c.level] /\ state.c.in0 # {}
       /\ state.c.in1 \in SUBSET fs[state.c.level + 1]

Typed ==
    /\ history \in Seq(Keys \X Types) /\ Len(history) <= MaxSeq
    /\ mem \in SUBSET Written /\ imm \in SUBSET Written
    /\ next_file \in Nat
    /\ FilesOK(files, Written, next_file)
    /\ SeeksOK(file_to_compact, files)
    /\ CompOK(comp, files)

\* The files of a version are tables of entries that were written.
LEMMA TypedFiles ==
  ASSUME Typed
  PROVE  /\ FilesTyped /\ Numbered /\ WithinMaxSeq
         /\ \A level \in Levels : \A f \in files[level] :
               f \in Tables /\ f.entries \in SUBSET Written /\ f.number < next_file
  <1>1. FilesTyped /\ Numbered
    BY DEF Typed, FilesOK, FilesTyped, Numbered
  <1>2. \A level \in Levels : \A f \in files[level] :
           f \in Tables /\ f.entries \in SUBSET Written /\ f.number < next_file
    BY DEF Typed, FilesOK
  <1>3. \A e \in Written : e[2] \in 1..Len(history)
    BY WrittenFacts DEF Typed
  <1>4. Len(history) \in Nat /\ Len(history) <= MaxSeq /\ MaxSeq \in Nat
    BY LsmAssumption DEF Typed
  <1>5. \A e \in Written : e[2] <= MaxSeq
    BY <1>3, <1>4
  <1>6. WithinMaxSeq
    BY <1>2, <1>5 DEF WithinMaxSeq
  <1> QED
    BY <1>1, <1>2, <1>6

\* LevelsDisjoint, level by level.
LEMMA DisjointLevels ==
  LevelsDisjoint <=> \A level \in Levels \ {0} : Disjoint(files[level])
  BY DEF LevelsDisjoint, Disjoint

\* A compaction reads tables, on levels that there are.
LEMMA TypedInputs ==
  ASSUME Typed, comp # None
  PROVE  /\ Inputs \in SUBSET Written /\ KeySet(Inputs)
         /\ comp.c.level \in Levels /\ comp.c.level + 1 \in Levels
         /\ \A f \in comp.c.in0 \cup comp.c.in1 : f \in Tables /\ f.entries \subseteq Inputs
  <1>1. comp.c.level \in Levels /\ comp.c.level + 1 \in Levels
    BY AboutLevels DEF Typed, CompOK, LevelFacts
  <1>2. comp.c.in0 \in SUBSET files[comp.c.level] /\ comp.c.in1 \in SUBSET files[comp.c.level + 1]
    BY DEF Typed, CompOK
  <1>3. \A f \in comp.c.in0 \cup comp.c.in1 : f \in Tables /\ f.entries \in SUBSET Written
    BY <1>1, <1>2, TypedFiles
  <1>4. Inputs \in SUBSET Written /\ \A f \in comp.c.in0 \cup comp.c.in1 : f.entries \subseteq Inputs
    BY <1>3 DEF Inputs
  <1>5. Inputs # {}
    <2>1. PICK f \in comp.c.in0 : TRUE
      BY DEF Typed, CompOK
    <2>2. f.entries # {} /\ f.entries \subseteq Inputs
      BY <1>3, <1>4, TableKeys
    <2> QED
      BY <2>2
  <1>6. KeySet(Inputs)
    BY <1>4, <1>5, WrittenTables DEF Typed
  <1> QED
    BY <1>1, <1>3, <1>4, <1>6

-----------------------------------------------------------------------------
(* What the steps do to the levels.                                        *)

Added(level, f) == [l \in Levels |-> IF l = level THEN files[l] \cup {f} ELSE files[l]]
Replaced(c, new) ==
    [l \in Levels |-> IF l = c.level THEN files[l] \ c.in0
                      ELSE IF l = c.level + 1 THEN (files[l] \ c.in1) \cup new
                      ELSE files[l]]

\* VersionSet::LogAndApply with the one file of a flush.
LEMMA ApplyAdded ==
  ASSUME NEW level, NEW f, LogAndApply({}, {<<level, f>>})
  PROVE  files' = Added(level, f) /\ file_to_compact' = None
  <1>1. ASSUME NEW l \in Levels
        PROVE  (files[l] \ {g \in files[l] : <<l, g>> \in {}})
                  \cup {g \in {a[2] : a \in {<<level, f>>}} : <<l, g>> \in {<<level, f>>}}
               = IF l = level THEN files[l] \cup {f} ELSE files[l]
    OBVIOUS
  <1> QED
    BY <1>1 DEF LogAndApply, Added

\* VersionSet::LogAndApply with the files a compaction deletes and adds.
LEMMA ApplyReplaced ==
  ASSUME NEW c, c.level \in Nat, NEW new, NEW deleted,
         deleted = {<<c.level, f>> : f \in c.in0} \cup {<<c.level + 1, f>> : f \in c.in1},
         LogAndApply(deleted, {<<c.level + 1, f>> : f \in new})
  PROVE  files' = Replaced(c, new) /\ file_to_compact' = None
  <1> DEFINE added == {<<c.level + 1, f>> : f \in new}
  <1>1. c.level # c.level + 1
    OBVIOUS
  <1>2. ASSUME NEW l \in Levels
        PROVE  (files[l] \ {g \in files[l] : <<l, g>> \in deleted})
                  \cup {g \in {a[2] : a \in added} : <<l, g>> \in added}
               = IF l = c.level THEN files[l] \ c.in0
                 ELSE IF l = c.level + 1 THEN (files[l] \ c.in1) \cup new
                 ELSE files[l]
    <2>1. \A g : <<l, g>> \in deleted <=> \/ l = c.level /\ g \in c.in0
                                          \/ l = c.level + 1 /\ g \in c.in1
      OBVIOUS
    <2>2. \A g : <<l, g>> \in added <=> l = c.level + 1 /\ g \in new
      OBVIOUS
    <2>3. {a[2] : a \in added} = new
      <3>1. \A g \in new : <<c.level + 1, g>> \in added /\ <<c.level + 1, g>>[2] = g
        OBVIOUS
      <3>2. \A a \in added : a[2] \in new
        OBVIOUS
      <3> HIDE DEF added
      <3> QED
        BY <3>1, <3>2
    <2> HIDE DEF added
    <2> QED
      BY <1>1, <2>1, <2>2, <2>3
  <1> QED
    BY <1>2 DEF LogAndApply, Replaced

\* A flush: a file of its own number goes to a level down to which nothing
\* overlaps it, or to level 0.
Flushes(level, f) ==
    /\ level \in Levels /\ f \in Tables /\ f.number = next_file /\ f.entries = imm
    /\ level # 0 =>
          \A l \in 0..level : \A g \in files[l] :
             AfterFile(smallest(f)[1], g) \/ BeforeFile(largest(f)[1], g)
    /\ files' = Added(level, f) /\ file_to_compact' = None
    /\ imm' = {} /\ next_file' = next_file + 1
    /\ UNCHANGED <<history, mem, comp, snapshots>>

\* The steps that change neither entries nor levels: a file is chosen by seeks, work
\* of the background thread fails, or nothing happens.
Asks ==
    /\ SeeksOK(file_to_compact', files)
    /\ comp' = comp \/ comp' = None
    /\ UNCHANGED <<history, mem, imm, files, next_file, snapshots>>

\* CompactMemTable is a flush to a level down to which nothing overlaps, or fails.
LEMMA FlushStep ==
  ASSUME Typed, LevelsDisjoint, CompactMemTable
  PROVE  (\E level, f : Flushes(level, f)) \/ Asks
  <1>0. CASE RecordBackgroundError /\ UNCHANGED imm
    BY <1>0 DEF CompactMemTable, RecordBackgroundError, Asks, Typed
  <1> SUFFICES ASSUME ~(RecordBackgroundError /\ UNCHANGED imm)
               PROVE  \E level, f : Flushes(level, f)
    BY <1>0
  <1> DEFINE f == [number |-> next_file, entries |-> imm]
             lo == smallest(f)[1]
             hi == largest(f)[1]
             level == PickLevelForMemTableOutput(lo, hi)
  <1>1. f \in Tables /\ f.number = next_file /\ f.entries = imm
    <2>1. KeySet(imm)
      BY WrittenTables DEF Typed, CompactMemTable
    <2>2. imm \in SUBSET InternalKeys
      BY <2>1 DEF KeySet
    <2> QED
      BY <2>1, <2>2 DEF Tables, Typed
  <1>2. LogAndApply({}, {<<level, f>>})
    BY DEF CompactMemTable
  <1>3. /\ imm' = {} /\ next_file' = next_file + 1
        /\ UNCHANGED <<history, mem, comp, snapshots>>
    BY DEF CompactMemTable
  <1> HIDE DEF f
  <1>4. lo \in Nat /\ hi \in Nat
    BY <1>1, TableKeys
  <1> HIDE DEF lo, hi
  <1>5. /\ level \in 0..kMaxMemCompactLevel
        /\ level # 0 => \A l \in 0..level : ~OverlapInLevel(l, lo, hi)
    BY <1>4, PickLevel
  <1> HIDE DEF level
  <1>6. level \in Levels /\ \A l \in 0..level : l \in Levels
    BY <1>5, AboutLevels, LsmAssumption DEF LevelFacts
  <1>7. ASSUME level # 0, NEW l \in 0..level, NEW g \in files[l]
        PROVE  AfterFile(lo, g) \/ BeforeFile(hi, g)
    <2>1. l \in Levels /\ ~OverlapInLevel(l, lo, hi)
      BY <1>5, <1>6, <1>7
    <2>2. FilesTyped /\ WithinMaxSeq /\ (l # 0 => Disjoint(files[l]))
      BY <2>1, TypedFiles, DisjointLevels
    <2>3. ~(lo <= largest(g)[1] /\ smallest(g)[1] <= hi)
      BY <2>1, <2>2, <1>4, OverlapDecided
    <2>4. largest(g)[1] \in Nat /\ smallest(g)[1] \in Nat
      <3>1. g \in Tables
        BY <2>1, TypedFiles
      <3> QED
        BY <3>1, TableKeys
    <2> QED
      BY <2>3, <2>4, <1>4 DEF AfterFile, BeforeFile
  <1>8. files' = Added(level, f) /\ file_to_compact' = None
    BY <1>2, ApplyAdded
  <1>9. Flushes(level, f)
    BY <1>1, <1>3, <1>6, <1>7, <1>8 DEF Flushes, lo, hi
  <1> QED
    BY <1>9

\* The start of a compaction: its one input moves down, or it keeps the inputs
\* it has chosen.
Starts(c) ==
    /\ Chosen(c) /\ Connected(c.in0 \cup c.in1)
    /\ comp = None /\ imm = {}
    /\ \/ /\ c.in1 = {} /\ (\E f : c.in0 = {f})
          /\ files' = Replaced(c, c.in0) /\ file_to_compact' = None /\ comp' = comp
       \/ /\ comp' = CompactionState(c)
          /\ UNCHANGED <<files, file_to_compact>>
    /\ UNCHANGED <<history, mem, imm, next_file, snapshots>>

\* What BackgroundCompaction starts is a compaction of chosen inputs.
LEMMA StartStep ==
  ASSUME Typed, StartCompaction
  PROVE  (\E c : Starts(c)) \/ Asks
  <1>1. FilesTyped /\ Numbered
    BY TypedFiles
  <1>2. PICK c \in {PickCompaction(v[1], v[2]) : v \in Picked} :
           \/ /\ IsTrivialMove(c)
              /\ \/ /\ LogAndApply({<<c.level, f>> : f \in c.in0},
                                   {<<c.level + 1, f>> : f \in c.in0})
                    /\ UNCHANGED <<next_file, bg_error>>
                 \/ RecordBackgroundError
              /\ UNCHANGED comp
           \/ /\ ~IsTrivialMove(c)
              /\ comp' = CompactionState(c)
              /\ UNCHANGED <<files, file_to_compact, next_file, bg_error>>
    BY DEF StartCompaction
  <1>3. /\ comp = None /\ imm = {} /\ NeedsCompaction
        /\ UNCHANGED <<history, mem, imm, snapshots>>
    BY DEF StartCompaction
  <1>9. PICK v \in Picked : c = PickCompaction(v[1], v[2])
    BY <1>2
  <1>4. Chosen(c) /\ Connected(c.in0 \cup c.in1)
    <2>1. \E level \in 0..(kNumLevels - 2) : \E f \in files[level] : v = <<level, f>>
      BY <1>1, <1>3, PickedFacts DEF Typed, SeeksOK
    <2>2. PICK level \in 0..(kNumLevels - 2) : \E f \in files[level] : v = <<level, f>>
      BY <2>1
    <2>3. PICK f \in files[level] : v = <<level, f>>
      BY <2>2
    <2>4. c = PickCompaction(level, f)
      BY <2>3, <1>9
    <2> QED
      BY <2>4, <1>1, PickChosen
  <1>5. CASE /\ IsTrivialMove(c)
             /\ LogAndApply({<<c.level, f>> : f \in c.in0},
                            {<<c.level + 1, f>> : f \in c.in0})
             /\ UNCHANGED <<comp, next_file>>
    <2>1. c.level \in Nat /\ c.in1 = {} /\ Cardinality(c.in0) = 1
      BY <1>4, <1>5, AboutLevels DEF Chosen, IsTrivialMove, LevelFacts
    <2>2. \E f : c.in0 = {f}
      <3>1. IsFiniteSet(c.in0)
        <4>1. c.level \in Levels /\ c.in0 \in SUBSET files[c.level]
          BY <1>4, AboutLevels DEF Chosen, LevelFacts
        <4> QED
          BY <4>1, <1>1, FS_Subset DEF FilesTyped
      <3> QED
        BY <2>1, <3>1, FS_Singleton
    <2>3. {<<c.level, f>> : f \in c.in0} =
             {<<c.level, f>> : f \in c.in0} \cup {<<c.level + 1, f>> : f \in c.in1}
      BY <2>1
    <2>4. files' = Replaced(c, c.in0) /\ file_to_compact' = None
      BY <2>1, <2>3, <1>5, ApplyReplaced
    <2>5. Starts(c)
      BY <2>1, <2>2, <2>4, <1>3, <1>4, <1>5 DEF Starts
    <2> QED
      BY <2>5
  <1>6. CASE comp' = CompactionState(c) /\ UNCHANGED <<files, file_to_compact, next_file>>
    <2>1. Starts(c)
      BY <1>3, <1>4, <1>6 DEF Starts
    <2> QED
      BY <2>1
  <1>7. CASE RecordBackgroundError /\ UNCHANGED comp
    BY <1>3, <1>7 DEF RecordBackgroundError, Asks, Typed
  <1> QED
    BY <1>2, <1>5, <1>6, <1>7

NewFiles(out) == {[number |-> next_file + i - 1, entries |-> out[i]] : i \in 1..Len(out)}

\* The end of a compaction: its outputs replace its inputs.
Installs(out) ==
    /\ comp # None /\ OutputsFit(out)
    /\ files' = Replaced(comp.c, NewFiles(out)) /\ file_to_compact' = None
    /\ next_file' = next_file + Len(out) /\ comp' = None
    /\ UNCHANGED <<history, mem, imm, snapshots>>

\* InstallCompactionResults replaces the inputs by the outputs.
LEMMA InstallStep ==
  ASSUME Typed, InstallCompactionResults
  PROVE  \E out : Installs(out)
  <1>1. comp # None
    BY DEF InstallCompactionResults
  <1>2. OutputsFit(Outputs)
    BY <1>1, TypedInputs, OutputsAreCut
  <1>3. PICK out : out = Outputs
    OBVIOUS
  <1>4. /\ next_file' = next_file + Len(out) /\ comp' = None
        /\ LogAndApply(AddInputDeletions(comp.c), {<<comp.c.level + 1, f>> : f \in NewFiles(out)})
        /\ UNCHANGED <<history, mem, imm, snapshots>>
    BY <1>3 DEF InstallCompactionResults, NewFiles
  <1>5. comp.c.level \in Nat
    BY <1>1, TypedInputs, AboutLevels
  <1>6. files' = Replaced(comp.c, NewFiles(out)) /\ file_to_compact' = None
    <2>1. AddInputDeletions(comp.c) = {<<comp.c.level, f>> : f \in comp.c.in0}
                                         \cup {<<comp.c.level + 1, f>> : f \in comp.c.in1}
      BY DEF AddInputDeletions
    <2> QED
      BY <2>1, <1>4, <1>5, ApplyReplaced
  <1>8. Installs(out)
    BY <1>1, <1>2, <1>3, <1>4, <1>6 DEF Installs
  <1> QED
    BY <1>8

\* The steps of the system, by what they do to entries and levels.
LEMMA Steps ==
  ASSUME Typed, LevelsDisjoint, [Next]_vars
  PROVE  \/ \E k \in Keys, type \in Types : Write(k, type)
         \/ GetSnapshot \/ \E i \in DOMAIN snapshots : ReleaseSnapshot(i)
         \/ SwitchMemTable
         \/ \E level, f : Flushes(level, f)
         \/ \E c : Starts(c)
         \/ \E out : Installs(out)
         \/ Asks
  <1>1. CASE UNCHANGED vars
    BY <1>1 DEF vars, Asks, Typed
  <1>2. CASE \E k \in Keys : UpdateStats(k)
    <2>1. PICK k \in Keys : UpdateStats(k)
      BY <1>2
    <2>2. /\ Cardinality(ForEachOverlapping(k, LastSequence)) >= 2
          /\ file_to_compact' = FirstVisited(ForEachOverlapping(k, LastSequence))
          /\ UNCHANGED <<history, mem, imm, files, next_file, comp, snapshots>>
      BY <2>1 DEF UpdateStats
    <2>3. k \in Nat /\ LastSequence \in Nat
      BY LsmAssumption DEF Typed, LastSequence
    <2>4. \E level \in 0..(kNumLevels - 2) : \E f \in files[level] : file_to_compact' = <<level, f>>
      BY <2>2, <2>3, TypedFiles, DisjointLevels, ChosenBySeeks
    <2> QED
      BY <2>2, <2>4 DEF Asks, SeeksOK, Typed
  <1>4. CASE Background
    <2>1. CASE CompactMemTable
      BY <2>1, FlushStep
    <2>2. CASE StartCompaction
      BY <2>2, StartStep
    <2>3. CASE InstallCompactionResults
      BY <2>3, InstallStep
    <2>4. CASE CleanupCompaction
      BY <2>4 DEF CleanupCompaction, RecordBackgroundError, Asks, Typed
    <2> QED
      BY <1>4, <2>1, <2>2, <2>3, <2>4 DEF Background
  <1> QED
    BY <1>1, <1>2, <1>4 DEF Next

\* What the new files of a compaction are.
LEMMA NewFilesFacts ==
  ASSUME Typed, NEW out, Installs(out)
  PROVE  /\ Len(out) \in Nat
         /\ IsFiniteSet(NewFiles(out))
         /\ \A f \in NewFiles(out) :
              /\ f \in Tables /\ f.entries \in SUBSET Inputs /\ f.entries \subseteq Kept
              /\ next_file <= f.number /\ f.number < next_file + Len(out)
         /\ \A f, g \in NewFiles(out) : f.number = g.number => f = g
         /\ \A f, g \in NewFiles(out) :
              \/ f = g
              \/ \A a \in f.entries, b \in g.entries : Less(a, b)
              \/ \A a \in f.entries, b \in g.entries : Less(b, a)
         /\ \A x \in Kept : \E f \in NewFiles(out) : x \in f.entries
  <1>1. /\ OutputsFit(out) /\ KeySet(Inputs) /\ Inputs \in SUBSET Written /\ next_file \in Nat
    BY TypedInputs DEF Installs, Typed
  <1>2. /\ out \in Seq(SUBSET Inputs) /\ Len(out) \in Nat
        /\ \A i \in 1..Len(out) : out[i] # {} /\ out[i] \in SUBSET Inputs
        /\ \A i, j \in 1..Len(out) : i < j => \A a \in out[i], b \in out[j] : Less(a, b)
        /\ \A x : x \in Kept <=> \E i \in 1..Len(out) : x \in out[i]
    BY <1>1 DEF OutputsFit
  <1>f. IsFiniteSet(1..Len(out))
    <2>1. 1 \in Int /\ Len(out) \in Int
      BY <1>2
    <2> QED
      BY <2>1, FS_Interval
  <1> DEFINE nf == [i \in 1..Len(out) |-> [number |-> next_file + i - 1, entries |-> out[i]]]
  <1>3. \A i \in 1..Len(out) : /\ nf[i].number = next_file + i - 1 /\ nf[i].entries = out[i]
                               /\ nf[i] \in Tables
    <2> TAKE i \in 1..Len(out)
    <2>1. KeySet(out[i])
      BY <1>1, <1>2, WrittenTables DEF Typed
    <2>2. next_file + i - 1 \in Nat /\ out[i] \in SUBSET InternalKeys
      BY <1>1, <1>2, <2>1 DEF KeySet
    <2> QED
      BY <2>1, <2>2 DEF Tables
  <1>4. NewFiles(out) = {nf[i] : i \in 1..Len(out)}
    BY DEF NewFiles
  <1>5. IsFiniteSet(NewFiles(out))
    <2> DEFINE D == 1..Len(out)
    <2>1. IsFiniteSet(D)
      BY <1>f
    <2>2. nf \in Surjection(D, NewFiles(out))
      BY <1>4 DEF Surjection
    <2> HIDE DEF D, nf
    <2> QED
      BY <2>1, <2>2, FS_Surjection
  <1> HIDE DEF nf
  <1>6. ASSUME NEW f \in NewFiles(out)
        PROVE  /\ f \in Tables /\ f.entries \in SUBSET Inputs /\ f.entries \subseteq Kept
               /\ next_file <= f.number /\ f.number < next_file + Len(out)
    <2>1. PICK i \in 1..Len(out) : f = nf[i]
      BY <1>4
    <2> QED
      BY <2>1, <1>1, <1>2, <1>3
  <1>7. ASSUME NEW f \in NewFiles(out), NEW g \in NewFiles(out)
        PROVE  /\ f.number = g.number => f = g
               /\ \/ f = g
                  \/ \A a \in f.entries, b \in g.entries : Less(a, b)
                  \/ \A a \in f.entries, b \in g.entries : Less(b, a)
    <2>1. PICK i \in 1..Len(out) : f = nf[i]
      BY <1>4
    <2>2. PICK j \in 1..Len(out) : g = nf[j]
      BY <1>4
    <2>3. f.entries = out[i] /\ g.entries = out[j] /\ (f.number = g.number => i = j)
      BY <2>1, <2>2, <1>1, <1>3
    <2>4. i = j \/ i < j \/ j < i
      OBVIOUS
    <2> QED
      BY <2>1, <2>2, <2>3, <2>4, <1>2
  <1>8. ASSUME NEW x \in Kept PROVE \E f \in NewFiles(out) : x \in f.entries
    <2>1. PICK i \in 1..Len(out) : x \in out[i]
      BY <1>2
    <2> QED
      BY <2>1, <1>3, <1>4
  <1> QED
    BY <1>2, <1>5, <1>6, <1>7, <1>8

\* A flush adds a file with a number of its own.
LEMMA AddedOK ==
  ASSUME Typed, NEW level, NEW f, Flushes(level, f)
  PROVE  FilesOK(Added(level, f), Written, next_file + 1)
  <1>1. /\ level \in Levels /\ f \in Tables /\ f.number = next_file /\ f.entries \in SUBSET Written
        /\ next_file \in Nat
    BY DEF Flushes, Typed
  <1> DEFINE fs == Added(level, f)
  <1>2. /\ FilesTyped /\ Numbered
        /\ \A l \in Levels : \A g \in files[l] :
              g \in Tables /\ g.entries \in SUBSET Written /\ g.number < next_file /\ g.number \in Nat
    BY TypedFiles, TableKeys
  <1>3. \A l \in Levels : fs[l] = IF l = level THEN files[l] \cup {f} ELSE files[l]
    BY DEF Added
  <1>4. \A l \in Levels : fs[l] \in SUBSET Tables /\ IsFiniteSet(fs[l])
    <2> TAKE l \in Levels
    <2>1. files[l] \in SUBSET Tables /\ IsFiniteSet(files[l]) /\ IsFiniteSet(files[l] \cup {f})
      BY <1>2, FS_AddElement DEF FilesTyped
    <2> QED
      BY <2>1, <1>1, <1>3
  <1>5. fs \in [Levels -> SUBSET Tables]
    <2>1. fs = [l \in Levels |-> fs[l]]
      BY DEF Added
    <2> HIDE DEF fs
    <2> QED
      BY <2>1, <1>4
  <1> HIDE DEF fs
  <1>6. ASSUME NEW l \in Levels, NEW g \in fs[l]
        PROVE  g.entries \subseteq Written /\ g.number < next_file + 1
    <2>1. CASE g \in files[l]
      BY <2>1, <1>1, <1>2
    <2>2. CASE g = f
      BY <2>2, <1>1
    <2> QED
      BY <2>1, <2>2, <1>3
  <1>7. ASSUME NEW a \in Levels, NEW b \in Levels, NEW g \in fs[a], NEW h \in fs[b],
               g.number = h.number
        PROVE  g = h /\ a = b
    <2>1. g \in files[a] \/ (g = f /\ a = level)
      BY <1>3
    <2>2. h \in files[b] \/ (h = f /\ b = level)
      BY <1>3
    <2> QED
      BY <2>1, <2>2, <1>1, <1>2, <1>7 DEF Numbered
  <1>8. FilesOK(fs, Written, next_file + 1)
    BY <1>4, <1>5, <1>6, <1>7 DEF FilesOK
  <1> QED
    BY <1>8 DEF fs

\* A compaction's outputs have numbers of their own.
LEMMA ReplacedOK ==
  ASSUME Typed, NEW c, c.level \in 0..(kNumLevels - 2), c.in0 \in SUBSET files[c.level],
         NEW new \in SUBSET Tables, IsFiniteSet(new), NEW next \in Nat, next_file <= next,
         \A f \in new : /\ f.entries \in SUBSET Written /\ f.number < next
                        /\ f \in c.in0 \/ next_file <= f.number,
         \A f, g \in new : f.number = g.number => f = g
  PROVE  FilesOK(Replaced(c, new), Written, next)
  <1> DEFINE fs == Replaced(c, new)
  <1>1. c.level \in Levels /\ c.level + 1 \in Levels /\ c.level # c.level + 1 /\ next_file \in Nat
    BY AboutLevels DEF LevelFacts, Typed
  <1>2. /\ FilesTyped /\ Numbered
        /\ \A l \in Levels : \A g \in files[l] :
              g \in Tables /\ g.entries \in SUBSET Written /\ g.number < next_file /\ g.number \in Nat
    BY TypedFiles, TableKeys
  <1>3. \A l \in Levels : fs[l] = IF l = c.level THEN files[l] \ c.in0
                                  ELSE IF l = c.level + 1 THEN (files[l] \ c.in1) \cup new
                                  ELSE files[l]
    BY DEF Replaced
  <1>4. \A l \in Levels : fs[l] \in SUBSET Tables /\ IsFiniteSet(fs[l])
    <2> TAKE l \in Levels
    <2>1. files[l] \in SUBSET Tables /\ IsFiniteSet(files[l])
      BY <1>2 DEF FilesTyped
    <2>2. IsFiniteSet(files[l] \ c.in0) /\ IsFiniteSet(files[l] \ c.in1)
      BY <2>1, FS_Difference
    <2>3. IsFiniteSet((files[l] \ c.in1) \cup new)
      BY <2>2, FS_Union
    <2> QED
      BY <2>1, <2>2, <2>3, <1>3
  <1>5. fs \in [Levels -> SUBSET Tables]
    <2>1. fs = [l \in Levels |-> fs[l]]
      BY DEF Replaced
    <2> HIDE DEF fs
    <2> QED
      BY <2>1, <1>4
  <1> HIDE DEF fs
  <1>6. ASSUME NEW l \in Levels, NEW g \in fs[l]
        PROVE  g.entries \subseteq Written /\ g.number < next
    <2>1. g \in files[l] \/ g \in new
      BY <1>3
    <2> QED
      BY <2>1, <1>1, <1>2
  <1>7. ASSUME NEW a \in Levels, NEW b \in Levels, NEW g \in fs[a], NEW h \in fs[b],
               g.number = h.number
        PROVE  g = h /\ a = b
    <2>1. \/ g \in files[a] /\ ~(a = c.level /\ g \in c.in0)
          \/ g \in new /\ a = c.level + 1
      BY <1>1, <1>3
    <2>2. \/ h \in files[b] /\ ~(b = c.level /\ h \in c.in0)
          \/ h \in new /\ b = c.level + 1
      BY <1>1, <1>3
    <2>3. CASE g \in files[a] /\ h \in files[b]
      BY <2>3, <1>2, <1>7 DEF Numbered
    <2>4. CASE g \in files[a] /\ ~(a = c.level /\ g \in c.in0) /\ h \in new
      <3>1. h \in c.in0
        BY <2>4, <1>1, <1>2, <1>7
      <3>2. h \in files[c.level]
        BY <3>1
      <3>3. g = h /\ a = c.level
        BY <3>2, <2>4, <1>1, <1>2, <1>7 DEF Numbered
      <3> QED
        BY <3>1, <3>3, <2>4
    <2>5. CASE h \in files[b] /\ ~(b = c.level /\ h \in c.in0) /\ g \in new
      <3>1. g \in c.in0
        BY <2>5, <1>1, <1>2, <1>7
      <3>2. g \in files[c.level]
        BY <3>1
      <3>3. g = h /\ b = c.level
        BY <3>2, <2>5, <1>1, <1>2, <1>7 DEF Numbered
      <3> QED
        BY <3>1, <3>3, <2>5
    <2>6. CASE g \in new /\ a = c.level + 1 /\ h \in new /\ b = c.level + 1
      BY <2>6, <1>7
    <2> QED
      BY <2>1, <2>2, <2>3, <2>4, <2>5, <2>6
  <1>8. FilesOK(fs, Written, next)
    BY <1>4, <1>5, <1>6, <1>7 DEF FilesOK
  <1> QED
    BY <1>8 DEF fs

\* An empty database is well formed.
LEMMA InitTyped == Init => Typed
  <1> SUFFICES ASSUME Init PROVE Typed
    OBVIOUS
  <1>1. /\ history = <<>> /\ mem = {} /\ imm = {} /\ next_file = 1
        /\ files = [level \in Levels |-> {}]
        /\ file_to_compact = None /\ comp = None
    BY DEF Init
  <1>2. history \in Seq(Keys \X Types) /\ Len(history) <= MaxSeq
    BY <1>1, LsmAssumption
  <1>3. FilesOK(files, Written, next_file)
    <2>1. \A level \in Levels : files[level] = {} /\ IsFiniteSet(files[level])
      BY <1>1, FS_EmptySet
    <2>2. files \in [Levels -> SUBSET Tables]
      BY <1>1
    <2> QED
      BY <2>1, <2>2 DEF FilesOK
  <1> QED
    BY <1>1, <1>2, <1>3 DEF Typed, SeeksOK, CompOK

\* A flush leaves the files that are read by a compaction where they are.
LEMMA TypedFlush ==
  ASSUME Typed, NEW level, NEW f, Flushes(level, f)
  PROVE  Typed'
  <1>1. /\ files' = Added(level, f) /\ file_to_compact' = None
        /\ imm' = {} /\ next_file' = next_file + 1
        /\ UNCHANGED <<history, mem, comp, snapshots>>
    BY DEF Flushes
  <1>2. FilesOK(files', Written, next_file')
    BY <1>1, AddedOK
  <1>3. CompOK(comp, files')
    <2> SUFFICES ASSUME comp # None PROVE CompOK(comp, files')
      BY DEF CompOK
    <2>1. comp.c.level \in Levels /\ comp.c.level + 1 \in Levels
      BY TypedInputs
    <2>2. \A l \in Levels : files[l] \subseteq files'[l]
      BY <1>1 DEF Added
    <2> QED
      BY <2>1, <2>2 DEF Typed, CompOK
  <1> QED
    BY <1>1, <1>2, <1>3 DEF Typed, Written, SeeksOK

\* The start of a compaction keeps the state well formed.
LEMMA TypedStart ==
  ASSUME Typed, NEW c, Starts(c)
  PROVE  Typed'
  <1>1. /\ Chosen(c) /\ comp = None /\ imm = {}
        /\ UNCHANGED <<history, mem, imm, next_file, snapshots>>
    BY DEF Starts
  <1>2. /\ c.level \in 0..(kNumLevels - 2) /\ c.in0 \in SUBSET files[c.level] /\ c.in0 # {}
        /\ c.in1 \in SUBSET files[c.level + 1]
    BY <1>1 DEF Chosen
  <1>3. CASE /\ c.in1 = {} /\ (\E f : c.in0 = {f})
             /\ files' = Replaced(c, c.in0) /\ file_to_compact' = None /\ comp' = comp
    <2>1. c.level \in Levels
      BY <1>2, AboutLevels DEF LevelFacts
    <2>2. /\ c.in0 \in SUBSET Tables /\ IsFiniteSet(c.in0)
          /\ \A f \in c.in0 : f.entries \in SUBSET Written /\ f.number < next_file
          /\ \A f, g \in c.in0 : f.number = g.number => f = g
      <3>1. IsFiniteSet(c.in0)
        BY <1>2, <2>1, TypedFiles, FS_Subset DEF FilesTyped
      <3> QED
        BY <3>1, <1>2, <2>1, TypedFiles DEF Numbered
    <2>3. next_file \in Nat /\ next_file <= next_file
      BY DEF Typed
    <2>4. FilesOK(Replaced(c, c.in0), Written, next_file)
      BY <1>2, <2>2, <2>3, ReplacedOK
    <2> QED
      BY <1>1, <1>3, <2>4 DEF Typed, Written, SeeksOK, CompOK
  <1>4. CASE comp' = CompactionState(c) /\ UNCHANGED <<files, file_to_compact>>
    <2>1. comp'.c = c
      BY <1>4 DEF CompactionState
    <2>2. CompOK(comp', files)
      BY <1>2, <2>1 DEF CompOK
    <2> QED
      BY <1>1, <1>4, <2>2 DEF Typed, Written
  <1> QED
    BY <1>3, <1>4 DEF Starts

\* The end of a compaction keeps the state well formed.
LEMMA TypedInstall ==
  ASSUME Typed, NEW out, Installs(out)
  PROVE  Typed'
  <1>1. /\ comp # None
        /\ files' = Replaced(comp.c, NewFiles(out)) /\ file_to_compact' = None
        /\ next_file' = next_file + Len(out) /\ comp' = None
        /\ UNCHANGED <<history, mem, imm, snapshots>>
    BY DEF Installs
  <1>2. /\ comp.c.level \in 0..(kNumLevels - 2) /\ comp.c.in0 \in SUBSET files[comp.c.level]
    BY <1>1 DEF Typed, CompOK
  <1>3. Inputs \in SUBSET Written /\ next_file \in Nat
    BY <1>1, TypedInputs DEF Typed
  <1>4. PICK c : c = comp.c
    OBVIOUS
  <1>5. PICK new : new = NewFiles(out)
    OBVIOUS
  <1>6. /\ new \in SUBSET Tables /\ IsFiniteSet(new)
        /\ \A f \in new : /\ f.entries \in SUBSET Inputs
                          /\ next_file <= f.number /\ f.number < next_file + Len(out)
        /\ \A f, g \in new : f.number = g.number => f = g
        /\ Len(out) \in Nat
    BY <1>5, NewFilesFacts
  <1>7. next_file' \in Nat /\ next_file <= next_file'
    BY <1>1, <1>3, <1>6
  <1>8. FilesOK(Replaced(c, new), Written, next_file')
    <2>1. \A f \in new : /\ f.entries \in SUBSET Written /\ f.number < next_file'
                         /\ f \in c.in0 \/ next_file <= f.number
      BY <1>1, <1>3, <1>6
    <2> QED
      BY <1>2, <1>4, <1>6, <1>7, <2>1, ReplacedOK
  <1> QED
    BY <1>1, <1>4, <1>5, <1>7, <1>8 DEF Typed, Written, SeeksOK, CompOK

\* A write adds the entry with the next sequence number.
LEMMA TypedWrite ==
  ASSUME Typed, NEW k \in Keys, NEW type \in Types, Write(k, type)
  PROVE  /\ Typed' /\ Written' = Written \cup {<<k, Len(history) + 1, type>>}
         /\ Len(history') = Len(history) + 1
  <1>1. /\ Len(history) < MaxSeq /\ history' = Append(history, <<k, type>>)
        /\ mem' = mem \cup {<<k, Len(history) + 1, type>>}
        /\ UNCHANGED <<imm, files, next_file, file_to_compact, comp, snapshots>>
    BY DEF Write, LastSequence
  <1>2. history \in Seq(Keys \X Types) /\ Len(history) \in Nat /\ MaxSeq \in Nat
    BY LsmAssumption DEF Typed
  <1> DEFINE n == Len(history)
  <1>3. /\ history' \in Seq(Keys \X Types) /\ Len(history') = n + 1
        /\ \A i \in 1..n : history'[i] = history[i]
        /\ history'[n + 1] = <<k, type>>
    BY <1>1, <1>2
  <1>4. Len(history') <= MaxSeq
    BY <1>1, <1>2, <1>3
  <1>5. Written' = Written \cup {<<k, n + 1, type>>}
    <2> HIDE DEF n
    <2>1. Written' = {<<history'[i][1], i, history'[i][2]>> : i \in 1..(n + 1)}
      BY <1>3 DEF Written
    <2>2. Written = {<<history[i][1], i, history[i][2]>> : i \in 1..n}
      BY DEF Written, n
    <2>3. \A i : i \in 1..(n + 1) <=> i \in 1..n \/ i = n + 1
      BY <1>2 DEF n
    <2> QED
      BY <2>1, <2>2, <2>3, <1>3
  <1> HIDE DEF n
  <1>6. FilesOK(files', Written', next_file')
    BY <1>1, <1>5 DEF Typed, FilesOK
  <1>7. mem' \in SUBSET Written' /\ imm' \in SUBSET Written'
    BY <1>1, <1>5 DEF Typed, n
  <1> QED
    BY <1>1, <1>3, <1>4, <1>5, <1>6, <1>7 DEF Typed, n

\* While the levels are disjoint every step keeps the state well formed.
LEMMA TypedStep ==
  ASSUME Typed, LevelsDisjoint, [Next]_vars
  PROVE  Typed'
  <1>1. CASE \E k \in Keys, type \in Types : Write(k, type)
    BY <1>1, TypedWrite
  <1>2. CASE GetSnapshot
    BY <1>2 DEF GetSnapshot, Typed, Written
  <1>3. CASE \E i \in DOMAIN snapshots : ReleaseSnapshot(i)
    BY <1>3 DEF ReleaseSnapshot, Typed, Written
  <1>4. CASE SwitchMemTable
    <2>1. /\ imm' = mem /\ mem' = {}
          /\ UNCHANGED <<history, files, next_file, file_to_compact, comp>>
      BY <1>4 DEF SwitchMemTable
    <2> QED
      BY <2>1 DEF Typed, Written
  <1>5. CASE \E level, f : Flushes(level, f)
    BY <1>5, TypedFlush
  <1>6. CASE \E c : Starts(c)
    BY <1>6, TypedStart
  <1>7. CASE \E out : Installs(out)
    BY <1>7, TypedInstall
  <1>8. CASE Asks
    <2>1. /\ SeeksOK(file_to_compact', files) /\ (comp' = comp \/ comp' = None)
          /\ UNCHANGED <<history, mem, imm, files, next_file, snapshots>>
      BY <1>8 DEF Asks
    <2>2. CompOK(comp', files)
      BY <2>1 DEF Typed, CompOK
    <2> QED
      BY <2>1, <2>2 DEF Typed, Written
  <1> QED
    BY <1>1, <1>2, <1>3, <1>4, <1>5, <1>6, <1>7, <1>8, Steps

-----------------------------------------------------------------------------
(* The files of a level do not overlap.                                    *)

Beside(f, S) ==
    \/ \A g \in S : Less(largest(f), smallest(g))
    \/ \A g \in S : Less(largest(g), smallest(f))

\* What else lies on the level a compaction writes to lies on one side of
\* everything the compaction reads, and will also when more is flushed there.
CompApart(state, fs) ==
    state # None =>
       /\ Connected(state.c.in0 \cup state.c.in1)
       /\ \A f \in fs[state.c.level + 1] \ state.c.in1 :
             Beside(f, state.c.in0 \cup state.c.in1)

DisjointInv == Typed /\ LevelsDisjoint /\ CompApart(comp, files)

\* Ranges of user keys that do not touch are ranges of internal keys that do not.
LEMMA KeysApart ==
  ASSUME NEW f \in Tables, NEW g \in Tables
  PROVE  /\ AfterFile(smallest(f)[1], g) => Less(largest(g), smallest(f))
         /\ BeforeFile(largest(f)[1], g) => Less(largest(f), smallest(g))
  <1>1. /\ smallest(f) \in InternalKeys /\ largest(f) \in InternalKeys
        /\ smallest(g) \in InternalKeys /\ largest(g) \in InternalKeys
        /\ smallest(f)[1] \in Nat /\ largest(f)[1] \in Nat
        /\ smallest(g)[1] \in Nat /\ largest(g)[1] \in Nat
    BY TableKeys
  <1> QED
    BY <1>1, LessOrders DEF AfterFile, BeforeFile

\* A file that a compaction leaves on the output level lies beside its inputs.
LEMMA ChosenBeside ==
  ASSUME Typed, LevelsDisjoint, NEW c, Chosen(c),
         NEW f \in files[c.level + 1], f \notin c.in1
  PROVE  Beside(f, c.in0 \cup c.in1)
  <1>1. /\ c.level \in Levels /\ c.level + 1 \in Levels /\ c.level + 1 # 0
        /\ c.in0 \in SUBSET files[c.level] /\ c.in0 # {} /\ c.in1 \in SUBSET files[c.level + 1]
        /\ \A g \in files[c.level + 1] : Overlaps(g, c.in0) <=> g \in c.in1
    BY AboutLevels DEF Chosen, LevelFacts
  <1>2. f \in Tables /\ c.in0 \in SUBSET Tables /\ c.in1 \in SUBSET Tables
    BY <1>1, TypedFiles
  <1>3. \A g \in Tables : /\ smallest(g) \in InternalKeys /\ largest(g) \in InternalKeys
                          /\ smallest(g)[1] \in Nat /\ largest(g)[1] \in Nat
                          /\ smallest(g)[1] <= largest(g)[1]
    BY TableKeys
  <1>4. \/ \A a \in c.in0 : largest(f)[1] < smallest(a)[1]
        \/ \A b \in c.in0 : largest(b)[1] < smallest(f)[1]
    <2>1. ~Overlaps(f, c.in0)
      BY <1>1
    <2> QED
      BY <2>1, <1>2, <1>3 DEF Overlaps
  <1>5. \A g \in c.in1 : /\ g \in Tables
                         /\ Less(largest(f), smallest(g)) \/ Less(largest(g), smallest(f))
                         /\ \E a, b \in c.in0 : /\ smallest(a)[1] <= largest(g)[1]
                                                /\ smallest(g)[1] <= largest(b)[1]
    <2> TAKE g \in c.in1
    <2>1. g \in files[c.level + 1] /\ f # g
      BY <1>1
    <2>2. Less(largest(f), smallest(g)) \/ Less(largest(g), smallest(f))
      BY <1>1, <2>1 DEF LevelsDisjoint
    <2> QED
      BY <1>1, <1>2, <2>1, <2>2 DEF Overlaps
  <1>6. CASE \A a \in c.in0 : largest(f)[1] < smallest(a)[1]
    <2>1. \A a \in c.in0 : Less(largest(f), smallest(a))
      BY <1>2, <1>3, <1>6, LessOrders
    <2>2. ASSUME NEW g \in c.in1 PROVE Less(largest(f), smallest(g))
      <3> SUFFICES ASSUME Less(largest(g), smallest(f)) PROVE FALSE
        BY <1>5
      <3>1. PICK a \in c.in0 : smallest(a)[1] <= largest(g)[1]
        BY <1>5
      <3>2. largest(g)[1] <= smallest(f)[1]
        BY <1>2, <1>3, <1>5, LessOrders
      <3>3. a \in Tables /\ g \in Tables
        BY <1>2
      <3> QED
        BY <3>1, <3>2, <3>3, <1>2, <1>3, <1>6
    <2> QED
      BY <2>1, <2>2 DEF Beside
  <1>7. CASE \A b \in c.in0 : largest(b)[1] < smallest(f)[1]
    <2>1. \A b \in c.in0 : Less(largest(b), smallest(f))
      BY <1>2, <1>3, <1>7, LessOrders
    <2>2. ASSUME NEW g \in c.in1 PROVE Less(largest(g), smallest(f))
      <3> SUFFICES ASSUME Less(largest(f), smallest(g)) PROVE FALSE
        BY <1>5
      <3>1. PICK b \in c.in0 : smallest(g)[1] <= largest(b)[1]
        BY <1>5
      <3>2. largest(f)[1] <= smallest(g)[1]
        BY <1>2, <1>3, <1>5, LessOrders
      <3>3. b \in Tables /\ g \in Tables
        BY <1>2
      <3> QED
        BY <3>1, <3>2, <3>3, <1>2, <1>3, <1>7
    <2> QED
      BY <2>1, <2>2 DEF Beside
  <1> QED
    BY <1>4, <1>6, <1>7

\* A flush keeps the levels disjoint, also below a compaction under way.
LEMMA DisjointFlush ==
  ASSUME DisjointInv, NEW level, NEW f, Flushes(level, f)
  PROVE  LevelsDisjoint' /\ CompApart(comp', files')
  <1>1. /\ level \in Levels /\ f \in Tables
        /\ level # 0 =>
              \A l \in 0..level : \A g \in files[l] :
                 AfterFile(smallest(f)[1], g) \/ BeforeFile(largest(f)[1], g)
        /\ files' = Added(level, f) /\ comp' = comp
    BY DEF Flushes
  <1>2. /\ \A l \in Levels : files'[l] = IF l = level THEN files[l] \cup {f} ELSE files[l]
        /\ \A l \in Levels : files[l] \in SUBSET Tables
        /\ \A l \in Levels \ {0} : Disjoint(files[l])
    BY <1>1, TypedFiles, DisjointLevels DEF Added, DisjointInv
  <1>3. ASSUME level # 0, NEW l \in 0..level, NEW g \in files[l]
        PROVE  Less(largest(g), smallest(f)) \/ Less(largest(f), smallest(g))
    <2>1. l \in Levels
      BY <1>1, AboutLevels DEF LevelFacts
    <2> QED
      BY <2>1, <1>1, <1>2, <1>3, KeysApart
  <1>4. \A l \in Levels \ {0} : Disjoint(files'[l])
    <2> TAKE l \in Levels \ {0}
    <2>1. CASE l # level
      BY <2>1, <1>2
    <2>2. CASE l = level
      <3>1. l \in 0..level
        BY <2>2, <1>1, AboutLevels DEF LevelFacts
      <3>2. \A g \in files[l] : Less(largest(g), smallest(f)) \/ Less(largest(f), smallest(g))
        BY <3>1, <2>2, <1>3
      <3>3. files'[l] = files[l] \cup {f} /\ Disjoint(files[l])
        BY <1>2, <2>2
      <3> QED
        BY <3>2, <3>3 DEF Disjoint
    <2> QED
      BY <2>1, <2>2
  <1>5. LevelsDisjoint'
    BY <1>4 DEF LevelsDisjoint, Disjoint
  <1>6. CompApart(comp, files')
    <2> SUFFICES ASSUME comp # None PROVE CompApart(comp, files')
      BY DEF CompApart
    <2> DEFINE S == comp.c.in0 \cup comp.c.in1
               out == comp.c.level + 1
    <2>1. /\ Connected(S)
          /\ \A g \in files[out] \ comp.c.in1 : Beside(g, S)
      BY DEF DisjointInv, CompApart
    <2>2. /\ comp.c.level \in Levels /\ out \in Levels /\ out # 0 /\ comp.c.level \in Nat
          /\ comp.c.in0 \in SUBSET files[comp.c.level] /\ comp.c.in1 \in SUBSET files[out]
      BY TypedInputs, AboutLevels DEF DisjointInv, Typed, CompOK
    <2>3. CASE level # out
      BY <2>1, <2>2, <2>3, <1>2 DEF CompApart
    <2>4. CASE level = out
      <3>1. comp.c.level \in 0..level /\ out \in 0..level
        BY <2>2, <2>4
      <3>2. \A g \in S : g \in Tables
        BY <2>2, <1>2
      <3>3. \A g \in S : AfterFile(smallest(f)[1], g) \/ BeforeFile(largest(f)[1], g)
        BY <3>1, <2>2, <2>4, <1>1
      <3>4. /\ smallest(f)[1] \in Nat /\ largest(f)[1] \in Nat
            /\ smallest(f)[1] <= largest(f)[1]
        BY <1>1, TableKeys
      <3> HIDE DEF S
      <3>5. \/ \A g \in S : AfterFile(smallest(f)[1], g)
            \/ \A g \in S : BeforeFile(largest(f)[1], g)
        BY <3>3, <3>4, <2>1 DEF Connected
      <3>6. Beside(f, S)
        BY <3>2, <3>5, <1>1, KeysApart DEF Beside
      <3>7. \A g \in files'[out] \ comp.c.in1 : Beside(g, S)
        BY <3>6, <2>1, <2>2, <2>4, <1>2
      <3> QED
        BY <3>7, <2>1 DEF CompApart, S
    <2> QED
      BY <2>3, <2>4
  <1> QED
    BY <1>1, <1>5, <1>6

\* A compaction that starts, or a file that moves down, keeps the levels
\* disjoint.
LEMMA DisjointStart ==
  ASSUME DisjointInv, NEW c, Starts(c)
  PROVE  LevelsDisjoint' /\ CompApart(comp', files')
  <1>1. /\ Chosen(c) /\ Connected(c.in0 \cup c.in1) /\ comp = None
        /\ Typed /\ LevelsDisjoint
    BY DEF Starts, DisjointInv
  <1>2. \A f \in files[c.level + 1] \ c.in1 : Beside(f, c.in0 \cup c.in1)
    BY <1>1, ChosenBeside
  <1>3. CASE /\ c.in1 = {} /\ (\E f : c.in0 = {f})
             /\ files' = Replaced(c, c.in0) /\ file_to_compact' = None /\ comp' = comp
    <2>1. PICK f : c.in0 = {f}
      BY <1>3
    <2>2. /\ c.level \in Levels /\ c.level + 1 \in Levels /\ c.level # c.level + 1
      BY <1>1, AboutLevels DEF Chosen, LevelFacts
    <2>3. \A l \in Levels : files'[l] = IF l = c.level THEN files[l] \ {f}
                                        ELSE IF l = c.level + 1 THEN files[l] \cup {f}
                                        ELSE files[l]
      BY <1>3, <2>1 DEF Replaced
    <2>4. \A g \in files[c.level + 1] :
             Less(largest(g), smallest(f)) \/ Less(largest(f), smallest(g))
      BY <1>2, <1>3, <2>1 DEF Beside
    <2>5. ASSUME NEW l \in Levels \ {0} PROVE Disjoint(files'[l])
      <3>1. Disjoint(files[l])
        BY <1>1, DisjointLevels
      <3>2. CASE l = c.level
        BY <3>1, <3>2, <2>3 DEF Disjoint
      <3>3. CASE l = c.level + 1
        <4>1. files'[l] = files[l] \cup {f}
          BY <3>3, <2>2, <2>3
        <4> QED
          BY <4>1, <3>1, <3>3, <2>4 DEF Disjoint
      <3>4. CASE l # c.level /\ l # c.level + 1
        BY <3>1, <3>4, <2>3
      <3> QED
        BY <3>2, <3>3, <3>4
    <2>6. LevelsDisjoint'
      BY <2>5 DEF LevelsDisjoint, Disjoint
    <2> QED
      BY <2>6, <1>1, <1>3 DEF CompApart
  <1>4. CASE comp' = CompactionState(c) /\ UNCHANGED <<files, file_to_compact>>
    <2>1. comp'.c = c
      BY <1>4 DEF CompactionState
    <2>2. CompApart(comp', files)
      BY <2>1, <1>1, <1>2 DEF CompApart
    <2>3. LevelsDisjoint'
      BY <1>1, <1>4 DEF LevelsDisjoint
    <2> QED
      BY <2>2, <2>3, <1>4
  <1> QED
    BY <1>3, <1>4 DEF Starts

\* The outputs of a compaction overlap nothing on the level they go to.
LEMMA DisjointInstall ==
  ASSUME DisjointInv, NEW out, Installs(out)
  PROVE  LevelsDisjoint' /\ CompApart(comp', files')
  <1>1. /\ comp # None /\ comp' = None /\ files' = Replaced(comp.c, NewFiles(out))
        /\ Typed /\ LevelsDisjoint /\ CompApart(comp, files)
    BY DEF Installs, DisjointInv
  <1> DEFINE S == comp.c.in0 \cup comp.c.in1
             level == comp.c.level + 1
  <1>2. PICK new : new = NewFiles(out)
    OBVIOUS
  <1>3. /\ \A f \in new : f \in Tables /\ f.entries \in SUBSET Inputs
        /\ \A f, g \in new :
              \/ f = g
              \/ \A a \in f.entries, b \in g.entries : Less(a, b)
              \/ \A a \in f.entries, b \in g.entries : Less(b, a)
    BY <1>1, <1>2, NewFilesFacts
  <1>4. \A f, g \in new : f = g \/ Less(largest(f), smallest(g)) \/ Less(largest(g), smallest(f))
    BY <1>3, TableKeys
  <1>5. /\ comp.c.level \in Levels /\ level \in Levels /\ comp.c.level # level
        /\ \A f \in S : f \in Tables
    <2>1. /\ comp.c.level \in Levels /\ level \in Levels /\ \A f \in S : f \in Tables
      BY <1>1, TypedInputs
    <2>2. comp.c.level \in Nat
      BY <2>1, AboutLevels
    <2> QED
      BY <2>1, <2>2
  <1>6. ASSUME NEW f \in files[level] \ comp.c.in1, NEW g \in new
        PROVE  Less(largest(f), smallest(g)) \/ Less(largest(g), smallest(f))
    <2>1. Beside(f, S)
      BY <1>1 DEF CompApart
    <2>2. f \in Tables /\ g \in Tables
      BY <1>1, <1>3, <1>5, TypedFiles
    <2>3. /\ smallest(g) \in Inputs /\ largest(g) \in Inputs
          /\ smallest(g) \in InternalKeys /\ largest(g) \in InternalKeys
          /\ smallest(f) \in InternalKeys /\ largest(f) \in InternalKeys
      BY <2>2, <1>3, TableKeys
    <2>4. PICK a \in S : smallest(g) \in a.entries
      BY <2>3 DEF Inputs
    <2>5. PICK b \in S : largest(g) \in b.entries
      BY <2>3 DEF Inputs
    <2>6. a \in Tables /\ b \in Tables
      BY <1>5
    <2>7. /\ ~Less(smallest(g), smallest(a)) /\ ~Less(largest(b), largest(g))
          /\ smallest(a) \in InternalKeys /\ largest(b) \in InternalKeys
      BY <2>4, <2>5, <2>6, TableKeys
    <2>8. Less(largest(f), smallest(a)) \/ Less(largest(b), smallest(f))
      BY <2>1, <2>4, <2>5 DEF Beside
    <2> QED
      BY <2>3, <2>7, <2>8, LessOrders
  <1>7. \A l \in Levels : files'[l] = IF l = comp.c.level THEN files[l] \ comp.c.in0
                                      ELSE IF l = level THEN (files[l] \ comp.c.in1) \cup new
                                      ELSE files[l]
    BY <1>1, <1>2 DEF Replaced
  <1> HIDE DEF level
  <1>8. ASSUME NEW l \in Levels \ {0} PROVE Disjoint(files'[l])
    <2>1. Disjoint(files[l])
      BY <1>1, DisjointLevels
    <2>2. CASE l = comp.c.level
      BY <2>1, <2>2, <1>7 DEF Disjoint
    <2>3. CASE l = level
      <3>1. files'[l] = (files[l] \ comp.c.in1) \cup new
        BY <2>3, <1>5, <1>7
      <3> QED
        BY <3>1, <2>1, <2>3, <1>4, <1>6 DEF Disjoint
    <2>4. CASE l # comp.c.level /\ l # level
      BY <2>1, <2>4, <1>7
    <2> QED
      BY <2>2, <2>3, <2>4
  <1>9. LevelsDisjoint'
    BY <1>8 DEF LevelsDisjoint, Disjoint
  <1> QED
    BY <1>1, <1>9 DEF CompApart

\* An empty database has disjoint levels.
LEMMA InitDisjoint == Init => DisjointInv
  <1> SUFFICES ASSUME Init PROVE DisjointInv
    OBVIOUS
  <1>1. Typed
    BY InitTyped
  <1>2. comp = None /\ \A level \in Levels : files[level] = {}
    BY DEF Init
  <1> QED
    BY <1>1, <1>2 DEF DisjointInv, LevelsDisjoint, CompApart

\* Every step keeps the levels disjoint.
LEMMA DisjointStep ==
  ASSUME DisjointInv, [Next]_vars
  PROVE  DisjointInv'
  <1>1. Typed /\ LevelsDisjoint /\ Typed'
    BY TypedStep DEF DisjointInv
  <1>2. LevelsDisjoint' /\ CompApart(comp', files')
    <2>1. CASE UNCHANGED <<files, comp>>
      BY <2>1 DEF DisjointInv, LevelsDisjoint
    <2>2. CASE \E level, f : Flushes(level, f)
      BY <2>2, DisjointFlush
    <2>3. CASE \E c : Starts(c)
      BY <2>3, <1>1, DisjointStart
    <2>4. CASE \E out : Installs(out)
      BY <2>4, DisjointInstall
    <2>5. CASE UNCHANGED files /\ comp' = None
      BY <2>5 DEF DisjointInv, LevelsDisjoint, CompApart
    <2> QED
      BY <1>1, <2>1, <2>2, <2>3, <2>4, <2>5, Steps
         DEF Write, GetSnapshot, ReleaseSnapshot, SwitchMemTable, Asks
  <1> QED
    BY <1>1, <1>2 DEF DisjointInv

\* The files of every level beyond 0 have disjoint ranges, as FindFile's binary
\* search and the assertion of VersionSet::Builder::MaybeAddFile need, whatever
\* is flushed while a compaction runs and whatever fails, for any number of keys,
\* writes, levels and snapshots.
THEOREM Disjointness == Spec => []LevelsDisjoint
  <1>1. DisjointInv /\ [Next]_vars => DisjointInv'
    BY DisjointStep
  <1>2. DisjointInv => LevelsDisjoint
    BY DEF DisjointInv
  <1> QED
    BY <1>1, <1>2, InitDisjoint, PTL DEF Spec

\* A version has only tables of entries that were written, each file on one level
\* and with a number of its own, and a compaction under way still has its inputs:
\* no flush and no seek takes one away.
THEOREM TypeCorrect == Spec => []Typed
  <1>1. DisjointInv /\ [Next]_vars => DisjointInv'
    BY DisjointStep
  <1>2. DisjointInv => Typed
    BY DEF DisjointInv
  <1> QED
    BY <1>1, <1>2, InitDisjoint, PTL DEF Spec

-----------------------------------------------------------------------------
(* What is newer lies above.                                               *)

Newer(A, B) == \A e \in A, o \in B : e[1] = o[1] => e[2] > o[2]
Strange(A, B) == \A e \in A, o \in B : e[1] # o[1]
EntriesOf(S) == UNION {f.entries : f \in S}

\* The memtables are newer than the files, and of the two mem_ is.
MemNewer(m, i, fs) ==
    /\ \A a \in m, b \in i : a[2] > b[2]
    /\ \A a \in m \cup i : \A level \in Levels : \A f \in fs[level] : \A b \in f.entries : a[2] > b[2]

\* The snapshots, oldest first, and what a compaction took for the smallest.
SnapshotsOK(list, last, state) ==
    /\ list \in Seq(Nat)
    /\ \A i \in 1..Len(list) : list[i] <= last
    /\ \A i, j \in 1..Len(list) : i < j => list[i] <= list[j]
    /\ state # None => /\ state.smallest_snapshot \in Nat /\ state.smallest_snapshot <= last
                       /\ \A i \in 1..Len(list) : state.smallest_snapshot <= list[i]

\* The files a compaction does not read: on its level they are newer than its
\* inputs there, on the next they share no key with its inputs, and below too
\* unless it knew them when it started.
CompReads(state, fs) ==
    state # None =>
       /\ \A f \in fs[state.c.level] \ state.c.in0 : Newer(f.entries, EntriesOf(state.c.in0))
       /\ \A f \in fs[state.c.level + 1] \ state.c.in1 :
             Strange(f.entries, EntriesOf(state.c.in0 \cup state.c.in1))
       /\ \A level \in Levels : level >= state.c.level + 2 =>
             \A f \in fs[level] :
                f \in state.base[level]
                \/ Strange(f.entries, EntriesOf(state.c.in0 \cup state.c.in1))

\* NewerAbove, file by file.
LEMMA AboveIsNewer ==
  NewerAbove <=>
    \A a, b \in Levels : \A f \in files[a], g \in files[b] :
       (a < b \/ (a = 0 /\ b = 0 /\ f.number > g.number)) => Newer(f.entries, g.entries)
  BY DEF NewerAbove, Newer

\* RangesApart, level by level.
LEMMA RangesAreApart ==
  RangesApart <=> \A level \in Levels \ {0} : Apart(files[level])
  BY DEF RangesApart, Apart

\* Levels whose ranges of user keys do not touch are disjoint.
LEMMA ApartMeansDisjoint ==
  ASSUME Typed, RangesApart
  PROVE  LevelsDisjoint
  <1>1. \A level \in Levels \ {0} : files[level] \in SUBSET Tables /\ Apart(files[level])
    BY TypedFiles, RangesAreApart
  <1> QED
    BY <1>1, ApartDisjoint, DisjointLevels

\* Files whose ranges do not touch share no key.
LEMMA ApartStrange ==
  ASSUME NEW f \in Tables, NEW g \in Tables,
         largest(f)[1] < smallest(g)[1] \/ largest(g)[1] < smallest(f)[1]
  PROVE  Strange(f.entries, g.entries) /\ Strange(g.entries, f.entries)
  <1>1. /\ smallest(f)[1] \in Nat /\ largest(f)[1] \in Nat
        /\ smallest(g)[1] \in Nat /\ largest(g)[1] \in Nat
        /\ \A e \in f.entries : e \in InternalKeys /\ smallest(f)[1] <= e[1] /\ e[1] <= largest(f)[1]
        /\ \A e \in g.entries : e \in InternalKeys /\ smallest(g)[1] <= e[1] /\ e[1] <= largest(g)[1]
    BY TableKeys
  <1>2. \A e \in InternalKeys : e[1] \in Nat
    BY DEF InternalKeys
  <1> QED
    BY <1>1, <1>2 DEF Strange

\* What a new compaction reads, and what it leaves.
LEMMA ChosenReads ==
  ASSUME Typed, RangesApart, NEW c, Chosen(c)
  PROVE  /\ \A f \in files[c.level] \ c.in0 : Strange(f.entries, EntriesOf(c.in0))
         /\ \A f \in files[c.level + 1] \ c.in1 :
               Strange(f.entries, EntriesOf(c.in0 \cup c.in1))
  <1>1. /\ c.level \in Levels /\ c.level + 1 \in Levels /\ c.level + 1 # 0
        /\ c.in0 \in SUBSET files[c.level] /\ c.in0 # {} /\ c.in1 \in SUBSET files[c.level + 1]
        /\ \A g \in files[c.level + 1] : Overlaps(g, c.in0) <=> g \in c.in1
        /\ c.level = 0 => \A f \in files[0] : Overlaps(f, c.in0) => f \in c.in0
    BY AboutLevels DEF Chosen, LevelFacts
  <1>2. /\ \A f \in files[c.level] : f \in Tables
        /\ \A f \in files[c.level + 1] : f \in Tables
    BY <1>1, TypedFiles
  <1>3. \A g \in Tables : /\ smallest(g)[1] \in Nat /\ largest(g)[1] \in Nat
                          /\ smallest(g)[1] <= largest(g)[1]
    BY TableKeys
  <1>4. ASSUME NEW f \in Tables, ~Overlaps(f, c.in0), NEW g \in c.in0
        PROVE  Strange(f.entries, g.entries)
    <2>1. g \in Tables
      BY <1>1, <1>2
    <2>2. largest(f)[1] < smallest(g)[1] \/ largest(g)[1] < smallest(f)[1]
      BY <2>1, <1>3, <1>4 DEF Overlaps
    <2> QED
      BY <2>1, <2>2, ApartStrange
  <1>5. ASSUME NEW level \in Levels, level # 0, NEW f \in files[level], NEW g \in files[level], f # g
        PROVE  Strange(f.entries, g.entries)
    <2>1. f \in Tables /\ g \in Tables
      BY TypedFiles
    <2>2. largest(f)[1] < smallest(g)[1] \/ largest(g)[1] < smallest(f)[1]
      BY <2>1, <1>3, <1>5 DEF RangesApart, AfterFile
    <2> QED
      BY <2>1, <2>2, ApartStrange
  <1>6. ASSUME NEW f \in files[c.level] \ c.in0, NEW g \in c.in0
        PROVE  Strange(f.entries, g.entries)
    <2>1. f \in Tables /\ f # g
      BY <1>2
    <2>2. CASE c.level = 0
      BY <2>1, <2>2, <1>1, <1>4
    <2>3. CASE c.level # 0
      BY <2>1, <2>3, <1>1, <1>5
    <2> QED
      BY <2>2, <2>3
  <1>7. ASSUME NEW f \in files[c.level + 1] \ c.in1, NEW g \in c.in0 \cup c.in1
        PROVE  Strange(f.entries, g.entries)
    <2>1. CASE g \in c.in0
      BY <2>1, <1>1, <1>2, <1>4
    <2>2. CASE g \in c.in1
      BY <2>2, <1>1, <1>5
    <2> QED
      BY <2>1, <2>2
  <1> QED
    BY <1>6, <1>7 DEF Strange, EntriesOf

\* What a flush brings is newer than every file, and strange to the files it
\* goes past.
LEMMA FlushNewer ==
  ASSUME Typed, MemNewer(mem, imm, files), NEW level, NEW f, Flushes(level, f)
  PROVE  /\ \A l \in Levels : \A g \in files[l] : Newer(f.entries, g.entries)
         /\ level # 0 => \A l \in 0..level : \A g \in files[l] :
               Strange(f.entries, g.entries) /\ Strange(g.entries, f.entries)
         /\ \A l \in Levels : \A g \in files[l] : g.number < f.number
  <1>1. /\ level \in Levels /\ f \in Tables /\ f.entries = imm /\ f.number = next_file
        /\ level # 0 =>
              \A l \in 0..level : \A g \in files[l] :
                 AfterFile(smallest(f)[1], g) \/ BeforeFile(largest(f)[1], g)
    BY DEF Flushes
  <1>2. \A l \in Levels : \A g \in files[l] : Newer(f.entries, g.entries) /\ g.number < f.number
    BY <1>1, TypedFiles DEF MemNewer, Newer
  <1>3. ASSUME level # 0, NEW l \in 0..level, NEW g \in files[l]
        PROVE  Strange(f.entries, g.entries) /\ Strange(g.entries, f.entries)
    <2>1. l \in Levels
      BY <1>1, AboutLevels DEF LevelFacts
    <2>2. g \in Tables
      BY <2>1, TypedFiles
    <2>3. /\ smallest(f)[1] \in Nat /\ largest(f)[1] \in Nat
          /\ smallest(g)[1] \in Nat /\ largest(g)[1] \in Nat
      BY <2>2, <1>1, TableKeys
    <2>4. largest(f)[1] < smallest(g)[1] \/ largest(g)[1] < smallest(f)[1]
      BY <2>3, <1>1, <1>3 DEF AfterFile, BeforeFile
    <2> QED
      BY <2>2, <2>4, <1>1, ApartStrange
  <1> QED
    BY <1>2, <1>3

OrderInv ==
    /\ Typed /\ MemNewer(mem, imm, files) /\ NewerAbove /\ CompReads(comp, files)
    /\ SnapshotsOK(snapshots, Len(history), comp)

\* In an empty database what is newer lies above.
LEMMA InitOrder == Init => OrderInv
  <1> SUFFICES ASSUME Init PROVE OrderInv
    OBVIOUS
  <1>1. Typed
    BY InitTyped
  <1>2. /\ comp = None /\ mem = {} /\ imm = {} /\ snapshots = <<>>
        /\ \A level \in Levels : files[level] = {}
    BY DEF Init
  <1>3. SnapshotsOK(snapshots, Len(history), comp)
    BY <1>2 DEF SnapshotsOK
  <1> QED
    BY <1>1, <1>2, <1>3 DEF OrderInv, MemNewer, NewerAbove, CompReads

\* What a write adds to the memtable is newer than everything.
LEMMA OrderWrite ==
  ASSUME OrderInv, NEW k \in Keys, NEW type \in Types, Write(k, type)
  PROVE  OrderInv'
  <1>1. /\ Typed' /\ Len(history') = Len(history) + 1
        /\ history \in Seq(Keys \X Types)
    BY TypedWrite DEF OrderInv, Typed
  <1>2. /\ mem' = mem \cup {<<k, Len(history) + 1, type>>}
        /\ UNCHANGED <<imm, files, comp, snapshots>>
    BY DEF Write, LastSequence
  <1>3. /\ Len(history) \in Nat
        /\ \A e \in Written : e[2] \in 1..Len(history)
    BY <1>1, WrittenFacts
  <1>4. \A e \in Written : e[2] < Len(history) + 1
    BY <1>3
  <1>5. /\ \A b \in imm : b \in Written
        /\ \A l \in Levels : \A f \in files[l] : \A b \in f.entries : b \in Written
    BY TypedFiles DEF OrderInv, Typed
  <1>6. MemNewer(mem', imm, files)
    <2> DEFINE new == <<k, Len(history) + 1, type>>
    <2>1. new[2] = Len(history) + 1 /\ mem' = mem \cup {new}
      BY <1>2
    <2> HIDE DEF new
    <2> QED
      BY <2>1, <1>3, <1>4, <1>5 DEF OrderInv, MemNewer
  <1>7. SnapshotsOK(snapshots, Len(history) + 1, comp)
    BY <1>3 DEF OrderInv, SnapshotsOK
  <1>8. NewerAbove'
    BY <1>2 DEF OrderInv, NewerAbove
  <1> QED
    BY <1>1, <1>2, <1>6, <1>7, <1>8 DEF OrderInv

\* A new snapshot is the newest.
LEMMA OrderSnapshot ==
  ASSUME OrderInv, GetSnapshot, Typed'
  PROVE  OrderInv'
  <1>1. /\ snapshots' = Append(snapshots, Len(history))
        /\ UNCHANGED <<history, mem, imm, files, comp>>
    BY DEF GetSnapshot, New, LastSequence
  <1>2. SnapshotsOK(snapshots, Len(history), comp) /\ Len(history) \in Nat
    BY DEF OrderInv, Typed
  <1> DEFINE n == Len(snapshots)
             s == Append(snapshots, Len(history))
  <1>3. snapshots \in Seq(Nat) /\ n \in Nat
    BY <1>2 DEF SnapshotsOK
  <1>4. /\ s \in Seq(Nat) /\ Len(s) = n + 1
        /\ \A i \in 1..n : s[i] = snapshots[i]
        /\ s[n + 1] = Len(history)
    BY <1>2, <1>3
  <1>5. \A i \in 1..(n + 1) : i \in 1..n \/ i = n + 1
    BY <1>3
  <1> HIDE DEF s
  <1>6. SnapshotsOK(s, Len(history), comp)
    <2>1. /\ \A i \in 1..n : snapshots[i] <= Len(history)
          /\ \A i, j \in 1..n : i < j => snapshots[i] <= snapshots[j]
          /\ comp # None => /\ comp.smallest_snapshot \in Nat
                            /\ comp.smallest_snapshot <= Len(history)
                            /\ \A i \in 1..n : comp.smallest_snapshot <= snapshots[i]
      BY <1>2 DEF SnapshotsOK
    <2>2. \A i \in 1..(n + 1) : s[i] <= Len(history)
      BY <2>1, <1>2, <1>4, <1>5
    <2>3. ASSUME NEW i \in 1..(n + 1), NEW j \in 1..(n + 1), i < j PROVE s[i] <= s[j]
      <3>1. i \in 1..n
        BY <2>3, <1>3
      <3> QED
        BY <3>1, <2>1, <2>3, <1>4, <1>5
    <2>4. comp # None => \A i \in 1..(n + 1) : comp.smallest_snapshot <= s[i]
      BY <2>1, <1>4, <1>5
    <2> QED
      BY <2>1, <2>2, <2>3, <2>4, <1>4 DEF SnapshotsOK
  <1> QED
    BY <1>1, <1>6 DEF OrderInv, NewerAbove, s

\* RemoveAt drops one element and keeps the others in order.
LEMMA RemoveAtFacts ==
  ASSUME NEW S, NEW s \in Seq(S), NEW i \in 1..Len(s)
  PROVE  /\ RemoveAt(s, i) \in Seq(S)
         /\ Len(RemoveAt(s, i)) = Len(s) - 1
         /\ \A j \in 1..(Len(s) - 1) :
               RemoveAt(s, i)[j] = IF j < i THEN s[j] ELSE s[j + 1]
  <1> DEFINE t == SubSeq(s, 1, i - 1)
             u == SubSeq(s, i + 1, Len(s))
  <1>1. /\ t \in Seq(S)
        /\ Len(t) = i - 1
        /\ \A j \in 1..(i - 1) : t[j] = s[j]
    BY SubSeqProperties
  <1>2. /\ u \in Seq(S)
        /\ Len(u) = Len(s) - i
        /\ \A j \in 1..(Len(s) - i) : u[j] = s[i + j]
    BY SubSeqProperties
  <1>3. RemoveAt(s, i) = t \o u
    BY DEF RemoveAt
  <1> HIDE DEF t, u
  <1>4. /\ t \o u \in Seq(S)
        /\ Len(t \o u) = Len(t) + Len(u)
        /\ \A j \in 1..(Len(t) + Len(u)) :
             (t \o u)[j] = IF j <= Len(t) THEN t[j] ELSE u[j - Len(t)]
    BY <1>1, <1>2, ConcatProperties
  <1>5. Len(s) \in Nat /\ i \in Nat /\ Len(t) + Len(u) = Len(s) - 1
    BY <1>1, <1>2
  <1>6. ASSUME NEW j \in 1..(Len(s) - 1)
        PROVE  (t \o u)[j] = IF j < i THEN s[j] ELSE s[j + 1]
    <2>1. CASE j < i
      BY <1>1, <1>4, <1>5, <2>1
    <2>2. CASE ~(j < i)
      <3>1. (t \o u)[j] = u[j - (i - 1)]
        BY <1>1, <1>4, <1>5, <2>2
      <3>2. j - (i - 1) \in 1..(Len(s) - i) /\ i + (j - (i - 1)) = j + 1
        BY <1>5, <2>2
      <3> QED
        BY <1>2, <2>2, <3>1, <3>2
    <2> QED
      BY <2>1, <2>2
  <1> QED
    BY <1>3, <1>4, <1>5, <1>6

\* Releasing a snapshot keeps the others in order.
LEMMA OrderRelease ==
  ASSUME OrderInv, NEW i \in DOMAIN snapshots, ReleaseSnapshot(i), Typed'
  PROVE  /\ OrderInv'
         /\ snapshots' \in Seq(Nat)
         /\ \A j \in 1..Len(snapshots') : \E n \in 1..Len(snapshots) : snapshots'[j] = snapshots[n]
  <1>1. /\ snapshots' = RemoveAt(snapshots, i)
        /\ UNCHANGED <<history, mem, imm, files, comp>>
    BY DEF ReleaseSnapshot, Delete
  <1>2. SnapshotsOK(snapshots, Len(history), comp)
    BY DEF OrderInv
  <1>3. snapshots \in Seq(Nat) /\ Len(snapshots) \in Nat
    BY <1>2 DEF SnapshotsOK
  <1>4. i \in 1..Len(snapshots)
    BY <1>3
  <1> DEFINE s == RemoveAt(snapshots, i)
             m == Len(snapshots) - 1
             at(j) == IF j < i THEN j ELSE j + 1
  <1>5. /\ s \in Seq(Nat) /\ Len(s) = m
        /\ \A j \in 1..m : s[j] = snapshots[at(j)]
    <2>1. /\ s \in Seq(Nat) /\ Len(s) = m
          /\ \A j \in 1..m : s[j] = IF j < i THEN snapshots[j] ELSE snapshots[j + 1]
      BY <1>3, <1>4, RemoveAtFacts
    <2> HIDE DEF s
    <2> QED
      BY <2>1
  <1>6. \A j \in 1..m : at(j) \in 1..Len(snapshots)
    BY <1>3, <1>4
  <1>7. \A j, l \in 1..m : j < l => at(j) < at(l)
    BY <1>3, <1>4
  <1> HIDE DEF s, m, at
  <1>8. SnapshotsOK(s, Len(history), comp)
    BY <1>2, <1>5, <1>6, <1>7 DEF SnapshotsOK
  <1>9. snapshots' = s
    BY <1>1 DEF s
  <1> QED
    BY <1>1, <1>5, <1>6, <1>8, <1>9 DEF OrderInv, NewerAbove

\* The full memtable stays newer than the files.
LEMMA OrderSwitch ==
  ASSUME OrderInv, SwitchMemTable, Typed'
  PROVE  OrderInv'
  <1>1. /\ imm = {} /\ imm' = mem /\ mem' = {}
        /\ UNCHANGED <<history, files, comp, snapshots>>
    BY DEF SwitchMemTable
  <1>2. MemNewer(mem', imm', files)
    BY <1>1 DEF OrderInv, MemNewer
  <1> QED
    BY <1>1, <1>2 DEF OrderInv, NewerAbove

\* What shares no key with any file of a set shares none with the set.
LEMMA StrangeInputs ==
  ASSUME NEW A, NEW S, \A g \in S : Strange(A, g.entries)
  PROVE  Strange(A, EntriesOf(S))
  BY DEF Strange, EntriesOf

\* What is newer than every file of a set is newer than the set.
LEMMA NewerInputs ==
  ASSUME NEW A, NEW S, \A g \in S : Newer(A, g.entries)
  PROVE  Newer(A, EntriesOf(S))
  BY DEF Newer, EntriesOf

\* What shares no key is neither newer nor older.
LEMMA StrangeNewer ==
  ASSUME NEW A, NEW B, Strange(A, B)
  PROVE  Newer(A, B)
  BY DEF Strange, Newer

\* A flushed file lies above what it is newer than, though it may have gone
\* past levels it shares no key with.
LEMMA OrderFlush ==
  ASSUME OrderInv, NEW level, NEW f, Flushes(level, f), Typed'
  PROVE  OrderInv'
  <1>1. /\ level \in Levels /\ f \in Tables /\ f.entries = imm /\ files' = Added(level, f)
        /\ imm' = {} /\ UNCHANGED <<history, mem, comp, snapshots>>
    BY DEF Flushes
  <1>2. /\ \A l \in Levels : \A g \in files[l] : Newer(f.entries, g.entries) /\ g.number < f.number
        /\ level # 0 => \A l \in 0..level : \A g \in files[l] :
              Strange(f.entries, g.entries) /\ Strange(g.entries, f.entries)
    BY FlushNewer DEF OrderInv
  <1>3. \A l \in Levels : files'[l] = IF l = level THEN files[l] \cup {f} ELSE files[l]
    BY <1>1 DEF Added
  <1>4. \A l \in Levels : \A g \in files'[l] : g \in files[l] \/ (g = f /\ l = level)
    BY <1>3
  <1>5. MemNewer(mem', imm', files')
    BY <1>1, <1>4 DEF OrderInv, MemNewer
  <1>6. \A l \in Levels : \A g \in files[l] : g.number \in Nat /\ f.number \in Nat
    BY <1>1, TypedFiles, TableKeys DEF OrderInv
  <1>7. ASSUME NEW a \in Levels, NEW b \in Levels, NEW g \in files'[a], NEW h \in files'[b],
               a < b \/ (a = 0 /\ b = 0 /\ g.number > h.number)
        PROVE  Newer(g.entries, h.entries)
    <2>1. CASE g \in files[a] /\ h \in files[b]
      BY <2>1, <1>7, AboveIsNewer DEF OrderInv
    <2>2. CASE g = f /\ h \in files[b]
      BY <2>2, <1>2
    <2>3. CASE g \in files[a] /\ h = f /\ b = level
      <3>1. ~(g.number > f.number)
        BY <2>3, <1>2, <1>6
      <3>2. a < level
        BY <3>1, <2>3, <1>7
      <3>3. level # 0 /\ a \in 0..level
        BY <3>2, <1>1, AboutLevels DEF LevelFacts
      <3>4. Strange(g.entries, f.entries)
        BY <3>3, <2>3, <1>2
      <3> QED
        BY <3>4, <2>3, StrangeNewer
    <2>4. CASE g = f /\ a = level /\ h = f /\ b = level
      <3>1. FALSE
        BY <2>4, <1>1, <1>7, TableKeys, AboutLevels DEF LevelFacts
      <3> QED
        BY <3>1
    <2> QED
      BY <2>1, <2>2, <2>3, <2>4, <1>4
  <1>8. NewerAbove'
    BY <1>7 DEF NewerAbove, Newer
  <1>9. CompReads(comp, files')
    <2> SUFFICES ASSUME comp # None PROVE CompReads(comp, files')
      BY DEF CompReads
    <2>1. /\ comp.c.level \in Levels /\ comp.c.level + 1 \in Levels /\ comp.c.level \in Nat
          /\ comp.c.in0 \in SUBSET files[comp.c.level]
          /\ comp.c.in1 \in SUBSET files[comp.c.level + 1]
      BY TypedInputs, AboutLevels DEF OrderInv, Typed, CompOK
    <2>2. Newer(f.entries, EntriesOf(comp.c.in0))
      <3>1. \A g \in comp.c.in0 : Newer(f.entries, g.entries)
        BY <2>1, <1>2
      <3> QED
        BY <3>1, NewerInputs
    <2>3. ASSUME level >= comp.c.level + 1
          PROVE  Strange(f.entries, EntriesOf(comp.c.in0 \cup comp.c.in1))
      <3>1. level # 0 /\ comp.c.level \in 0..level /\ comp.c.level + 1 \in 0..level
        BY <2>1, <2>3, <1>1, AboutLevels
      <3>2. \A g \in comp.c.in0 \cup comp.c.in1 : Strange(f.entries, g.entries)
        BY <3>1, <2>1, <1>2
      <3> QED
        BY <3>2, StrangeInputs
    <2>4. CompReads(comp, files)
      BY DEF OrderInv
    <2>5. \A g \in files'[comp.c.level] \ comp.c.in0 : Newer(g.entries, EntriesOf(comp.c.in0))
      BY <2>1, <2>2, <2>4, <1>4 DEF CompReads
    <2>6. \A g \in files'[comp.c.level + 1] \ comp.c.in1 :
             Strange(g.entries, EntriesOf(comp.c.in0 \cup comp.c.in1))
      <3> TAKE g \in files'[comp.c.level + 1] \ comp.c.in1
      <3>1. CASE g \in files[comp.c.level + 1]
        BY <3>1, <2>4 DEF CompReads
      <3>2. CASE g = f /\ comp.c.level + 1 = level
        <4>1. level >= comp.c.level + 1
          BY <3>2, <2>1
        <4> QED
          BY <4>1, <3>2, <2>3
      <3> QED
        BY <3>1, <3>2, <2>1, <1>4
    <2>7. ASSUME NEW l \in Levels, l >= comp.c.level + 2, NEW g \in files'[l]
          PROVE  \/ g \in comp.base[l]
                 \/ Strange(g.entries, EntriesOf(comp.c.in0 \cup comp.c.in1))
      <3>1. CASE g \in files[l]
        BY <3>1, <2>4, <2>7 DEF CompReads
      <3>2. CASE g = f /\ l = level
        <4>1. level >= comp.c.level + 1
          BY <3>2, <2>1, <2>7, <1>1, AboutLevels
        <4> QED
          BY <4>1, <3>2, <2>3
      <3> QED
        BY <3>1, <3>2, <1>4
    <2> QED
      BY <2>5, <2>6, <2>7 DEF CompReads
  <1> QED
    BY <1>1, <1>5, <1>8, <1>9 DEF OrderInv

\* A file moved down goes below nothing older.
LEMMA OrderStart ==
  ASSUME OrderInv, RangesApart, NEW c, Starts(c), Typed'
  PROVE  OrderInv'
  <1>1. /\ Chosen(c) /\ comp = None /\ imm = {}
        /\ UNCHANGED <<history, mem, imm, next_file, snapshots>>
    BY DEF Starts
  <1>2. /\ \A f \in files[c.level] \ c.in0 : Strange(f.entries, EntriesOf(c.in0))
        /\ \A f \in files[c.level + 1] \ c.in1 :
              Strange(f.entries, EntriesOf(c.in0 \cup c.in1))
    BY <1>1, ChosenReads DEF OrderInv
  <1>3. /\ c.level \in Levels /\ c.level + 1 \in Levels /\ c.level \in Nat
        /\ c.in0 \in SUBSET files[c.level] /\ c.in1 \in SUBSET files[c.level + 1]
    BY <1>1, AboutLevels DEF Chosen, LevelFacts
  <1>4. CASE /\ c.in1 = {} /\ (\E f : c.in0 = {f})
             /\ files' = Replaced(c, c.in0) /\ file_to_compact' = None /\ comp' = comp
    <2>1. \A l \in Levels : files'[l] = IF l = c.level THEN files[l] \ c.in0
                                        ELSE IF l = c.level + 1 THEN files[l] \cup c.in0
                                        ELSE files[l]
      BY <1>4 DEF Replaced
    <2>2. \A l \in Levels : \A g \in files'[l] :
             \/ g \in files[l] /\ ~(l = c.level /\ g \in c.in0)
             \/ g \in c.in0 /\ l = c.level + 1
      BY <2>1, <1>3
    <2>3. MemNewer(mem, imm, files')
      BY <2>2, <1>3 DEF OrderInv, MemNewer
    <2>4. ASSUME NEW a \in Levels, NEW b \in Levels, NEW g \in files'[a], NEW h \in files'[b],
                 a < b \/ (a = 0 /\ b = 0 /\ g.number > h.number)
          PROVE  Newer(g.entries, h.entries)
      <3>0. a \in Nat /\ b \in Nat
        BY AboutLevels
      <3>1. CASE g \in files[a] /\ h \in files[b]
        BY <3>1, <2>4, AboveIsNewer DEF OrderInv
      <3>2. CASE g \in files[a] /\ ~(a = c.level /\ g \in c.in0) /\ h \in c.in0 /\ b = c.level + 1
        <4>1. h \in files[c.level]
          BY <3>2, <1>3
        <4>2. a < c.level \/ a = c.level
          BY <3>0, <3>2, <2>4, <1>3
        <4>3. CASE a < c.level
          BY <4>1, <4>3, <3>2, <1>3, AboveIsNewer DEF OrderInv
        <4>4. CASE a = c.level
          <5>1. Strange(g.entries, h.entries)
            BY <4>4, <3>2, <1>2 DEF Strange, EntriesOf
          <5> QED
            BY <5>1, StrangeNewer
        <4> QED
          BY <4>2, <4>3, <4>4
      <3>3. CASE g \in c.in0 /\ a = c.level + 1 /\ h \in files[b]
        <4>1. g \in files[c.level] /\ c.level < b
          BY <3>0, <3>3, <2>4, <1>3
        <4> QED
          BY <4>1, <3>3, <1>3, AboveIsNewer DEF OrderInv
      <3>4. CASE a = c.level + 1 /\ b = c.level + 1
        <4>1. FALSE
          BY <3>4, <2>4, <1>3
        <4> QED
          BY <4>1
      <3> QED
        BY <3>1, <3>2, <3>3, <3>4, <2>2
    <2>5. NewerAbove'
      BY <2>4 DEF NewerAbove, Newer
    <2> QED
      BY <1>1, <1>4, <2>3, <2>5 DEF OrderInv, CompReads
  <1>5. CASE comp' = CompactionState(c) /\ UNCHANGED <<files, file_to_compact>>
    <2>1. /\ comp'.c = c /\ comp'.base = files /\ comp'.smallest_snapshot = SmallestSnapshot
      BY <1>5 DEF CompactionState
    <2>2. CompReads(comp', files)
      <3>1. \A f \in files[c.level] \ c.in0 : Newer(f.entries, EntriesOf(c.in0))
        BY <1>2, StrangeNewer
      <3> QED
        BY <3>1, <2>1, <1>2 DEF CompReads
    <2>3. SnapshotsOK(snapshots, Len(history), comp')
      <3>1. /\ SnapshotsOK(snapshots, Len(history), comp) /\ Len(history) \in Nat
        BY DEF OrderInv, Typed
      <3>2. /\ snapshots \in Seq(Nat) /\ Len(snapshots) \in Nat
            /\ \A i \in 1..Len(snapshots) : snapshots[i] \in Nat /\ snapshots[i] <= Len(history)
            /\ \A i, j \in 1..Len(snapshots) : i < j => snapshots[i] <= snapshots[j]
        BY <3>1 DEF SnapshotsOK
      <3>3. CASE snapshots = <<>>
        <4>1. SmallestSnapshot = Len(history)
          BY <3>3 DEF SmallestSnapshot, LastSequence
        <4> QED
          BY <4>1, <3>1, <3>2, <3>3, <2>1 DEF SnapshotsOK
      <3>4. CASE snapshots # <<>>
        <4>1. SmallestSnapshot = snapshots[1] /\ 1 \in 1..Len(snapshots)
          BY <3>2, <3>4 DEF SmallestSnapshot, oldest
        <4>2. \A i \in 1..Len(snapshots) : i = 1 \/ 1 < i
          OBVIOUS
        <4>3. \A i \in 1..Len(snapshots) : snapshots[1] <= snapshots[i]
          BY <4>1, <4>2, <3>2
        <4> QED
          BY <4>1, <4>3, <3>1, <3>2, <2>1 DEF SnapshotsOK
      <3> QED
        BY <3>3, <3>4
    <2> QED
      BY <1>1, <1>5, <2>2, <2>3 DEF OrderInv, NewerAbove
  <1> QED
    BY <1>4, <1>5 DEF Starts

\* Where the entries of an output come from.
LEMMA InputFiles ==
  ASSUME Typed, comp # None, NEW e \in Inputs
  PROVE  \/ \E g \in comp.c.in0 : g \in files[comp.c.level] /\ e \in g.entries
         \/ \E g \in comp.c.in1 : g \in files[comp.c.level + 1] /\ e \in g.entries
  BY DEF Inputs, Typed, CompOK

\* The outputs of a compaction are below what is newer and above what is older.
LEMMA OrderInstall ==
  ASSUME OrderInv, NEW out, Installs(out), Typed'
  PROVE  OrderInv'
  <1>1. /\ comp # None /\ comp' = None
        /\ files' = Replaced(comp.c, NewFiles(out))
        /\ UNCHANGED <<history, mem, imm, snapshots>>
        /\ Typed /\ CompReads(comp, files)
    BY DEF Installs, OrderInv
  <1> DEFINE low == comp.c.level + 1
  <1>2. PICK new : new = NewFiles(out)
    OBVIOUS
  <1>3. \A f \in new : f.entries \in SUBSET Inputs
    BY <1>1, <1>2, NewFilesFacts
  <1>4. /\ comp.c.level \in Levels /\ low \in Levels /\ comp.c.level \in Nat /\ low # 0
        /\ comp.c.level < low
    <2>1. comp.c.level \in Levels /\ low \in Levels
      BY <1>1, TypedInputs
    <2>2. comp.c.level \in Nat
      BY <2>1, AboutLevels
    <2> QED
      BY <2>1, <2>2
  <1>5. \A l \in Levels : files'[l] = IF l = comp.c.level THEN files[l] \ comp.c.in0
                                      ELSE IF l = low THEN (files[l] \ comp.c.in1) \cup new
                                      ELSE files[l]
    BY <1>1, <1>2 DEF Replaced
  <1>6. \A l \in Levels : \A g \in files'[l] :
           \/ g \in files[l] /\ ~(l = comp.c.level /\ g \in comp.c.in0)
           \/ g \in new /\ l = low
    BY <1>4, <1>5
  <1>7. \A e \in Inputs : \/ \E g \in comp.c.in0 : g \in files[comp.c.level] /\ e \in g.entries
                          \/ \E g \in comp.c.in1 : g \in files[low] /\ e \in g.entries
    BY <1>1, InputFiles
  <1> HIDE DEF low
  <1>8. MemNewer(mem, imm, files')
    <2>1. ASSUME NEW a \in mem \cup imm, NEW e \in Inputs PROVE a[2] > e[2]
      BY <1>4, <1>7 DEF OrderInv, MemNewer
    <2> QED
      BY <2>1, <1>3, <1>6 DEF OrderInv, MemNewer
  <1>9. ASSUME NEW a \in Levels, NEW b \in Levels, NEW g \in files'[a], NEW h \in files'[b],
               a < b \/ (a = 0 /\ b = 0 /\ g.number > h.number)
        PROVE  Newer(g.entries, h.entries)
    <2>0. a \in Nat /\ b \in Nat /\ low \in Nat /\ low = comp.c.level + 1
      BY <1>4, AboutLevels DEF low
    <2>1. CASE g \in files[a] /\ h \in files[b]
      BY <2>1, <1>9, AboveIsNewer DEF OrderInv
    <2>2. CASE g \in files[a] /\ ~(a = comp.c.level /\ g \in comp.c.in0) /\ h \in new /\ b = low
      <3> SUFFICES ASSUME NEW e \in g.entries, NEW o \in h.entries, e[1] = o[1] PROVE e[2] > o[2]
        BY DEF Newer
      <3>1. a < low /\ o \in Inputs
        BY <2>2, <1>3, <1>4, <1>9
      <3>2. CASE \E x \in comp.c.in1 : x \in files[low] /\ o \in x.entries
        <4>1. PICK x \in comp.c.in1 : x \in files[low] /\ o \in x.entries
          BY <3>2
        <4>2. Newer(g.entries, x.entries)
          BY <4>1, <3>1, <2>2, <1>4, AboveIsNewer DEF OrderInv
        <4> QED
          BY <4>1, <4>2 DEF Newer
      <3>3. CASE \E x \in comp.c.in0 : x \in files[comp.c.level] /\ o \in x.entries
        <4>1. PICK x \in comp.c.in0 : x \in files[comp.c.level] /\ o \in x.entries
          BY <3>3
        <4>2. a < comp.c.level \/ a = comp.c.level
          BY <3>1, <2>0, <1>4
        <4>3. CASE a < comp.c.level
          <5>1. Newer(g.entries, x.entries)
            BY <4>1, <4>3, <2>2, <1>4, AboveIsNewer DEF OrderInv
          <5> QED
            BY <4>1, <5>1 DEF Newer
        <4>4. CASE a = comp.c.level
          <5>1. Newer(g.entries, EntriesOf(comp.c.in0))
            BY <4>4, <2>2, <1>1 DEF CompReads
          <5>2. o \in EntriesOf(comp.c.in0)
            BY <4>1 DEF EntriesOf
          <5> QED
            BY <5>1, <5>2 DEF Newer
        <4> QED
          BY <4>2, <4>3, <4>4
      <3> QED
        BY <3>1, <3>2, <3>3, <1>7
    <2>3. CASE g \in new /\ a = low /\ h \in files[b]
      <3> SUFFICES ASSUME NEW e \in g.entries, NEW o \in h.entries, e[1] = o[1] PROVE e[2] > o[2]
        BY DEF Newer
      <3>1. low < b /\ comp.c.level < b /\ e \in Inputs
        BY <2>0, <2>3, <1>3, <1>4, <1>9
      <3>2. PICK l \in Levels : l < b /\ \E x \in files[l] : e \in x.entries
        BY <3>1, <1>4, <1>7
      <3>3. PICK x \in files[l] : e \in x.entries
        BY <3>2
      <3>4. Newer(x.entries, h.entries)
        BY <3>2, <3>3, <2>3, AboveIsNewer DEF OrderInv
      <3> QED
        BY <3>3, <3>4 DEF Newer
    <2>4. CASE a = low /\ b = low
      <3>1. FALSE
        BY <2>0, <2>4, <1>4, <1>9
      <3> QED
        BY <3>1
    <2> QED
      BY <2>1, <2>2, <2>3, <2>4, <1>6
  <1>10. NewerAbove'
    BY <1>9 DEF NewerAbove, Newer
  <1>11. SnapshotsOK(snapshots, Len(history), None)
    BY DEF OrderInv, SnapshotsOK
  <1> QED
    BY <1>1, <1>8, <1>10, <1>11 DEF OrderInv, CompReads

\* While the ranges are apart every step keeps what is newer above.
LEMMA OrderStep ==
  ASSUME OrderInv, RangesApart, [Next]_vars
  PROVE  OrderInv'
  <1>1. LevelsDisjoint /\ Typed
    BY ApartMeansDisjoint DEF OrderInv
  <1>2. Typed'
    BY <1>1, TypedStep
  <1>3. CASE Asks
    <2>1. /\ UNCHANGED <<history, mem, imm, files, snapshots>>
          /\ comp' = comp \/ comp' = None
      BY <1>3 DEF Asks
    <2> QED
      BY <1>2, <2>1 DEF OrderInv, NewerAbove, SnapshotsOK, CompReads
  <1> QED
    BY <1>1, <1>2, <1>3, Steps, OrderWrite, OrderSnapshot, OrderRelease, OrderSwitch,
       OrderFlush, OrderStart, OrderInstall

-----------------------------------------------------------------------------
(* What can be read.                                                       *)

Present == mem \cup imm \cup UNION {EntriesOf(files[level]) : level \in Levels}
Active == {Len(history)} \cup {snapshots[i] : i \in 1..Len(snapshots)}

Superseded(e, s, W) == \E o \in W : o[1] = e[1] /\ e[2] < o[2] /\ o[2] <= s
Gone(e, P) == e[3] = "deletion" /\ \A o \in P : o[1] = e[1] => o[2] > e[2]

\* Of a key, the last write a reader at s may see is there, or it is a deletion
\* that has gone with all that it deleted.
Content(W, P, S) ==
    \A s \in S : \A e \in W : e[2] <= s => Superseded(e, s, W) \/ e \in P \/ Gone(e, P)

ReadInv == OrderInv /\ Content(Written, Present, Active)

\* Where an entry that can be read may lie.
LEMMA PresentFacts ==
  /\ \A e : e \in Present <=>
        e \in mem \/ e \in imm \/ \E level \in Levels : \E f \in files[level] : e \in f.entries
  /\ \A e : e \in Present' <=>
        e \in mem' \/ e \in imm' \/ \E level \in Levels : \E f \in files'[level] : e \in f.entries
  BY DEF Present, EntriesOf

\* What is there for some readers is there for fewer.
LEMMA ContentOfFewer ==
  ASSUME NEW W, NEW P, NEW S, NEW T, Content(W, P, S), T \subseteq S
  PROVE  Content(W, P, T)
  BY DEF Content

\* A write takes nothing from any reader.
LEMMA ContentWrite ==
  ASSUME ReadInv, NEW k \in Keys, NEW type \in Types, Write(k, type)
  PROVE  Content(Written', Present', Active')
  <1> DEFINE new == <<k, Len(history) + 1, type>>
  <1>1. /\ Written' = Written \cup {new} /\ Len(history') = Len(history) + 1
        /\ history \in Seq(Keys \X Types) /\ Len(history) \in Nat
    BY TypedWrite DEF ReadInv, OrderInv, Typed
  <1>2. /\ mem' = mem \cup {new} /\ UNCHANGED <<imm, files, comp, snapshots>>
    BY DEF Write, LastSequence
  <1>3. /\ \A e \in Written : e[2] \in 1..Len(history)
        /\ new[1] = k /\ new[2] = Len(history) + 1
    BY <1>1, WrittenFacts
  <1> HIDE DEF new
  <1>4. \A e \in Written : e[2] \in Nat /\ e[2] <= Len(history) /\ e[2] < new[2]
    BY <1>1, <1>3
  <1>5. Present' = Present \cup {new}
    BY <1>2 DEF Present
  <1>6. \A s \in Active' : s = Len(history) + 1 \/ (s \in Active /\ s \in Nat /\ s <= Len(history))
    BY <1>1, <1>2 DEF Active, ReadInv, OrderInv, SnapshotsOK
  <1>7. ASSUME NEW s \in Active', NEW e \in Written', e[2] <= s
        PROVE  Superseded(e, s, Written') \/ e \in Present' \/ Gone(e, Present')
    <2>1. CASE e = new
      BY <2>1, <1>5
    <2>2. CASE e \in Written /\ s = Len(history) + 1
      <3>1. CASE e[1] = k
        BY <3>1, <2>2, <1>1, <1>3, <1>4 DEF Superseded
      <3>2. CASE e[1] # k
        <4>1. Len(history) \in Active /\ e[2] <= Len(history)
          BY <2>2, <1>4 DEF Active
        <4>2. Superseded(e, Len(history), Written) \/ e \in Present \/ Gone(e, Present)
          BY <4>1, <2>2 DEF ReadInv, Content
        <4>3. Superseded(e, Len(history), Written) => Superseded(e, s, Written')
          BY <2>2, <1>1, <1>4 DEF Superseded
        <4>4. Gone(e, Present) => Gone(e, Present')
          BY <3>2, <1>3, <1>5 DEF Gone
        <4> QED
          BY <4>2, <4>3, <4>4, <1>5
      <3> QED
        BY <3>1, <3>2
    <2>3. CASE e \in Written /\ s \in Active
      <3>1. Superseded(e, s, Written) \/ e \in Present \/ Gone(e, Present)
        BY <2>3, <1>7 DEF ReadInv, Content
      <3>2. Superseded(e, s, Written) => Superseded(e, s, Written')
        BY <1>1 DEF Superseded
      <3>3. Gone(e, Present) => Gone(e, Present')
        BY <2>3, <1>4, <1>5 DEF Gone
      <3> QED
        BY <3>1, <3>2, <3>3, <1>5
    <2> QED
      BY <2>1, <2>2, <2>3, <1>1, <1>6
  <1> QED
    BY <1>7 DEF Content

\* A flush takes nothing from any reader.
LEMMA ContentFlush ==
  ASSUME ReadInv, NEW level, NEW f, Flushes(level, f)
  PROVE  Content(Written', Present', Active')
  <1>1. /\ level \in Levels /\ f.entries = imm /\ files' = Added(level, f) /\ imm' = {}
        /\ UNCHANGED <<history, mem, snapshots>>
    BY DEF Flushes
  <1>2. \A l \in Levels : files'[l] = IF l = level THEN files[l] \cup {f} ELSE files[l]
    BY <1>1 DEF Added
  <1>3. Present' = Present
    <2>1. ASSUME NEW e \in Present' PROVE e \in Present
      BY <1>1, <1>2, PresentFacts
    <2>2. ASSUME NEW e \in Present PROVE e \in Present'
      <3>1. CASE e \in imm
        BY <3>1, <1>1, <1>2, PresentFacts
      <3>2. CASE e \in mem
        BY <3>2, <1>1, PresentFacts
      <3>3. CASE \E l \in Levels : \E g \in files[l] : e \in g.entries
        <4>1. PICK l \in Levels : \E g \in files[l] : e \in g.entries
          BY <3>3
        <4>2. PICK g \in files[l] : e \in g.entries
          BY <4>1
        <4>3. g \in files'[l]
          BY <4>2, <1>2
        <4> QED
          BY <4>2, <4>3, PresentFacts
      <3> QED
        BY <3>1, <3>2, <3>3, PresentFacts
    <2> QED
      BY <2>1, <2>2
  <1>4. Written' = Written /\ Active' = Active
    BY <1>1 DEF Written, Active
  <1> QED
    BY <1>3, <1>4 DEF ReadInv

\* A file that moves down takes nothing from any reader.
LEMMA ContentStart ==
  ASSUME ReadInv, NEW c, Starts(c)
  PROVE  Content(Written', Present', Active')
  <1>1. Chosen(c) /\ UNCHANGED <<history, mem, imm, snapshots>>
    BY DEF Starts
  <1>2. Written' = Written /\ Active' = Active
    BY <1>1 DEF Written, Active
  <1>3. Present' = Present
    <2>1. CASE files' = files
      BY <2>1, <1>1 DEF Present
    <2>2. CASE c.in1 = {} /\ files' = Replaced(c, c.in0)
      <3>1. /\ c.level \in Levels /\ c.level + 1 \in Levels /\ c.level # c.level + 1
            /\ c.in0 \in SUBSET files[c.level]
        BY <1>1, AboutLevels DEF Chosen, LevelFacts
      <3>2. \A l \in Levels : files'[l] = IF l = c.level THEN files[l] \ c.in0
                                          ELSE IF l = c.level + 1 THEN files[l] \cup c.in0
                                          ELSE files[l]
        BY <2>2 DEF Replaced
      <3>3. \A g : (\E l \in Levels : g \in files'[l]) <=> (\E l \in Levels : g \in files[l])
        <4> TAKE g
        <4>1. ASSUME NEW l \in Levels, g \in files'[l] PROVE \E n \in Levels : g \in files[n]
          BY <4>1, <3>1, <3>2
        <4>2. ASSUME NEW l \in Levels, g \in files[l] PROVE \E n \in Levels : g \in files'[n]
          <5>1. CASE l = c.level /\ g \in c.in0
            <6>1. g \in files'[c.level + 1]
              BY <5>1, <3>1, <3>2
            <6> QED
              BY <6>1, <3>1
          <5>2. CASE ~(l = c.level /\ g \in c.in0)
            <6>1. g \in files'[l]
              BY <5>2, <4>2, <3>2
            <6> QED
              BY <6>1
          <5> QED
            BY <5>1, <5>2
        <4> QED
          BY <4>1, <4>2
      <3>4. \A e : (\E l \in Levels : \E g \in files'[l] : e \in g.entries)
                      <=> (\E l \in Levels : \E g \in files[l] : e \in g.entries)
        BY <3>3
      <3> QED
        BY <3>4, <1>1, PresentFacts
    <2> QED
      BY <2>1, <2>2 DEF Starts
  <1> QED
    BY <1>2, <1>3 DEF ReadInv

\* A compaction drops only what no reader sees: an entry hidden by a newer one
\* that all see, or a deletion with nothing older left below it.
LEMMA ContentInstall ==
  ASSUME ReadInv, NEW out, Installs(out)
  PROVE  Content(Written', Present', Active')
  <1>1. /\ comp # None /\ files' = Replaced(comp.c, NewFiles(out))
        /\ UNCHANGED <<history, mem, imm, snapshots>>
        /\ OrderInv /\ Typed /\ CompReads(comp, files) /\ MemNewer(mem, imm, files)
    BY DEF Installs, ReadInv, OrderInv
  <1> DEFINE low == comp.c.level + 1
  <1>2. PICK new : new = NewFiles(out)
    OBVIOUS
  <1>3. /\ \A f \in new : f.entries \in SUBSET Inputs /\ f.entries \subseteq Kept
        /\ \A x \in Kept : \E f \in new : x \in f.entries
    BY <1>1, <1>2, NewFilesFacts
  <1>4. /\ comp.c.level \in Levels /\ low \in Levels /\ comp.c.level \in Nat /\ low # 0
        /\ comp.c.level < low /\ low = comp.c.level + 1 /\ comp.c.level # low
    <2>1. comp.c.level \in Levels /\ low \in Levels
      BY <1>1, TypedInputs
    <2>2. comp.c.level \in Nat
      BY <2>1, AboutLevels
    <2> QED
      BY <2>1, <2>2
  <1>5. \A l \in Levels : files'[l] = IF l = comp.c.level THEN files[l] \ comp.c.in0
                                      ELSE IF l = low THEN (files[l] \ comp.c.in1) \cup new
                                      ELSE files[l]
    BY <1>1, <1>2 DEF Replaced
  <1> HIDE DEF low
  <1>6. ASSUME NEW l \in Levels, NEW g \in files'[l]
        PROVE  \/ /\ g \in files[l] /\ ~(l = comp.c.level /\ g \in comp.c.in0)
                  /\ ~(l = low /\ g \in comp.c.in1)
               \/ g \in new /\ l = low
    <2>1. CASE l = comp.c.level
      BY <2>1, <1>4, <1>5
    <2>2. CASE l = low
      BY <2>2, <1>4, <1>5
    <2>3. CASE l # comp.c.level /\ l # low
      BY <2>3, <1>5
    <2> QED
      BY <2>1, <2>2, <2>3
  <1>7. \A e \in Inputs : \/ \E g \in comp.c.in0 : g \in files[comp.c.level] /\ e \in g.entries
                          \/ \E g \in comp.c.in1 : g \in files[low] /\ e \in g.entries
    BY <1>1, InputFiles DEF low
  <1>8. Inputs \in SUBSET Written /\ Inputs = EntriesOf(comp.c.in0 \cup comp.c.in1)
    BY <1>1, TypedInputs DEF Inputs, EntriesOf
  <1>9. Written' = Written /\ Active' = Active
    BY <1>1 DEF Written, Active
  <1>10. Present' \subseteq Present
    <2> SUFFICES ASSUME NEW e \in Present' PROVE e \in Present
      OBVIOUS
    <2>1. ASSUME NEW x \in Inputs PROVE x \in Present
      BY <1>4, <1>7, PresentFacts
    <2>2. CASE e \in mem' \/ e \in imm'
      BY <2>2, <1>1, PresentFacts
    <2>3. CASE \E l \in Levels : \E g \in files'[l] : e \in g.entries
      <3>1. PICK l \in Levels : \E g \in files'[l] : e \in g.entries
        BY <2>3
      <3>2. PICK g \in files'[l] : e \in g.entries
        BY <3>1
      <3>3. CASE g \in files[l]
        BY <3>2, <3>3, PresentFacts
      <3>4. CASE g \in new
        BY <3>2, <3>4, <2>1, <1>3
      <3> QED
        BY <3>2, <3>3, <3>4, <1>6
    <2> QED
      BY <2>2, <2>3, PresentFacts
  <1>11. ASSUME NEW e \in Present, e \notin Present' PROVE e \in Inputs /\ e \notin Kept
    <2>1. e \notin Kept
      <3> SUFFICES ASSUME e \in Kept PROVE FALSE
        OBVIOUS
      <3>1. PICK f \in new : e \in f.entries
        BY <1>3
      <3>2. f \in files'[low]
        <4>1. files'[low] = (files[low] \ comp.c.in1) \cup new
          BY <1>4, <1>5
        <4> QED
          BY <3>1, <4>1
      <3> QED
        BY <3>1, <3>2, <1>4, <1>11, PresentFacts
    <2>2. ~(e \in mem \/ e \in imm)
      BY <1>1, <1>11, PresentFacts
    <2>3. PICK l \in Levels : \E g \in files[l] : e \in g.entries
      BY <2>2, PresentFacts
    <2>4. PICK g \in files[l] : e \in g.entries
      BY <2>3
    <2>5. g \notin files'[l]
      BY <2>4, <1>11, PresentFacts
    <2>6. g \in comp.c.in0 \/ g \in comp.c.in1
      BY <2>4, <2>5, <1>5
    <2> QED
      BY <2>1, <2>4, <2>6 DEF Inputs
  <1>12. ASSUME NEW s \in Active
         PROVE  s \in Nat /\ comp.smallest_snapshot \in Nat /\ comp.smallest_snapshot <= s
    BY <1>1 DEF Active, OrderInv, SnapshotsOK, Typed
  <1>13. \A e \in Written : e[2] \in Nat
    BY <1>1, WrittenFacts DEF Typed
  <1>14. ASSUME NEW e \in Inputs, Obsolete(e), NEW o \in Present', o[1] = e[1]
         PROVE  o[2] > e[2]
    <2>1. /\ e[3] = "deletion" /\ e[2] <= comp.smallest_snapshot /\ IsBaseLevelForKey(e[1])
      BY <1>14 DEF Obsolete
    <2>2. CASE o \in mem \/ o \in imm
      BY <2>2, <1>1, <1>4, <1>7 DEF MemNewer
    <2>3. CASE \E l \in Levels : \E g \in files'[l] : o \in g.entries
      <3>1. PICK l \in Levels : \E g \in files'[l] : o \in g.entries
        BY <2>3
      <3>2. PICK g \in files'[l] : o \in g.entries
        BY <3>1
      <3>3. CASE g \in new
        <4>1. o \in Kept /\ o \in Inputs /\ e \notin Kept
          BY <3>2, <3>3, <1>3, <1>14 DEF Kept
        <4>2. ~Hidden(o)
          BY <4>1 DEF Kept
        <4>3. e[2] \in Nat /\ o[2] \in Nat /\ o[2] # e[2]
          <5>1. \A a, b \in Written : a[2] = b[2] => a = b
            BY <1>1, WrittenFacts DEF Typed
          <5> QED
            BY <5>1, <4>1, <1>8, <1>13
        <4>4. ~(e[2] > o[2])
          BY <4>2, <2>1, <1>14 DEF Hidden
        <4> QED
          BY <4>3, <4>4
      <3>4. CASE g \in files[l] /\ ~(l = comp.c.level /\ g \in comp.c.in0)
                               /\ ~(l = low /\ g \in comp.c.in1)
        <4>1. l \in Nat
          BY AboutLevels
        <4>2. l < comp.c.level \/ l = comp.c.level \/ l = low \/ l >= comp.c.level + 2
          BY <4>1, <1>4
        <4>3. CASE l < comp.c.level
          <5>1. PICK n \in Levels : l < n /\ \E x \in files[n] : e \in x.entries
            BY <4>1, <4>3, <1>4, <1>7
          <5>2. PICK x \in files[n] : e \in x.entries
            BY <5>1
          <5>3. Newer(g.entries, x.entries)
            BY <5>1, <3>4, AboveIsNewer, <1>1 DEF OrderInv
          <5> QED
            BY <5>2, <5>3, <3>2, <1>14 DEF Newer
        <4>4. CASE l = comp.c.level
          <5>1. CASE \E x \in comp.c.in0 : e \in x.entries
            <6>1. Newer(g.entries, EntriesOf(comp.c.in0))
              BY <4>4, <3>4, <1>1 DEF CompReads
            <6>2. e \in EntriesOf(comp.c.in0)
              BY <5>1 DEF EntriesOf
            <6> QED
              BY <6>1, <6>2, <3>2, <1>14 DEF Newer
          <5>2. CASE \E x \in comp.c.in1 : x \in files[low] /\ e \in x.entries
            <6>1. PICK x \in comp.c.in1 : x \in files[low] /\ e \in x.entries
              BY <5>2
            <6>2. Newer(g.entries, x.entries)
              BY <6>1, <4>4, <3>4, <1>4, AboveIsNewer, <1>1 DEF OrderInv
            <6> QED
              BY <6>1, <6>2, <3>2, <1>14 DEF Newer
          <5> QED
            BY <5>1, <5>2, <1>7
        <4>5. CASE l = low
          <5>1. Strange(g.entries, Inputs)
            BY <4>5, <3>4, <1>1, <1>8 DEF CompReads, low
          <5> QED
            BY <5>1, <3>2, <1>14 DEF Strange
        <4>6. CASE l >= comp.c.level + 2
          <5>1. g \in comp.base[l] \/ Strange(g.entries, Inputs)
            BY <4>6, <3>4, <1>1, <1>8 DEF CompReads
          <5>2. CASE g \in comp.base[l]
            <6>1. l \in (comp.c.level + 2)..(kNumLevels - 1)
              BY <4>6, <1>4, AboutLevels DEF LevelFacts
            <6>2. AfterFile(e[1], g) \/ BeforeFile(e[1], g)
              BY <5>2, <6>1, <2>1 DEF IsBaseLevelForKey
            <6>3. g \in Tables
              BY <3>4, <1>1, TypedFiles
            <6>4. /\ smallest(g)[1] \in Nat /\ largest(g)[1] \in Nat
                  /\ o \in InternalKeys /\ smallest(g)[1] <= o[1] /\ o[1] <= largest(g)[1]
              BY <6>3, <3>2, TableKeys
            <6>5. o[1] \in Nat
              BY <6>4 DEF InternalKeys
            <6> QED
              BY <6>2, <6>4, <6>5, <1>14 DEF AfterFile, BeforeFile
          <5>3. CASE Strange(g.entries, Inputs)
            BY <5>3, <3>2, <1>14 DEF Strange
          <5> QED
            BY <5>1, <5>2, <5>3
        <4> QED
          BY <4>2, <4>3, <4>4, <4>5, <4>6
      <3> QED
        BY <3>2, <3>3, <3>4, <1>6
    <2> QED
      BY <2>2, <2>3, <1>1, PresentFacts
  <1>15. ASSUME NEW s \in Active, NEW e \in Written, e[2] <= s
         PROVE  Superseded(e, s, Written) \/ e \in Present' \/ Gone(e, Present')
    <2>1. Superseded(e, s, Written) \/ e \in Present \/ Gone(e, Present)
      BY <1>15 DEF ReadInv, Content
    <2>2. Gone(e, Present) => Gone(e, Present')
      BY <1>10 DEF Gone
    <2>3. CASE e \in Present /\ e \notin Present'
      <3>1. e \in Inputs /\ (Hidden(e) \/ Obsolete(e))
        BY <2>3, <1>11 DEF Kept
      <3>2. CASE Hidden(e)
        <4>1. PICK o \in Inputs : o[1] = e[1] /\ o[2] > e[2] /\ o[2] <= comp.smallest_snapshot
          BY <3>2 DEF Hidden
        <4>2. o \in Written /\ o[2] \in Nat /\ e[2] \in Nat
          BY <1>8, <1>13
        <4>3. o[2] <= s
          BY <4>1, <4>2, <1>12
        <4> QED
          BY <4>1, <4>2, <4>3 DEF Superseded
      <3>3. CASE Obsolete(e)
        <4>1. \A o \in Present' : o[1] = e[1] => o[2] > e[2]
          BY <3>1, <3>3, <1>14
        <4> QED
          BY <3>3, <4>1 DEF Gone, Obsolete
      <3> QED
        BY <3>1, <3>2, <3>3
    <2> QED
      BY <2>1, <2>2, <2>3
  <1> QED
    BY <1>9, <1>15 DEF Content

\* While the ranges are apart no step takes anything from a reader.
LEMMA ContentStep ==
  ASSUME ReadInv, RangesApart, [Next]_vars
  PROVE  Content(Written', Present', Active')
  <1>1. LevelsDisjoint /\ Typed /\ OrderInv /\ SnapshotsOK(snapshots, Len(history), comp)
    BY ApartMeansDisjoint DEF ReadInv, OrderInv
  <1>2. CASE UNCHANGED <<history, mem, imm, files>> /\ Active' \subseteq Active
    <2>1. Written' = Written /\ Present' = Present
      BY <1>2 DEF Written, Present
    <2> QED
      BY <1>2, <2>1, ContentOfFewer DEF ReadInv
  <1>3. CASE GetSnapshot
    <2>1. /\ snapshots' = Append(snapshots, Len(history)) /\ UNCHANGED <<history, mem, imm, files>>
      BY <1>3 DEF GetSnapshot, New, LastSequence
    <2>2. snapshots \in Seq(Nat) /\ Len(history) \in Nat
      BY <1>1 DEF SnapshotsOK, Typed
    <2>3. /\ Len(snapshots') = Len(snapshots) + 1
          /\ \A i \in 1..(Len(snapshots) + 1) :
                snapshots'[i] = IF i \in 1..Len(snapshots) THEN snapshots[i] ELSE Len(history)
      BY <2>1, <2>2
    <2>4. Active' \subseteq Active
      BY <2>1, <2>3 DEF Active
    <2> QED
      BY <2>1, <2>4, <1>2
  <1>4. CASE \E i \in DOMAIN snapshots : ReleaseSnapshot(i)
    <2>1. PICK i \in DOMAIN snapshots : ReleaseSnapshot(i)
      BY <1>4
    <2>2. Typed'
      BY <1>1, TypedStep
    <2>3. \A j \in 1..Len(snapshots') : \E n \in 1..Len(snapshots) : snapshots'[j] = snapshots[n]
      BY <2>1, <2>2, <1>1, OrderRelease
    <2>4. UNCHANGED <<history, mem, imm, files>>
      BY <2>1 DEF ReleaseSnapshot
    <2>5. Active' \subseteq Active
      BY <2>3, <2>4 DEF Active
    <2> QED
      BY <2>4, <2>5, <1>2
  <1>5. CASE SwitchMemTable
    <2>1. /\ imm = {} /\ imm' = mem /\ mem' = {} /\ UNCHANGED <<history, files, snapshots>>
      BY <1>5 DEF SwitchMemTable
    <2>2. Written' = Written /\ Active' = Active
      BY <2>1 DEF Written, Active
    <2>3. Present' = Present
      BY <2>1 DEF Present
    <2> QED
      BY <2>2, <2>3 DEF ReadInv
  <1>6. CASE Asks
    <2>1. UNCHANGED <<history, mem, imm, files, snapshots>>
      BY <1>6 DEF Asks
    <2>2. Active' = Active
      BY <2>1 DEF Active
    <2> QED
      BY <2>1, <2>2, <1>2
  <1> QED
    BY <1>1, <1>3, <1>4, <1>5, <1>6, Steps, ContentWrite, ContentFlush, ContentStart, ContentInstall

-----------------------------------------------------------------------------
(* What a read finds.                                                      *)

\* A table answers with the newest entry it has of those the reader may see.
LEMMA NewestSaved ==
  ASSUME history \in Seq(Keys \X Types), NEW A \in SUBSET Written, NEW k, NEW s,
         NEW e \in Hits(A, k, s), \A o \in Hits(A, k, s) : o[2] <= e[2]
  PROVE  Saved(A, k, s) = IF e[3] = "value" THEN e[2] ELSE NotFound
  <1> DEFINE H == Hits(A, k, s)
             first == FirstOf(H)
  <1>1. H \in SUBSET Written /\ H # {} /\ \A o \in H : o[1] = k
    BY DEF Hits
  <1>2. KeySet(H)
    <2> HIDE DEF H
    <2> QED
      BY <1>1, WrittenTables
  <1>3. first \in H /\ ~Less(e, first)
    <2> HIDE DEF H
    <2>1. e \in H
      BY DEF H
    <2> QED
      BY <1>2, <2>1, FirstAndLast
  <1>4. first[2] <= e[2] /\ first[1] = k /\ e[1] = k /\ e \in Written /\ first \in Written
    BY <1>1, <1>3
  <1>5. /\ e[2] \in Nat /\ first[2] \in Nat
        /\ \A a, b \in Written : a[2] = b[2] => a = b
    BY <1>4, WrittenFacts
  <1> HIDE DEF first, H
  <1>6. first = e
    BY <1>3, <1>4, <1>5 DEF Less
  <1> QED
    BY <1>6 DEF Saved, first, H

\* A search through the levels answers with the newest entry that a reader may
\* see, wherever it is.
LEMMA VersionSearched ==
  ASSUME OrderInv, RangesApart, NEW k \in Nat, NEW s \in Nat,
         NEW l \in Levels, NEW f \in files[l], NEW e \in Hits(f.entries, k, s),
         \A a \in Levels : \A g \in files[a] : \A o \in Hits(g.entries, k, s) : o[2] <= e[2]
  PROVE  VersionGet(k, s) = IF e[3] = "value" THEN e[2] ELSE NotFound
  <1> DEFINE V == {v \in ForEachOverlapping(k, s) : Hits(v[2].entries, k, s) # {}}
             first == FirstVisited(V)
  <1>1. /\ Typed /\ NewerAbove /\ history \in Seq(Keys \X Types)
        /\ FilesTyped /\ Numbered
        /\ \A a \in Levels : \A g \in files[a] : g \in Tables /\ g.entries \in SUBSET Written
    BY TypedFiles DEF OrderInv, Typed
  <1>2. /\ \A a \in Levels \ {0} : Apart(files[a])
        /\ \A a \in Levels \ {0} : Disjoint(files[a])
    <2>1. \A a \in Levels \ {0} : Apart(files[a])
      BY RangesAreApart
    <2>2. \A a \in Levels \ {0} : files[a] \in SUBSET Tables
      BY <1>1
    <2> QED
      BY <2>1, <2>2, ApartDisjoint
  <1>3. \A a \in Levels : /\ InLevel(a, k, s) \subseteq files[a]
                          /\ a # 0 => \A g, h \in InLevel(a, k, s) : g = h
                          /\ \A g \in files[a] : Hits(g.entries, k, s) # {} => g \in InLevel(a, k, s)
    BY <1>1, <1>2, InLevelFacts
  <1>4. <<l, f>> \in V
    <2>1. f \in InLevel(l, k, s)
      BY <1>3
    <2> QED
      BY <2>1 DEF ForEachOverlapping
  <1>5. \A v \in V : /\ v[1] \in Levels /\ v[2] \in InLevel(v[1], k, s) /\ v[2] \in files[v[1]]
                     /\ v = <<v[1], v[2]>> /\ Hits(v[2].entries, k, s) # {}
    BY <1>3 DEF ForEachOverlapping
  <1>6. first \in V /\ \A u \in V \ {first} : NewestFirst(first, u)
    <2>1. V \in SUBSET ForEachOverlapping(k, s) /\ V # {}
      BY <1>4
    <2> HIDE DEF V
    <2> QED
      BY <1>1, <1>2, <2>1, VisitsFacts
  <1>7. VersionGet(k, s) = Saved(first[2].entries, k, s)
    BY <1>4 DEF VersionGet
  <1> HIDE DEF first, V
  <1>8. first = <<l, f>>
    <2> SUFFICES ASSUME first # <<l, f>> PROVE FALSE
      OBVIOUS
    <2> DEFINE a == first[1]
               g == first[2]
    <2>1. /\ a \in Levels /\ g \in files[a] /\ g \in InLevel(a, k, s)
          /\ Hits(g.entries, k, s) # {}
      BY <1>5, <1>6
    <2>2. a < l \/ (a = l /\ g.number > f.number)
      BY <1>4, <1>6 DEF NewestFirst
    <2>3. PICK o \in Hits(g.entries, k, s) : TRUE
      BY <2>1
    <2> HIDE DEF a, g
    <2>4. /\ o \in g.entries /\ o[1] = k /\ e \in f.entries /\ e[1] = k
          /\ o[2] <= e[2] /\ o[2] \in Nat /\ e[2] \in Nat
      <3>1. o \in g.entries /\ o[1] = k /\ e \in f.entries /\ e[1] = k /\ o[2] <= e[2]
        BY <2>1, <2>3 DEF Hits
      <3>2. o \in Written /\ e \in Written
        BY <3>1, <2>1, <1>1
      <3> QED
        BY <3>1, <3>2, <1>1, WrittenFacts
    <2>5. CASE a < l \/ a = 0
      <3>1. o[2] > e[2]
        BY <2>1, <2>2, <2>4, <2>5, <1>1 DEF NewerAbove
      <3> QED
        BY <3>1, <2>4
    <2>6. CASE a = l /\ a # 0 /\ g.number > f.number
      <3>1. g = f
        BY <2>6, <2>1, <1>3
      <3>2. f.number \in Nat
        BY <1>1, TableKeys
      <3> QED
        BY <3>1, <3>2, <2>6
    <2> QED
      BY <2>2, <2>5, <2>6
  <1>9. f.entries \in SUBSET Written /\ \A o \in Hits(f.entries, k, s) : o[2] <= e[2]
    BY <1>1
  <1>10. Saved(f.entries, k, s) = IF e[3] = "value" THEN e[2] ELSE NotFound
    BY <1>1, <1>9, NewestSaved
  <1> QED
    BY <1>7, <1>8, <1>10

\* A read that hits nothing finds nothing.
LEMMA NothingFound ==
  ASSUME Typed, RangesApart, NEW k \in Nat, NEW s \in Nat, Hits(Present, k, s) = {}
  PROVE  Get(k, s) = NotFound
  <1>1. Hits(mem, k, s) = {} /\ Hits(imm, k, s) = {}
    BY DEF Hits, Present
  <1>2. FilesTyped /\ Numbered /\ \A a \in Levels \ {0} : Disjoint(files[a])
    BY TypedFiles, ApartMeansDisjoint, DisjointLevels
  <1>3. \A a \in Levels : InLevel(a, k, s) \subseteq files[a]
    BY <1>2, InLevelFacts
  <1>4. \A v \in ForEachOverlapping(k, s) : v[1] \in Levels /\ v[2] \in files[v[1]]
    BY <1>3 DEF ForEachOverlapping
  <1>5. \A v \in ForEachOverlapping(k, s) : Hits(v[2].entries, k, s) = {}
    BY <1>4, PresentFacts DEF Hits
  <1>6. VersionGet(k, s) = NotFound
    BY <1>5 DEF VersionGet
  <1> QED
    BY <1>1, <1>6 DEF Get

\* DBImpl::Get returns the last write a reader may see.
LEMMA GetsLatest ==
  ASSUME ReadInv, RangesApart, NEW k \in Keys, NEW s \in Active
  PROVE  Get(k, s) = Latest(k, s)
  <1>1. /\ OrderInv /\ Typed /\ history \in Seq(Keys \X Types)
        /\ MemNewer(mem, imm, files)
        /\ mem \in SUBSET Written /\ imm \in SUBSET Written
        /\ \A a \in Levels : \A g \in files[a] : g.entries \in SUBSET Written
    BY TypedFiles DEF ReadInv, OrderInv, Typed
  <1>2. s \in Nat /\ s <= Len(history) /\ k \in Nat /\ Len(history) \in Nat
    BY <1>1, LsmAssumption DEF Active, OrderInv, SnapshotsOK
  <1> DEFINE writes == {i \in 1..s : history[i][1] = k}
  <1>3. /\ \A e \in Written : /\ e[2] \in 1..Len(history) /\ e[2] \in Nat
                              /\ e[1] = history[e[2]][1] /\ e[3] = history[e[2]][2]
        /\ \A a, b \in Written : a[2] = b[2] => a = b
    BY <1>1, WrittenFacts
  <1>4. \A o \in Written : o[1] = k /\ o[2] <= s => o[2] \in writes
    BY <1>2, <1>3
  <1>5. \A e \in Present : e \in Written
    BY <1>1, PresentFacts
  <1>6. CASE writes = {}
    <2>1. Hits(Present, k, s) = {}
      BY <1>4, <1>5, <1>6 DEF Hits
    <2>2. Get(k, s) = NotFound
      BY <2>1, <1>1, <1>2, NothingFound DEF ReadInv
    <2> QED
      BY <2>2, <1>6 DEF Latest
  <1>7. CASE writes # {}
    <2> DEFINE w == Max(writes)
               e == <<k, w, history[w][2]>>
    <2>1. w \in writes /\ \A i \in writes : i <= w
      <3>1. IsFiniteSet(1..s) /\ writes \in SUBSET (1..s) /\ writes \in SUBSET Nat
        <4>1. 1 \in Int /\ s \in Int
          BY <1>2
        <4>2. IsFiniteSet(1..s)
          BY <4>1, FS_Interval
        <4> QED
          BY <4>2
      <3>2. IsFiniteSet(writes)
        BY <3>1, FS_Subset
      <3> HIDE DEF writes
      <3> QED
        BY <3>1, <3>2, <1>7, Bounds
    <2>2. w \in 1..s /\ w \in 1..Len(history) /\ history[w][1] = k
      BY <2>1, <1>2
    <2>3. Latest(k, s) = IF history[w][2] = "deletion" THEN NotFound ELSE w
      BY <1>7 DEF Latest
    <2> HIDE DEF w, writes
    <2>4. e \in Written
      BY <2>2 DEF Written
    <2>5. e[1] = k /\ e[2] = w /\ e[3] = history[w][2] /\ w \in Nat /\ w <= s
      BY <2>2
    <2> HIDE DEF e
    <2>6. e[3] \in {"value", "deletion"}
      BY <2>4, <1>1, WrittenFacts, LsmAssumption
    <2>7. \A o \in Written : o[1] = k /\ o[2] <= s => o[2] <= w
      BY <2>1, <1>4
    <2>8. Latest(k, s) = IF e[3] = "value" THEN e[2] ELSE NotFound
      BY <2>3, <2>5, <2>6
    <2>9. ~Superseded(e, s, Written)
      BY <2>5, <2>7, <1>3 DEF Superseded
    <2>10. e \in Present \/ Gone(e, Present)
      BY <2>4, <2>5, <2>9 DEF ReadInv, Content
    <2>11. CASE Gone(e, Present)
      <3>1. Hits(Present, k, s) = {}
        <4> SUFFICES ASSUME NEW o \in Hits(Present, k, s) PROVE FALSE
          OBVIOUS
        <4>1. o \in Present /\ o[1] = k /\ o[2] <= s
          BY DEF Hits
        <4>2. o[2] > w /\ o[2] <= w /\ o[2] \in Nat
          BY <4>1, <2>5, <2>7, <2>11, <1>3, <1>5 DEF Gone
        <4> QED
          BY <4>2, <2>5
      <3>2. Get(k, s) = NotFound
        BY <3>1, <1>1, <1>2, NothingFound DEF ReadInv
      <3> QED
        BY <3>2, <2>8, <2>11 DEF Gone
    <2>12. CASE e \in mem
      <3>1. e \in Hits(mem, k, s) /\ \A o \in Hits(mem, k, s) : o[2] <= e[2]
        BY <2>5, <2>7, <2>12, <1>1 DEF Hits
      <3>2. Saved(mem, k, s) = IF e[3] = "value" THEN e[2] ELSE NotFound
        BY <3>1, <1>1, NewestSaved
      <3> QED
        BY <3>1, <3>2, <2>8 DEF Get
    <2>13. CASE e \in imm
      <3>1. e \in Hits(imm, k, s) /\ \A o \in Hits(imm, k, s) : o[2] <= e[2]
        BY <2>5, <2>7, <2>13, <1>1 DEF Hits
      <3>2. Saved(imm, k, s) = IF e[3] = "value" THEN e[2] ELSE NotFound
        BY <3>1, <1>1, NewestSaved
      <3>3. Hits(mem, k, s) = {}
        <4> SUFFICES ASSUME NEW o \in Hits(mem, k, s) PROVE FALSE
          OBVIOUS
        <4>1. o \in mem /\ o[2] > e[2] /\ o[2] <= w /\ o[2] \in Nat
          BY <2>7, <2>13, <1>1, <1>3 DEF Hits, MemNewer
        <4> QED
          BY <4>1, <2>5
      <3> QED
        BY <3>1, <3>2, <3>3, <2>8 DEF Get
    <2>14. CASE \E l \in Levels : \E f \in files[l] : e \in f.entries
      <3>1. PICK l \in Levels : \E f \in files[l] : e \in f.entries
        BY <2>14
      <3>2. PICK f \in files[l] : e \in f.entries
        BY <3>1
      <3>3. \A o \in mem \cup imm : o[2] > e[2] /\ o \in Written
        BY <3>2, <1>1 DEF MemNewer
      <3>4. Hits(mem \cup imm, k, s) = {}
        <4> SUFFICES ASSUME NEW o \in Hits(mem \cup imm, k, s) PROVE FALSE
          OBVIOUS
        <4>1. o[2] > e[2] /\ o[2] <= w /\ o[2] \in Nat
          BY <3>3, <2>7, <1>3 DEF Hits
        <4> QED
          BY <4>1, <2>5
      <3>5. Hits(mem, k, s) = {} /\ Hits(imm, k, s) = {}
        BY <3>4 DEF Hits
      <3>6. e \in Hits(f.entries, k, s)
        BY <3>2, <2>5 DEF Hits
      <3>7. \A a \in Levels : \A g \in files[a] : \A o \in Hits(g.entries, k, s) : o[2] <= e[2]
        BY <1>1, <2>5, <2>7 DEF Hits
      <3>8. VersionGet(k, s) = IF e[3] = "value" THEN e[2] ELSE NotFound
        BY <3>6, <3>7, <1>1, <1>2, VersionSearched
      <3> QED
        BY <3>5, <3>8, <2>8 DEF Get
    <2> QED
      BY <2>10, <2>11, <2>12, <2>13, <2>14, PresentFacts
  <1> QED
    BY <1>6, <1>7

\* The invariant gives the property of the reads.
LEMMA ReadsFromInv ==
  ASSUME ReadInv, RangesApart
  PROVE  ReadsLatest
  <1>1. snapshots \in Seq(Nat)
    BY DEF ReadInv, OrderInv, SnapshotsOK
  <1>2. ToSet(snapshots) \cup {LastSequence} = Active
    BY <1>1 DEF ToSet, Active, LastSequence
  <1> QED
    BY <1>2, GetsLatest DEF ReadsLatest

\* In an empty database there is nothing to read.
LEMMA InitRead == Init => ReadInv
  <1> SUFFICES ASSUME Init PROVE ReadInv
    OBVIOUS
  <1>1. history = <<>> /\ Len(history) = 0
    BY DEF Init
  <1>2. Written = {}
    BY <1>1 DEF Written
  <1> QED
    BY <1>2, InitOrder DEF ReadInv, Content

\* As long as no user key has entries in two files of a level, DBImpl::Get returns
\* the last write to its key at every snapshot that is held, and what is newer lies
\* above: whatever is being flushed, moved or merged, and whatever fails.
THEOREM ReadsWhileApart ==
  Spec /\ []RangesApart => [](ReadsLatest /\ NewerAbove)
  <1>1. ReadInv /\ RangesApart /\ [Next]_vars => ReadInv'
    BY OrderStep, ContentStep DEF ReadInv
  <1>2. ReadInv /\ RangesApart => ReadsLatest /\ NewerAbove
    BY ReadsFromInv DEF ReadInv, OrderInv
  <1> QED
    BY <1>1, <1>2, InitRead, PTL DEF Spec

-----------------------------------------------------------------------------
(* Without snapshots no user key has entries in two files of a level.      *)

\* A compaction reads nothing newer than what it took for the smallest snapshot.
AllBelow(state) ==
    state # None =>
       \A f \in state.c.in0 \cup state.c.in1 :
          \A e \in f.entries : e[2] <= state.smallest_snapshot

ApartInv ==
    /\ ReadInv /\ RangesApart /\ CompApart(comp, files)
    /\ snapshots = <<>> /\ AllBelow(comp)

\* A flushed file touches no range of its level.
LEMMA ApartFlush ==
  ASSUME Typed, RangesApart, NEW level, NEW f, Flushes(level, f)
  PROVE  RangesApart'
  <1>1. /\ level \in Levels
        /\ level # 0 =>
              \A l \in 0..level : \A g \in files[l] :
                 AfterFile(smallest(f)[1], g) \/ BeforeFile(largest(f)[1], g)
        /\ files' = Added(level, f)
    BY DEF Flushes
  <1>2. \A l \in Levels : files'[l] = IF l = level THEN files[l] \cup {f} ELSE files[l]
    BY <1>1 DEF Added
  <1>3. ASSUME NEW l \in Levels \ {0} PROVE Apart(files'[l])
    <2>1. Apart(files[l])
      BY RangesAreApart
    <2>2. CASE l # level
      BY <2>1, <2>2, <1>2
    <2>3. CASE l = level
      <3>1. l \in 0..level /\ level # 0
        BY <2>3, <1>1, AboutLevels DEF LevelFacts
      <3>2. \A g \in files[l] : AfterFile(smallest(f)[1], g) \/ BeforeFile(largest(f)[1], g)
        BY <3>1, <1>1
      <3>3. \A g \in files[l] : AfterFile(smallest(f)[1], g) \/ AfterFile(smallest(g)[1], f)
        <4> TAKE g \in files[l]
        <4>1. BeforeFile(largest(f)[1], g) => AfterFile(smallest(g)[1], f)
          BY DEF BeforeFile, AfterFile
        <4> QED
          BY <4>1, <3>2
      <3>4. files'[l] = files[l] \cup {f}
        BY <2>3, <1>2
      <3> QED
        BY <3>3, <3>4, <2>1 DEF Apart
    <2> QED
      BY <2>2, <2>3
  <1> QED
    BY <1>3 DEF RangesApart, Apart

\* A file moved down touches no range, and a compaction that starts knows the
\* newest sequence number.
LEMMA ApartStart ==
  ASSUME Typed, RangesApart, snapshots = <<>>, NEW c, Starts(c)
  PROVE  RangesApart' /\ AllBelow(comp')
  <1>1. Chosen(c) /\ comp = None
    BY DEF Starts
  <1>2. /\ c.level \in Levels /\ c.level + 1 \in Levels /\ c.level # c.level + 1
        /\ c.in0 \in SUBSET files[c.level] /\ c.in1 \in SUBSET files[c.level + 1]
        /\ \A g \in files[c.level + 1] : Overlaps(g, c.in0) <=> g \in c.in1
    BY <1>1, AboutLevels DEF Chosen, LevelFacts
  <1>3. CASE /\ c.in1 = {} /\ (\E f : c.in0 = {f})
             /\ files' = Replaced(c, c.in0) /\ file_to_compact' = None /\ comp' = comp
    <2>1. PICK f : c.in0 = {f}
      BY <1>3
    <2>2. \A l \in Levels : files'[l] = IF l = c.level THEN files[l] \ {f}
                                        ELSE IF l = c.level + 1 THEN files[l] \cup {f}
                                        ELSE files[l]
      BY <1>3, <2>1 DEF Replaced
    <2>3. ASSUME NEW g \in files[c.level + 1]
          PROVE  AfterFile(smallest(g)[1], f) \/ AfterFile(smallest(f)[1], g)
      <3>1. ~Overlaps(g, c.in0)
        BY <1>2, <1>3
      <3>2. f \in Tables /\ g \in Tables
        BY <1>2, <2>1, TypedFiles
      <3>3. /\ smallest(f)[1] \in Nat /\ largest(f)[1] \in Nat
            /\ smallest(g)[1] \in Nat /\ largest(g)[1] \in Nat
        BY <3>2, TableKeys
      <3> QED
        BY <3>1, <3>3, <2>1 DEF Overlaps, AfterFile
    <2>4. ASSUME NEW l \in Levels \ {0} PROVE Apart(files'[l])
      <3>1. Apart(files[l])
        BY RangesAreApart
      <3>2. CASE l = c.level
        BY <3>1, <3>2, <2>2 DEF Apart
      <3>3. CASE l = c.level + 1
        <4>1. files'[l] = files[l] \cup {f}
          BY <3>3, <1>2, <2>2
        <4> QED
          BY <4>1, <3>1, <3>3, <2>3 DEF Apart
      <3>4. CASE l # c.level /\ l # c.level + 1
        BY <3>1, <3>4, <2>2
      <3> QED
        BY <3>2, <3>3, <3>4
    <2> QED
      BY <2>4, <1>1, <1>3 DEF RangesApart, Apart, AllBelow
  <1>4. CASE comp' = CompactionState(c) /\ UNCHANGED <<files, file_to_compact>>
    <2>1. comp'.c = c /\ comp'.smallest_snapshot = Len(history)
      BY <1>4 DEF CompactionState, SmallestSnapshot, LastSequence
    <2>2. \A f \in c.in0 \cup c.in1 : f.entries \in SUBSET Written
      BY <1>2, TypedFiles
    <2>3. \A e \in Written : e[2] <= Len(history)
      BY WrittenFacts DEF Typed
    <2>4. AllBelow(comp')
      BY <2>1, <2>2, <2>3 DEF AllBelow
    <2> QED
      BY <2>4, <1>4 DEF RangesApart
  <1> QED
    BY <1>3, <1>4 DEF Starts

\* The outputs of a compaction share no user key: of each it keeps one entry.
LEMMA ApartInstall ==
  ASSUME ApartInv, NEW out, Installs(out), Typed', LevelsDisjoint'
  PROVE  RangesApart'
  <1>1. /\ comp # None /\ files' = Replaced(comp.c, NewFiles(out))
        /\ Typed /\ RangesApart /\ CompReads(comp, files) /\ AllBelow(comp)
    BY DEF Installs, ApartInv, ReadInv, OrderInv
  <1> DEFINE low == comp.c.level + 1
  <1>2. PICK new : new = NewFiles(out)
    OBVIOUS
  <1>3. \A f \in new : f \in Tables /\ f.entries \in SUBSET Inputs /\ f.entries \subseteq Kept
    BY <1>1, <1>2, NewFilesFacts
  <1>4. /\ comp.c.level \in Levels /\ low \in Levels /\ comp.c.level # low /\ low # 0
    <2>1. comp.c.level \in Levels /\ low \in Levels
      BY <1>1, TypedInputs
    <2>2. comp.c.level \in Nat
      BY <2>1, AboutLevels
    <2> QED
      BY <2>1, <2>2
  <1>5. \A l \in Levels : files'[l] = IF l = comp.c.level THEN files[l] \ comp.c.in0
                                      ELSE IF l = low THEN (files[l] \ comp.c.in1) \cup new
                                      ELSE files[l]
    BY <1>1, <1>2 DEF Replaced
  <1>6. \A f \in files[low] \ comp.c.in1 : Strange(f.entries, Inputs)
    BY <1>1 DEF CompReads, Inputs, EntriesOf
  <1>7. \A e \in Inputs : e[2] <= comp.smallest_snapshot
    BY <1>1 DEF AllBelow, Inputs
  <1> HIDE DEF low
  <1>8. files'[low] = (files[low] \ comp.c.in1) \cup new
    BY <1>4, <1>5
  <1>9. \A f \in files'[low] : f \in Tables
    BY <1>1, <1>3, <1>4, <1>8, TypedFiles
  <1>10. ASSUME NEW f \in files'[low], NEW g \in files'[low], f # g, Less(largest(f), smallest(g))
         PROVE  AfterFile(smallest(g)[1], f)
    <2>1. f \in Tables /\ g \in Tables
      BY <1>9
    <2>2. /\ largest(f) \in f.entries /\ smallest(g) \in g.entries
          /\ largest(f) \in InternalKeys /\ smallest(g) \in InternalKeys
          /\ largest(f)[1] \in Nat /\ smallest(g)[1] \in Nat
          /\ smallest(f)[1] \in Nat /\ largest(g)[1] \in Nat
          /\ smallest(f)[1] <= largest(f)[1] /\ smallest(g)[1] <= largest(g)[1]
      BY <2>1, TableKeys
    <2>3. largest(f)[1] <= smallest(g)[1]
      BY <2>2, <1>10, LessOrders
    <2>4. largest(f)[1] # smallest(g)[1]
      <3> SUFFICES ASSUME largest(f)[1] = smallest(g)[1] PROVE FALSE
        OBVIOUS
      <3>1. CASE f \in new /\ g \in new
        <4>1. /\ largest(f) \in Inputs /\ smallest(g) \in Kept
              /\ largest(f)[2] <= comp.smallest_snapshot
          BY <3>1, <2>2, <1>3, <1>7
        <4>2. largest(f)[2] > smallest(g)[2]
          BY <2>2, <1>10 DEF Less
        <4>3. Hidden(smallest(g))
          BY <4>1, <4>2 DEF Hidden
        <4> QED
          BY <4>1, <4>3 DEF Kept
      <3>2. CASE f \in new /\ g \in files[low] \ comp.c.in1
        <4>1. Strange(g.entries, Inputs) /\ largest(f) \in Inputs
          BY <3>2, <2>2, <1>3, <1>6
        <4> QED
          BY <4>1, <2>2 DEF Strange
      <3>3. CASE f \in files[low] \ comp.c.in1 /\ g \in new
        <4>1. Strange(f.entries, Inputs) /\ smallest(g) \in Inputs
          BY <3>3, <2>2, <1>3, <1>6
        <4> QED
          BY <4>1, <2>2 DEF Strange
      <3>4. CASE f \in files[low] /\ g \in files[low]
        <4>1. largest(f)[1] < smallest(g)[1] \/ largest(g)[1] < smallest(f)[1]
          BY <3>4, <2>2, <1>1, <1>4, <1>10 DEF RangesApart, AfterFile
        <4> QED
          BY <4>1, <2>2
      <3> QED
        BY <3>1, <3>2, <3>3, <3>4, <1>8
    <2> QED
      BY <2>2, <2>3, <2>4 DEF AfterFile
  <1>11. ASSUME NEW l \in Levels \ {0}, NEW f \in files'[l], NEW g \in files'[l], f # g
         PROVE  AfterFile(smallest(g)[1], f) \/ AfterFile(smallest(f)[1], g)
    <2>1. CASE l = low
      <3>1. Less(largest(f), smallest(g)) \/ Less(largest(g), smallest(f))
        BY <1>11 DEF LevelsDisjoint
      <3> QED
        BY <3>1, <2>1, <1>10, <1>11
    <2>2. CASE l # low
      <3>1. f \in files[l] /\ g \in files[l]
        BY <2>2, <1>5
      <3> QED
        BY <3>1, <1>1, <1>11 DEF RangesApart
    <2> QED
      BY <2>1, <2>2
  <1> QED
    BY <1>11 DEF RangesApart

\* An empty database has nothing that could touch.
LEMMA InitApart == Init => ApartInv
  <1> SUFFICES ASSUME Init PROVE ApartInv
    OBVIOUS
  <1>1. comp = None /\ snapshots = <<>> /\ \A level \in Levels : files[level] = {}
    BY DEF Init
  <1> QED
    BY <1>1, InitRead, InitDisjoint DEF ApartInv, DisjointInv, RangesApart, AllBelow

\* Without snapshots every step keeps ranges apart.
LEMMA ApartStep ==
  ASSUME MaxSnapshots = 0, ApartInv, [Next]_vars
  PROVE  ApartInv'
  <1>1. /\ Typed /\ RangesApart /\ LevelsDisjoint /\ DisjointInv
        /\ snapshots = <<>> /\ AllBelow(comp) /\ ReadInv
    BY ApartMeansDisjoint DEF ApartInv, ReadInv, OrderInv, DisjointInv
  <1>2. ReadInv'
    BY <1>1, OrderStep, ContentStep DEF ReadInv
  <1>3. Typed' /\ LevelsDisjoint' /\ CompApart(comp', files')
    BY <1>1, DisjointStep DEF DisjointInv
  <1>4. CASE UNCHANGED <<files, comp, snapshots>>
    BY <1>1, <1>2, <1>3, <1>4 DEF ApartInv, RangesApart
  <1>5. CASE \E level, f : Flushes(level, f)
    <2>1. PICK level, f : Flushes(level, f)
      BY <1>5
    <2>2. RangesApart'
      BY <2>1, <1>1, ApartFlush
    <2> QED
      BY <2>1, <2>2, <1>1, <1>2, <1>3 DEF ApartInv, Flushes
  <1>6. CASE \E c : Starts(c)
    <2>1. PICK c : Starts(c)
      BY <1>6
    <2>2. RangesApart' /\ AllBelow(comp')
      BY <2>1, <1>1, ApartStart
    <2> QED
      BY <2>1, <2>2, <1>1, <1>2, <1>3 DEF ApartInv, Starts
  <1>7. CASE \E out : Installs(out)
    <2>1. PICK out : Installs(out)
      BY <1>7
    <2>2. RangesApart'
      BY <2>1, <1>3, ApartInstall
    <2>3. comp' = None /\ snapshots' = <<>>
      BY <2>1, <1>1 DEF Installs
    <2> QED
      BY <2>2, <2>3, <1>2, <1>3 DEF ApartInv, AllBelow
  <1>8. ~GetSnapshot /\ ~\E i \in DOMAIN snapshots : ReleaseSnapshot(i)
    BY <1>1 DEF GetSnapshot
  <1>9. CASE UNCHANGED <<files, snapshots>> /\ comp' = None
    BY <1>1, <1>2, <1>3, <1>9 DEF ApartInv, RangesApart, AllBelow
  <1> QED
    BY <1>1, <1>4, <1>5, <1>6, <1>7, <1>8, <1>9, Steps DEF Write, SwitchMemTable, Asks

\* Where nobody takes snapshots, as in the persistence of the database SDK, no user
\* key ever has entries in two files of a level: a compaction keeps one entry of
\* each key, and cuts its outputs between.
THEOREM StayApart ==
  ASSUME MaxSnapshots = 0
  PROVE  Spec => []RangesApart
  <1>1. ApartInv /\ [Next]_vars => ApartInv'
    BY ApartStep
  <1>2. ApartInv => RangesApart
    BY DEF ApartInv
  <1> QED
    BY <1>1, <1>2, InitApart, PTL DEF Spec

\* Where nobody takes snapshots DBImpl::Get always returns the last write to its
\* key, and entries never hop across levels.
THEOREM ReadsAlwaysLatest ==
  ASSUME MaxSnapshots = 0
  PROVE  Spec => [](ReadsLatest /\ NewerAbove)
  BY StayApart, ReadsWhileApart, PTL
=============================================================================
