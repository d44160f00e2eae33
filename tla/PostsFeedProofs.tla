--------------------------- MODULE PostsFeedProofs ---------------------------
(***************************************************************************)
(* Theorems about PostsFeed, for every set of keys and values and every    *)
(* bound.                                                                  *)
(***************************************************************************)
EXTENDS PostsFeed, FiniteSetTheorems, SequenceTheorems, WellFoundedInduction,
        TLAPS

-----------------------------------------------------------------------------
(***************************************************************************)
(* Facts about naturals and sequences.                                     *)
(***************************************************************************)

\* The naturals are well founded under <.
LEMMA NatLess == IsWellFoundedOn({p \in Nat \X Nat : p[1] < p[2]}, Nat)
  BY NatLessThanWellFounded DEF OpToRel

\* Every nonempty set of naturals has a least element.
LEMMA LeastNatural ==
  ASSUME NEW T \in SUBSET Nat, T # {}
  PROVE  \E m \in T : \A y \in T : m <= y
  <1> DEFINE R == {p \in Nat \X Nat : p[1] < p[2]}
  <1>1. PICK m \in T : \A y \in T : ~(<<y, m>> \in R)
    <2>1. IsWellFoundedOn(R, Nat)
      BY NatLess
    <2> HIDE DEF R
    <2> QED
      BY <2>1, WFMin
  <1>2. ASSUME NEW y \in T PROVE m <= y
    <2>1. ~(y < m)
      BY <1>1
    <2>2. y \in Nat /\ m \in Nat
      OBVIOUS
    <2> QED
      BY <2>1, <2>2
  <1> QED
    BY <1>2

\* A function on 1..n is a sequence.
LEMMA FunctionIsSeq ==
  ASSUME NEW S, NEW n \in Nat, NEW f \in [1..n -> S]
  PROVE  f \in Seq(S) /\ Len(f) = n
  OBVIOUS

\* RemoveAt drops one element and keeps the others in order.
LEMMA RemoveAtFacts ==
  ASSUME NEW S, NEW s \in Seq(S), NEW i \in 1..Len(s)
  PROVE  /\ RemoveAt(s, i) \in Seq(S)
         /\ Len(RemoveAt(s, i)) = Len(s) - 1
         /\ \A j \in 1..(Len(s) - 1) :
               RemoveAt(s, i)[j] = IF j < i THEN s[j] ELSE s[j + 1]
  <1> DEFINE t == SubSeq(s, 1, i - 1)
             u == SubSeq(s, i + 1, Len(s))
  <1>1. /\ t \in Seq(S)
        /\ Len(t) = i - 1
        /\ \A j \in 1..(i - 1) : t[j] = s[j]
    BY SubSeqProperties
  <1>2. /\ u \in Seq(S)
        /\ Len(u) = Len(s) - i
        /\ \A j \in 1..(Len(s) - i) : u[j] = s[i + j]
    BY SubSeqProperties
  <1>3. RemoveAt(s, i) = t \o u
    BY DEF RemoveAt
  <1> HIDE DEF t, u
  <1>4. /\ t \o u \in Seq(S)
        /\ Len(t \o u) = Len(t) + Len(u)
        /\ \A j \in 1..(Len(t) + Len(u)) :
             (t \o u)[j] = IF j <= Len(t) THEN t[j] ELSE u[j - Len(t)]
    BY <1>1, <1>2, ConcatProperties
  <1>5. Len(s) \in Nat /\ i \in Nat /\ Len(t) + Len(u) = Len(s) - 1
    BY <1>1, <1>2
  <1>6. ASSUME NEW j \in 1..(Len(s) - 1)
        PROVE  (t \o u)[j] = IF j < i THEN s[j] ELSE s[j + 1]
    <2>1. CASE j < i
      BY <1>1, <1>4, <1>5, <2>1
    <2>2. CASE ~(j < i)
      <3>1. (t \o u)[j] = u[j - (i - 1)]
        BY <1>1, <1>4, <1>5, <2>2
      <3>2. j - (i - 1) \in 1..(Len(s) - i) /\ i + (j - (i - 1)) = j + 1
        BY <1>5, <2>2
      <3> QED
        BY <1>2, <2>2, <3>1, <3>2
    <2> QED
      BY <2>1, <2>2
  <1> QED
    BY <1>3, <1>4, <1>5, <1>6

-----------------------------------------------------------------------------
(***************************************************************************)
(* The operators PostsFeed is built from.                                  *)
(***************************************************************************)

\* FEventGenerator: the events between two views are events.
LEMMA DiffType ==
  ASSUME NEW old \in [Keys -> Vals \cup {Null}],
         NEW new \in [Keys -> Vals \cup {Null}]
  PROVE  Diff(old, new) \subseteq Event
  BY DEF Diff, Event, Ops

\* Two views differ in one event per key.
LEMMA OneEventPerKey ==
  ASSUME NEW old, NEW new,
         NEW e \in Diff(old, new), NEW f \in Diff(old, new), e.key = f.key
  PROVE  e = f
  BY DEF Diff

LEMMA DiffFinite ==
  ASSUME NEW old \in [Keys -> Vals \cup {Null}],
         NEW new \in [Keys -> Vals \cup {Null}]
  PROVE  IsFiniteSet(Diff(old, new))
  <1> DEFINE E == Diff(old, new)
             f == [e \in E |-> e.key]
  <1>1. f \in [E -> Keys]
    BY DiffType DEF Event
  <1>2. \A d, e \in E : f[d] = f[e] => d = e
    BY OneEventPerKey
  <1>3. f \in Injection(E, Keys)
    BY <1>1, <1>2 DEF Injection, IsInjective
  <1> QED
    BY <1>3, FS_Injection, ConstantsAssumption

\* What the SDK delivers for a set of events is a sequence of them that has
\* each of them.
LEMMA BatchesType ==
  ASSUME NEW E, E \subseteq Event, IsFiniteSet(E), NEW s \in Batches(E)
  PROVE  /\ s \in Seq(Event)
         /\ \A i \in 1..Len(s) : s[i] \in E
         /\ \A e \in E : \E i \in 1..Len(s) : s[i] = e
         /\ \A i, j \in 1..Len(s) : i < j => Before(s[i], s[j])
  <1>1. Cardinality(E) \in Nat
    BY FS_CardinalityType
  <1>2. s \in [1..Cardinality(E) -> Event] /\ s \in [1..Cardinality(E) -> E]
    BY DEF Batches
  <1>3. s \in Seq(Event) /\ Len(s) = Cardinality(E)
    BY <1>1, <1>2, FunctionIsSeq
  <1> QED
    BY <1>2, <1>3 DEF Batches

\* The tasks of the shared queue carry what their kind needs.
LEMMA CallType ==
  ASSUME NEW c \in Call
  PROVE  /\ c.call = "observe" => c.op \in Ops
         /\ c.call = "set" => c.key \in OwnKeys /\ c.val \in Vals
  BY DEF Call, listenTo, Ops

LEMMA ListenToType == listenTo \in Seq(Call)
  <1>1. \A i \in 1..3 : listenTo[i] \in Call
    BY DEF Call
  <1>2. DOMAIN listenTo = 1..3 /\ listenTo \in Seq({listenTo[1], listenTo[2], listenTo[3]})
    BY DEF listenTo
  <1> QED
    BY <1>1, <1>2 

\* index(of:) finds the first post with the id when there is one.
LEMMA IndexOfFacts ==
  ASSUME posts \in Seq(Post), NEW id, Occurs(id)
  PROVE  /\ IndexOf(id) \in 1..Len(posts)
         /\ posts[IndexOf(id)].id = id
  <1> DEFINE T == {i \in DOMAIN posts : posts[i].id = id}
  <1>1. T \in SUBSET Nat /\ T # {}
    BY DEF Occurs
  <1>2. PICK m \in T : \A y \in T : m <= y
    <2> HIDE DEF T
    <2> QED
      BY <1>1, LeastNatural
  <1>3. /\ m \in DOMAIN posts
        /\ posts[m].id = id
        /\ \A j \in 1..(m - 1) : posts[j].id # id
    BY <1>2
  <1>4. /\ IndexOf(id) \in DOMAIN posts
        /\ posts[IndexOf(id)].id = id
    BY <1>3 DEF IndexOf
  <1> QED
    BY <1>4

-----------------------------------------------------------------------------
(***************************************************************************)
(* Type correctness.                                                       *)
(***************************************************************************)

\* A step of the SDK that moves its view to new keeps the types of the view
\* and of the events it raises.
LEMMA UpdateType ==
  ASSUME TypeOK, NEW new \in [Keys -> Vals \cup {Null}], Update(new)
  PROVE  raising' \in Seq(Event) /\ unheard' \subseteq Keys
  <1>1. cache \in [Keys -> Vals \cup {Null}]
    BY DEF TypeOK, View
  <1> DEFINE E == Diff(cache, new)
             H == {e \in E : e.op \in observers}
  <1>2. E \subseteq Event /\ IsFiniteSet(E)
    BY <1>1, DiffType, DiffFinite
  <1>3. H \subseteq Event /\ IsFiniteSet(H)
    BY <1>2, FS_Subset
  <1>4. PICK s \in Batches(H) : raising' = s
    BY DEF Update
  <1>5. s \in Seq(Event)
    BY <1>3, <1>4, BatchesType
  <1>6. Lost(E) \subseteq Keys
    BY <1>2 DEF Lost, Event
  <1>7. unheard' = unheard \cup Lost(E)
    BY DEF Update
  <1> QED
    BY <1>4, <1>5, <1>6, <1>7 DEF TypeOK

\* The initial states are well typed.
LEMMA TypeInit == Init => TypeOK
  <1> SUFFICES ASSUME Init PROVE TypeOK
    OBVIOUS
  <1>1. sharedQueue \in Seq(Call) /\ observers \subseteq Ops
    BY ListenToType DEF Init
  <1>2. raising \in Seq(Event) /\ mainQueue \in Seq(Event \cup {Refresh})
    BY DEF Init
  <1>3. posts \in Seq(Post) /\ shown \in Seq(Post)
    BY DEF Init
  <1> QED
    BY <1>1, <1>2, <1>3 DEF Init, TypeOK

\* Every step keeps the types.
LEMMA TypeNext == TypeOK /\ [Next]_vars => TypeOK'
  <1> SUFFICES ASSUME TypeOK, [Next]_vars PROVE TypeOK'
    OBVIOUS
  <1>1. CASE Launch
    BY <1>1 DEF Launch, reloadData, contentDependency, TypeOK, View
  <1>2. ASSUME NEW k \in OwnKeys, NEW v \in Vals, SendPost(k, v)
        PROVE  TypeOK'
    <2>1. [call |-> "set", key |-> k, val |-> v] \in Call
      BY <1>2 DEF SendPost, Call
    <2> QED
      BY <1>2, <2>1 DEF SendPost, TypeOK, View
  <1>3. CASE DeletePosts
    <2>1. [call |-> "remove"] \in Call
      BY DEF Call
    <2> QED
      BY <1>3, <2>1 DEF DeletePosts, TypeOK, View
  <1>4. CASE Observe
    <2> DEFINE op == Head(sharedQueue).op
               E  == IF op = "added" THEN Diff([k \in Keys |-> Null], cache)
                                     ELSE {}
    <2>1. Head(sharedQueue) \in Call /\ Tail(sharedQueue) \in Seq(Call)
      BY <1>4 DEF Observe, TypeOK
    <2>2. op \in Ops
      BY <1>4, <2>1, CallType DEF Observe
    <2>3. E \subseteq Event /\ IsFiniteSet(E)
      BY DiffType, DiffFinite, FS_EmptySet DEF TypeOK, View
    <2>4. PICK s \in Batches(E) : raising' = s
      BY <1>4 DEF Observe
    <2>5. raising' \in Seq(Event)
      <3> HIDE DEF E
      <3> QED
        BY <2>3, <2>4, BatchesType
    <2>6. unheard' \subseteq Keys
      <3>1. unheard' = unheard \cup {e.key : e \in {f \in E : f.val \in Malformed}}
        BY <1>4 DEF Observe
      <3> HIDE DEF E
      <3> QED
        BY <2>3, <3>1 DEF Event, TypeOK
    <2>7. observers' \subseteq Ops /\ sharedQueue' \in Seq(Call)
      BY <1>4, <2>1, <2>2 DEF Observe, TypeOK
    <2> QED
      BY <1>4, <2>5, <2>6, <2>7 DEF Observe, TypeOK, View
  <1>5. CASE LocalSet
    <2> DEFINE c   == Head(sharedQueue)
               new == [cache EXCEPT ![c.key] = c.val]
    <2>1. c \in Call /\ Tail(sharedQueue) \in Seq(Call)
      BY <1>5 DEF LocalSet, TypeOK
    <2>2. c.key \in OwnKeys /\ c.val \in Vals
      BY <1>5, <2>1, CallType DEF LocalSet
    <2>3. new \in View(used \cup {c.key}) /\ new \in [Keys -> Vals \cup {Null}]
      BY <2>2, ConstantsAssumption DEF TypeOK, View
    <2>4. raising' \in Seq(Event) /\ unheard' \subseteq Keys
      BY <1>5, <2>3, UpdateType DEF LocalSet
    <2>5. cache' = new /\ used' = used \cup {c.key}
      BY <1>5 DEF LocalSet, Update
    <2>6. cache' \in View(used)' /\ used' \subseteq OwnKeys
      BY <2>2, <2>3, <2>5 DEF TypeOK, View
    <2> QED
      BY <1>5, <2>1, <2>4, <2>6 DEF LocalSet, TypeOK
  <1>6. CASE LocalRemove
    <2>1. Tail(sharedQueue) \in Seq(Call)
      BY <1>6 DEF LocalRemove, TypeOK
    <2>2. [k \in Keys |-> Null] \in [Keys -> Vals \cup {Null}]
      OBVIOUS
    <2>3. raising' \in Seq(Event) /\ unheard' \subseteq Keys
      BY <1>6, <2>2, UpdateType DEF LocalRemove
    <2>4. cache' \in View(used)'
      BY <1>6, ConstantsAssumption DEF LocalRemove, Update, View, TypeOK
    <2> QED
      BY <1>6, <2>1, <2>3, <2>4 DEF LocalRemove, TypeOK
  <1>7. ASSUME NEW new \in View(used), RemoteChange(new)
        PROVE  TypeOK'
    <2>1. raising' \in Seq(Event) /\ unheard' \subseteq Keys
      BY <1>7, UpdateType DEF RemoteChange, View
    <2>2. cache' \in View(used)'
      BY <1>7 DEF RemoteChange, Update, View
    <2> QED
      BY <1>7, <2>1, <2>2 DEF RemoteChange, TypeOK
  <1>8. CASE Revoke
    BY <1>8 DEF Revoke, TypeOK, View
  <1>9. CASE Dispatch
    BY <1>9 DEF Dispatch, TypeOK, View
  <1>10. CASE MainStep
    <2>1. mainQueue # << >> /\ mainQueue \in Seq(Event \cup {Refresh})
      BY <1>10 DEF MainStep, RunAdded, RunUpdated, RunRemoved, RunRefresh, Runs,
                   TypeOK
    <2>2. Head(mainQueue) \in Event \cup {Refresh}
          /\ Tail(mainQueue) \in Seq(Event \cup {Refresh})
      BY <2>1
    <2>3. ASSUME NEW list \in Seq(Post), Assign(list) PROVE TypeOK'
      BY <2>2, <2>3 DEF Assign, TypeOK, View
    <2>4. ASSUME Skip PROVE TypeOK'
      BY <2>2, <2>4 DEF Skip, TypeOK, View
    <2>5. ASSUME Head(mainQueue).op \in Ops PROVE HeadPost \in Post
      BY <2>2, <2>5 DEF HeadPost, Post, Event, Refresh, Ops
    <2>6. CASE RunAdded
      <3>1. HeadPost \in Post
        BY <2>5, <2>6 DEF RunAdded, Runs, Ops
      <3>2. Append(posts, HeadPost) \in Seq(Post)
        BY <3>1 DEF TypeOK
      <3> QED
        BY <2>3, <2>4, <2>6, <3>2 DEF RunAdded
    <2>7. CASE RunUpdated
      <3>1. HeadPost \in Post
        BY <2>5, <2>7 DEF RunUpdated, Runs, Ops
      <3>2. ASSUME Occurs(HeadPost.id)
            PROVE  ReplaceAt(posts, IndexOf(HeadPost.id), HeadPost) \in Seq(Post)
        BY <3>1, <3>2, IndexOfFacts DEF TypeOK, ReplaceAt
      <3> QED
        BY <2>3, <2>4, <2>7, <3>2 DEF RunUpdated
    <2>8. CASE RunRemoved
      <3>1. ASSUME Occurs(HeadPost.id)
            PROVE  RemoveAt(posts, IndexOf(HeadPost.id)) \in Seq(Post)
        BY <3>1, IndexOfFacts, RemoveAtFacts DEF TypeOK
      <3> QED
        BY <2>3, <2>4, <2>8, <3>1 DEF RunRemoved
    <2>9. CASE RunRefresh
      BY <2>2, <2>9 DEF RunRefresh, setDependency, reloadData, contentDependency, TypeOK, View
    <2> QED
      BY <1>10, <2>6, <2>7, <2>8, <2>9 DEF MainStep
  <1>11. ASSUME NEW stored \in View(used), Relaunch(stored)
         PROVE  TypeOK'
    <2>1. sharedQueue' \in Seq(Call) /\ observers' \subseteq Ops
      BY <1>11, ListenToType DEF Relaunch
    <2>2. raising' \in Seq(Event) /\ mainQueue' \in Seq(Event \cup {Refresh})
      BY <1>11 DEF Relaunch
    <2>3. posts' \in Seq(Post) /\ shown' \in Seq(Post)
      BY <1>11 DEF Relaunch
    <2>4. cache' \in View(used)'
      BY <1>11 DEF Relaunch, View
    <2> QED
      BY <1>11, <2>1, <2>2, <2>3, <2>4 DEF Relaunch, TypeOK
  <1>12. CASE UNCHANGED vars
    BY <1>12 DEF vars, TypeOK, View
  <1> QED
    BY <1>1, <1>2, <1>3, <1>4, <1>5, <1>6, <1>7, <1>8, <1>9, <1>10, <1>11,
       <1>12 DEF Next, SharedStep

\* Every variable of the feed keeps its type, whatever the queues do.
THEOREM TypeCorrect == Spec => []TypeOK
  BY TypeInit, TypeNext, PTL DEF Spec

-----------------------------------------------------------------------------
(***************************************************************************)
(* The table catches up.                                                   *)
(***************************************************************************)

LEMMA ShownNext == TypeOK /\ ShownCatchesUp /\ [Next]_vars => ShownCatchesUp'
  <1> SUFFICES ASSUME TypeOK, ShownCatchesUp, [Next]_vars PROVE ShownCatchesUp'
    OBVIOUS
  <1> DEFINE Waiting == \E i \in DOMAIN mainQueue : mainQueue[i] = Refresh
  <1>1. ASSUME UNCHANGED <<launched, mainQueue, posts, shown>>
        PROVE  ShownCatchesUp'
    BY <1>1 DEF ShownCatchesUp
  <1>2. CASE Launch
    BY <1>2 DEF Launch, reloadData, contentDependency, ShownCatchesUp
  <1>3. ASSUME NEW k \in OwnKeys, NEW v \in Vals, SendPost(k, v)
        PROVE  ShownCatchesUp'
    BY <1>1, <1>3 DEF SendPost
  <1>4. CASE DeletePosts
    BY <1>1, <1>4 DEF DeletePosts
  <1>5. CASE SharedStep
    BY <1>1, <1>5 DEF SharedStep, Observe, LocalSet, LocalRemove
  <1>6. ASSUME NEW new \in View(used), RemoteChange(new) PROVE ShownCatchesUp'
    BY <1>1, <1>6 DEF RemoteChange
  <1>7. CASE Revoke
    BY <1>1, <1>7 DEF Revoke
  <1>8. CASE Dispatch
    <2>1. \A i \in DOMAIN mainQueue : /\ i \in DOMAIN mainQueue'
                                      /\ mainQueue'[i] = mainQueue[i]
      BY <1>8 DEF Dispatch, TypeOK
    <2> QED
      BY <1>8, <2>1 DEF Dispatch, ShownCatchesUp
  <1>9. CASE RunRefresh
    BY <1>9 DEF RunRefresh, setDependency, reloadData, contentDependency, ShownCatchesUp
  <1>10. CASE RunAdded \/ RunUpdated \/ RunRemoved
    <2>1. /\ mainQueue # << >>
          /\ Head(mainQueue).op \in {"added", "updated", "removed"}
      BY <1>10 DEF RunAdded, RunUpdated, RunRemoved, Runs
    <2>2. /\ Len(mainQueue) \in Nat /\ Len(mainQueue) > 0
          /\ DOMAIN mainQueue = 1..Len(mainQueue)
          /\ mainQueue[1] = Head(mainQueue)
          /\ Tail(mainQueue) \in Seq(Event \cup {Refresh})
          /\ Len(Tail(mainQueue)) = Len(mainQueue) - 1
          /\ \A i \in 1..(Len(mainQueue) - 1) : Tail(mainQueue)[i] = mainQueue[i + 1]
      BY <2>1 DEF TypeOK
    <2>3. ASSUME NEW list, Assign(list) PROVE ShownCatchesUp'
      <3>1. mainQueue' = Append(Tail(mainQueue), Refresh)
        BY <2>3 DEF Assign
      <3>2. /\ Len(mainQueue) \in DOMAIN mainQueue'
            /\ mainQueue'[Len(mainQueue)] = Refresh
        BY <2>2, <3>1
      <3> QED
        BY <3>2 DEF ShownCatchesUp
    <2>4. ASSUME Skip PROVE ShownCatchesUp'
      <3>1. mainQueue' = Tail(mainQueue) /\ UNCHANGED <<launched, posts, shown>>
        BY <2>4 DEF Skip
      <3>2. ASSUME Waiting PROVE Waiting'
        <4>1. PICK i \in DOMAIN mainQueue : mainQueue[i] = Refresh
          BY <3>2
        <4>2. i # 1
          BY <2>1, <2>2, <4>1 DEF Refresh
        <4>3. i - 1 \in 1..(Len(mainQueue) - 1) /\ (i - 1) + 1 = i
          BY <2>2, <4>2
        <4>4. i - 1 \in DOMAIN mainQueue' /\ mainQueue'[i - 1] = Refresh
          BY <2>2, <3>1, <4>1, <4>3
        <4> QED
          BY <4>4
      <3> QED
        BY <3>1, <3>2 DEF ShownCatchesUp
    <2> QED
      BY <1>10, <2>3, <2>4 DEF RunAdded, RunUpdated, RunRemoved
  <1>11. ASSUME NEW stored \in View(used), Relaunch(stored)
         PROVE  ShownCatchesUp'
    BY <1>11 DEF Relaunch, ShownCatchesUp
  <1>12. CASE UNCHANGED vars
    BY <1>1, <1>12 DEF vars
  <1> QED
    BY <1>2, <1>3, <1>4, <1>5, <1>6, <1>7, <1>8, <1>9, <1>10, <1>11, <1>12
       DEF Next, MainStep

\* The table differs from PostsManager.posts only while a block of
\* managerUpdated waits in the main queue.
THEOREM TableCatchesUp == Spec => []ShownCatchesUp
  <1>1. Init => ShownCatchesUp
    BY DEF Init, ShownCatchesUp
  <1> QED
    BY <1>1, ShownNext, TypeCorrect, PTL DEF Spec

-----------------------------------------------------------------------------
(***************************************************************************)
(* PostsManager.posts agrees with the SDK's view of /posts: FeedTracked is *)
(* inductive and implies OnePerPost and FeedExact.                         *)
(***************************************************************************)

Content == Vals \cup {Null}

-----------------------------------------------------------------------------
(***************************************************************************)
(* What the three closures of startObserving do to the listing of a post.  *)
(***************************************************************************)

\* Appending a post that is not listed lists it once; other posts stay as
\* they are listed.
LEMMA ShowsAppend ==
  ASSUME NEW l \in Seq(Post), NEW p \in Post, NEW k \in Keys, NEW x \in Content,
         Shows(l, k, x)
  PROVE  /\ p.id # k => Shows(Append(l, p), k, x)
         /\ p.id = k /\ x = Null => Shows(Append(l, p), k, p.val)
  <1> DEFINE m == Append(l, p)
  <1>1. /\ m \in Seq(Post)
        /\ Len(m) = Len(l) + 1
        /\ DOMAIN m = 1..(Len(l) + 1)
        /\ DOMAIN l = 1..Len(l)
        /\ Len(l) \in Nat
        /\ \A i \in 1..Len(l) : m[i] = l[i]
        /\ m[Len(l) + 1] = p
    OBVIOUS
  <1> HIDE DEF m
  <1>2. ASSUME p.id # k PROVE Rows(m, k) = Rows(l, k)
    BY <1>1, <1>2 DEF Rows
  <1>3. ASSUME p.id # k PROVE Shows(m, k, x)
    <2>1. CASE x = Null
      BY <1>2, <1>3, <2>1 DEF Shows
    <2>2. CASE x # Null
      <3>1. PICK i \in DOMAIN l : Rows(l, k) = {i} /\ l[i].val = x
        BY <2>2 DEF Shows
      <3>2. i \in DOMAIN m /\ Rows(m, k) = {i} /\ m[i].val = x
        BY <1>1, <1>2, <1>3, <3>1
      <3> QED
        BY <2>2, <3>2 DEF Shows
    <2> QED
      BY <2>1, <2>2
  <1>4. ASSUME p.id = k, x = Null PROVE Shows(m, k, p.val)
    <2>1. Rows(l, k) = {}
      BY <1>4 DEF Shows
    <2>2. \A i \in 1..Len(l) : m[i].id # k
      BY <1>1, <2>1 DEF Rows
    <2>3. Rows(m, k) = {Len(l) + 1}
      BY <1>1, <1>4, <2>2 DEF Rows
    <2>4. p.val # Null
      BY ConstantsAssumption DEF Post
    <2> QED
      BY <1>1, <2>3, <2>4 DEF Shows
  <1> QED
    BY <1>3, <1>4 DEF m

\* Replacing the row of a post changes its content and nothing else.
LEMMA ShowsReplaceAt ==
  ASSUME NEW l \in Seq(Post), NEW p \in Post, NEW k \in Keys, NEW x \in Content,
         NEW j \in 1..Len(l), l[j].id = p.id, Shows(l, k, x)
  PROVE  /\ p.id # k => Shows(ReplaceAt(l, j, p), k, x)
         /\ p.id = k => Shows(ReplaceAt(l, j, p), k, p.val)
  <1> DEFINE m == ReplaceAt(l, j, p)
  <1>1. /\ m \in Seq(Post)
        /\ DOMAIN m = DOMAIN l
        /\ DOMAIN l = 1..Len(l)
        /\ \A i \in DOMAIN l : m[i] = IF i = j THEN p ELSE l[i]
    BY DEF ReplaceAt
  <1> HIDE DEF m
  <1>2. Rows(m, k) = Rows(l, k)
    BY <1>1 DEF Rows
  <1>3. ASSUME p.id # k PROVE Shows(m, k, x)
    <2>1. CASE x = Null
      BY <1>2, <2>1 DEF Shows
    <2>2. CASE x # Null
      <3>1. PICK i \in DOMAIN l : Rows(l, k) = {i} /\ l[i].val = x
        BY <2>2 DEF Shows
      <3>2. i # j
        BY <1>3, <3>1 DEF Rows
      <3>3. Rows(m, k) = {i} /\ m[i].val = x
        BY <1>1, <1>2, <3>1, <3>2
      <3> QED
        BY <1>1, <2>2, <3>1, <3>3 DEF Shows
    <2> QED
      BY <2>1, <2>2
  <1>4. ASSUME p.id = k PROVE Shows(m, k, p.val)
    <2>1. j \in Rows(l, k)
      BY <1>1, <1>4 DEF Rows
    <2>2. x # Null
      BY <2>1 DEF Shows
    <2>3. Rows(l, k) = {j}
      BY <2>1, <2>2 DEF Shows
    <2>4. p.val # Null
      BY ConstantsAssumption DEF Post
    <2> QED
      BY <1>1, <1>2, <2>3, <2>4 DEF Shows
  <1> QED
    BY <1>3, <1>4 DEF m

\* Removing the row of a post unlists it and keeps the others.
LEMMA ShowsRemoveAt ==
  ASSUME NEW l \in Seq(Post), NEW k \in Keys, NEW x \in Content,
         NEW j \in 1..Len(l), Shows(l, k, x)
  PROVE  /\ l[j].id # k => Shows(RemoveAt(l, j), k, x)
         /\ l[j].id = k => Shows(RemoveAt(l, j), k, Null)
  <1> DEFINE m == RemoveAt(l, j)
             n == Len(l)
  <1>1. /\ m \in Seq(Post)
        /\ n \in Nat
        /\ DOMAIN m = 1..(n - 1)
        /\ DOMAIN l = 1..n
        /\ \A i \in 1..(n - 1) : m[i] = IF i < j THEN l[i] ELSE l[i + 1]
    BY RemoveAtFacts
  <1> HIDE DEF m
  <1>2. ASSUME NEW i \in Rows(m, k)
        PROVE  /\ i \in 1..(n - 1)
               /\ i < j => i \in Rows(l, k)
               /\ ~(i < j) => i + 1 \in Rows(l, k)
    BY <1>1 DEF Rows
  <1>3. ASSUME l[j].id = k PROVE Shows(m, k, Null)
    <2>1. j \in Rows(l, k)
      BY <1>1, <1>3 DEF Rows
    <2>2. Rows(l, k) = {j}
      BY <2>1 DEF Shows
    <2>3. Rows(m, k) = {}
      BY <1>1, <1>2, <2>2
    <2> QED
      BY <2>3 DEF Shows
  <1>4. ASSUME l[j].id # k, x = Null PROVE Shows(m, k, x)
    <2>1. Rows(l, k) = {}
      BY <1>4 DEF Shows
    <2>2. Rows(m, k) = {}
      BY <1>2, <2>1
    <2> QED
      BY <1>4, <2>2 DEF Shows
  <1>5. ASSUME l[j].id # k, x # Null PROVE Shows(m, k, x)
    <2>1. PICK i \in DOMAIN l : Rows(l, k) = {i} /\ l[i].val = x
      BY <1>5 DEF Shows
    <2>2. i # j /\ i \in 1..n /\ l[i].id = k
      BY <1>1, <1>5, <2>1 DEF Rows
    <2> DEFINE a == IF i < j THEN i ELSE i - 1
    <2>3. a \in 1..(n - 1) /\ m[a] = l[i]
      BY <1>1, <2>2
    <2>4. a \in Rows(m, k)
      BY <1>1, <2>2, <2>3 DEF Rows
    <2>5. \A b \in Rows(m, k) : b = a
      BY <1>1, <1>2, <2>1, <2>2
    <2>6. Rows(m, k) = {a} /\ a \in DOMAIN m /\ m[a].val = x
      BY <1>1, <2>1, <2>3, <2>4, <2>5
    <2> QED
      BY <1>5, <2>6 DEF Shows
  <1> QED
    BY <1>3, <1>4, <1>5 DEF m

-----------------------------------------------------------------------------
(***************************************************************************)
(* What the SDK raises spells the change of its view.                      *)
(***************************************************************************)

\* History g of post k along the blocks s.
Spells(k, s, g) ==
  \A i \in 1..Len(s) :
     IF About(s[i], k)
     THEN Moves(s[i], g[i], g[i + 1]) /\ s[i].val \notin Malformed
     ELSE g[i + 1] = g[i]

\* An event of a change of the view moves its post from the old content to
\* the new one, and a post without an event keeps its content.
LEMMA DiffMoves ==
  ASSUME NEW old \in [Keys -> Content], NEW new \in [Keys -> Content],
         NEW k \in Keys
  PROVE  /\ \A e \in Diff(old, new) :
               e.key = k => e.op \in Ops /\ Moves(e, old[k], new[k])
         /\ old[k] # new[k] => \E e \in Diff(old, new) : e.key = k
  <1>1. \A e \in Diff(old, new) :
           e.key = k => e.op \in Ops /\ Moves(e, old[k], new[k])
    BY DEF Diff, Moves, Ops
  <1>2. ASSUME old[k] # new[k] PROVE \E e \in Diff(old, new) : e.key = k
    <2>1. CASE new[k] = Null
      <3>1. [op |-> "removed", key |-> k, val |-> old[k]] \in Diff(old, new)
        BY <1>2, <2>1 DEF Diff
      <3> QED
        BY <3>1
    <2>2. CASE old[k] = Null
      <3>1. [op |-> "added", key |-> k, val |-> new[k]] \in Diff(old, new)
        BY <1>2, <2>2 DEF Diff
      <3> QED
        BY <3>1
    <2>3. CASE old[k] # Null /\ new[k] # Null
      <3>1. [op |-> "updated", key |-> k, val |-> new[k]] \in Diff(old, new)
        BY <1>2, <2>3 DEF Diff
      <3> QED
        BY <3>1
    <2> QED
      BY <2>1, <2>2, <2>3
  <1> QED
    BY <1>1, <1>2

\* Whatever part H of a change the observers hear, as long as it has the event
\* of post k and that event decodes, the blocks spell the change of post k.
LEMMA BatchSpells ==
  ASSUME NEW old \in [Keys -> Content], NEW new \in [Keys -> Content],
         NEW H \in SUBSET Diff(old, new), NEW s \in Batches(H), NEW k \in Keys,
         \A e \in Diff(old, new) : e.key = k => e \in H /\ e.val \notin Malformed
  PROVE  /\ s \in Seq(Event)
         /\ \E g \in [1..(Len(s) + 1) -> Content] :
               /\ g[1] = old[k]
               /\ g[Len(s) + 1] = new[k]
               /\ Spells(k, s, g)
  <1>1. H \subseteq Event /\ IsFiniteSet(H)
    BY DiffType, DiffFinite, FS_Subset DEF Content
  <1>2. /\ s \in Seq(Event)
        /\ \A i \in 1..Len(s) : s[i] \in H
        /\ \A e \in H : \E i \in 1..Len(s) : s[i] = e
        /\ \A i, j \in 1..Len(s) : i < j => Before(s[i], s[j])
    BY <1>1, BatchesType
  <1>3. Len(s) \in Nat
    BY <1>2
  <1>4. CASE \E e \in Diff(old, new) : e.key = k
    <2>1. PICK e \in Diff(old, new) : e.key = k
      BY <1>4
    <2>2. PICK p \in 1..Len(s) : s[p] = e
      BY <1>2, <2>1
    <2>3. ASSUME NEW i \in 1..Len(s), s[i].key = k PROVE i = p
      <3>1. s[i] = e
        BY <1>2, <2>1, <2>3, OneEventPerKey
      <3>2. ~Before(e, e)
        <4>1. e \in Event
          BY <1>2, <2>2
        <4>2. e.key \in Nat /\ e.op \in Ops
          BY <4>1, ConstantsAssumption DEF Event
        <4>3. Rank[e.op] \in Nat
          BY <4>2 DEF Rank, Ops
        <4> QED
          BY <4>2, <4>3 DEF Before
      <3> QED
        BY <1>2, <1>3, <2>2, <3>1, <3>2
    <2> DEFINE g == [i \in 1..(Len(s) + 1) |-> IF i <= p THEN old[k] ELSE new[k]]
    <2>4. g \in [1..(Len(s) + 1) -> Content] /\ g[1] = old[k]
      BY <1>3
    <2>5. g[Len(s) + 1] = new[k]
      BY <1>3
    <2>6. Moves(e, old[k], new[k]) /\ e.op \in Ops /\ e.val \notin Malformed
      BY <2>1, DiffMoves
    <2>7. ASSUME NEW i \in 1..Len(s)
          PROVE  IF About(s[i], k)
                 THEN Moves(s[i], g[i], g[i + 1]) /\ s[i].val \notin Malformed
                 ELSE g[i + 1] = g[i]
      <3>1. CASE i = p
        <4>1. g[i] = old[k] /\ g[i + 1] = new[k]
          BY <1>3, <3>1
        <4> HIDE DEF g
        <4> QED
          BY <2>1, <2>2, <2>6, <3>1, <4>1 DEF About
      <3>2. CASE i # p
        <4>1. ~About(s[i], k)
          BY <2>3, <3>2 DEF About
        <4>2. g[i + 1] = g[i]
          BY <1>3, <3>2
        <4> QED
          BY <4>1, <4>2
      <3> QED
        BY <3>1, <3>2
    <2> HIDE DEF g
    <2> QED
      BY <1>2, <2>4, <2>5, <2>7 DEF Spells
  <1>5. CASE ~(\E e \in Diff(old, new) : e.key = k)
    <2> DEFINE g == [i \in 1..(Len(s) + 1) |-> old[k]]
    <2>1. old[k] = new[k]
      BY <1>5, DiffMoves
    <2>2. \A i \in 1..Len(s) : ~About(s[i], k)
      BY <1>2, <1>5 DEF About
    <2>3. g \in [1..(Len(s) + 1) -> Content] /\ g[1] = old[k]
          /\ g[Len(s) + 1] = new[k]
      BY <1>3, <2>1
    <2>4. \A i \in 1..Len(s) : g[i + 1] = g[i]
      BY <1>3
    <2> HIDE DEF g
    <2> QED
      BY <1>2, <2>2, <2>3, <2>4 DEF Spells
  <1> QED
    BY <1>4, <1>5

-----------------------------------------------------------------------------
(***************************************************************************)
(* Every step of the two queues carries the histories along.               *)
(***************************************************************************)

\* Post k has a history.
Tracked(k) == \E h \in [1..(Tasks + 1) -> Content] : Tracks(k, h)

LEMMA TasksType ==
  ASSUME TypeOK
  PROVE  /\ Len(mainQueue) \in Nat /\ Len(raising) \in Nat /\ Tasks \in Nat
         /\ raising = << >> => Tasks = Len(mainQueue)
         /\ \A i \in 1..Len(mainQueue) : mainQueue[i] \in Event \cup {Refresh}
         /\ \A i \in 1..Len(raising) : raising[i] \in Event
  BY DEF TypeOK, Tasks

\* The SDK's view changes: the blocks it raises extend every history.
LEMMA UpdateTracks ==
  ASSUME TypeOK, raising = << >>, NEW new \in [Keys -> Content], Update(new),
         mainQueue' = mainQueue, posts' = posts,
         NEW k \in Keys \ unheard', Tracked(k)
  PROVE  Tracked(k)'
  <1> DEFINE E == Diff(cache, new)
             H == {e \in E : e.op \in observers}
             n == Len(mainQueue)
  <1>1. cache \in [Keys -> Content]
    BY DEF TypeOK, View, Content
  <1>2. PICK s \in Batches(H) : raising' = s
    BY DEF Update
  <1>3. \A e \in E : e.key = k => e \in H /\ e.val \notin Malformed
    <2>1. k \notin Lost(E)
      BY DEF Update
    <2> QED
      BY <2>1 DEF Lost
  <1>4. /\ s \in Seq(Event)
        /\ \E g \in [1..(Len(s) + 1) -> Content] :
              /\ g[1] = cache[k]
              /\ g[Len(s) + 1] = new[k]
              /\ Spells(k, s, g)
    <2>1. H \in SUBSET Diff(cache, new)
      OBVIOUS
    <2> HIDE DEF H
    <2> QED
      BY <1>1, <1>2, <1>3, <2>1, BatchSpells
  <1>5. PICK g \in [1..(Len(s) + 1) -> Content] :
              /\ g[1] = cache[k]
              /\ g[Len(s) + 1] = new[k]
              /\ Spells(k, s, g)
    BY <1>4
  <1>6. PICK h \in [1..(Tasks + 1) -> Content] : Tracks(k, h)
    BY DEF Tracked
  <1>7. n \in Nat /\ Len(s) \in Nat /\ Tasks = n /\ Tasks' = n + Len(s)
    BY <1>2, <1>4, TasksType DEF Tasks
  <1>8. PICK f \in [1..(n + Len(s) + 1) -> Content] :
           \A i \in 1..(n + Len(s) + 1) : f[i] = IF i <= n THEN h[i] ELSE g[i - n]
    <2> DEFINE f == [i \in 1..(n + Len(s) + 1) |->
                       IF i <= n THEN h[i] ELSE g[i - n]]
    <2>1. f \in [1..(n + Len(s) + 1) -> Content]
      BY <1>5, <1>6, <1>7
    <2> QED
      BY <2>1
  <1>9. /\ \A i \in 1..(n + 1) : f[i] = h[i]
        /\ \A i \in 1..(Len(s) + 1) : f[n + i] = g[i]
    <2>1. h[n + 1] = g[1]
      BY <1>5, <1>6, <1>7 DEF Tracks
    <2>2. ASSUME NEW i \in 1..(Len(s) + 1) PROVE f[n + i] = g[i]
      <3>1. n + i \in 1..(n + Len(s) + 1) /\ ~(n + i <= n) /\ (n + i) - n = i
        BY <1>7
      <3> QED
        BY <1>8, <3>1
    <2>3. ASSUME NEW i \in 1..(n + 1) PROVE f[i] = h[i]
      <3>1. CASE i <= n
        <4>1. i \in 1..(n + Len(s) + 1)
          BY <1>7
        <4> QED
          BY <1>8, <3>1, <4>1
      <3>2. CASE i = n + 1
        BY <1>7, <2>1, <2>2, <3>2
      <3> QED
        BY <1>7, <3>1, <3>2
    <2> QED
      BY <2>2, <2>3
  <1>10. f[1] = h[1] /\ f[n + Len(s) + 1] = new[k]
    <2>1. 1 \in 1..(n + 1) /\ Len(s) + 1 \in 1..(Len(s) + 1)
          /\ n + (Len(s) + 1) = n + Len(s) + 1
      BY <1>7
    <2> QED
      BY <1>5, <1>9, <2>1
  <1>11. ASSUME NEW i \in 1..(n + Len(s))
         PROVE  IF About(Task(i)', k)
                THEN Moves(Task(i)', f[i], f[i + 1]) /\ Task(i)'.val \notin Malformed
                ELSE f[i + 1] = f[i]
    <2>1. CASE i <= n
      <3>1. Task(i)' = Task(i)
        BY <2>1 DEF Task
      <3>2. i \in 1..(n + 1) /\ i + 1 \in 1..(n + 1) /\ i \in 1..Tasks
        BY <1>7, <2>1
      <3>3. f[i] = h[i] /\ f[i + 1] = h[i + 1]
        BY <1>9, <3>2
      <3> QED
        BY <1>6, <3>1, <3>2, <3>3 DEF Tracks
    <2>2. CASE ~(i <= n)
      <3>1. Task(i)' = s[i - n]
        BY <1>2, <2>2 DEF Task
      <3>2. PICK j \in 1..Len(s) : i = n + j /\ i - n = j /\ i + 1 = n + (j + 1)
        <4>1. i - n \in 1..Len(s) /\ i = n + (i - n) /\ i + 1 = n + ((i - n) + 1)
          BY <1>7, <2>2
        <4> QED
          BY <4>1
      <3>3. j \in 1..(Len(s) + 1) /\ j + 1 \in 1..(Len(s) + 1)
        BY <1>7
      <3>4. f[i] = g[j] /\ f[i + 1] = g[j + 1]
        BY <1>9, <3>2, <3>3
      <3> QED
        BY <1>5, <3>1, <3>2, <3>4 DEF Spells
    <2> QED
      BY <2>1, <2>2
  <1>12. Shows(posts, k, f[1])'
    BY <1>6, <1>10 DEF Tracks, Shows, Rows
  <1>13. cache' = new
    BY DEF Update
  <1>14. Tracks(k, f)'
    BY <1>7, <1>10, <1>11, <1>12, <1>13 DEF Tracks
  <1> QED
    BY <1>7, <1>8, <1>14 DEF Tracked

\* A block goes from the SDK to the main queue: the histories stay.
LEMMA DispatchTracks ==
  ASSUME TypeOK, Dispatch, NEW k \in Keys, Tracked(k)
  PROVE  Tracked(k)'
  <1>1. PICK h \in [1..(Tasks + 1) -> Content] : Tracks(k, h)
    BY DEF Tracked
  <1> DEFINE n == Len(mainQueue)
  <1>2. /\ n \in Nat /\ Len(raising) \in Nat /\ Len(raising) > 0
        /\ Len(mainQueue') = n + 1
        /\ Len(raising') = Len(raising) - 1
        /\ \A i \in 1..n : mainQueue'[i] = mainQueue[i]
        /\ mainQueue'[n + 1] = raising[1]
        /\ \A i \in 1..(Len(raising) - 1) : raising'[i] = raising[i + 1]
    BY DEF Dispatch, TypeOK
  <1>3. Tasks' = Tasks /\ Tasks = n + Len(raising)
    BY <1>2 DEF Tasks
  <1>4. ASSUME NEW i \in 1..Tasks PROVE Task(i)' = Task(i)
    <2>1. CASE i <= n
      BY <1>2, <2>1 DEF Task
    <2>2. CASE i = n + 1
      BY <1>2, <2>2 DEF Task
    <2>3. CASE i > n + 1
      <3>1. Task(i)' = raising'[i - (n + 1)] /\ Task(i) = raising[i - n]
        BY <1>2, <2>3 DEF Task
      <3>2. i - (n + 1) \in 1..(Len(raising) - 1) /\ (i - (n + 1)) + 1 = i - n
        BY <1>2, <1>3, <2>3
      <3> QED
        BY <1>2, <3>1, <3>2
    <2> QED
      BY <1>2, <1>3, <2>1, <2>2, <2>3
  <1>5. Shows(posts, k, h[1])' /\ cache' = cache
    BY <1>1 DEF Tracks, Dispatch, Shows, Rows
  <1>6. Tracks(k, h)'
    BY <1>1, <1>3, <1>4, <1>5 DEF Tracks
  <1> QED
    BY <1>3, <1>6 DEF Tracked

\* The block at the head of the main queue runs and posts no other: each
\* history loses its first entry.
LEMMA PopTracks ==
  ASSUME TypeOK, mainQueue # << >>, mainQueue' = Tail(mainQueue),
         raising' = raising, cache' = cache, NEW k \in Keys,
         NEW h \in [1..(Tasks + 1) -> Content], Tracks(k, h),
         Shows(posts', k, h[2])
  PROVE  Tracked(k)'
  <1> DEFINE n == Len(mainQueue)
  <1>1. /\ n \in Nat /\ n > 0 /\ Len(raising) \in Nat
        /\ Len(mainQueue') = n - 1
        /\ \A i \in 1..(n - 1) : mainQueue'[i] = mainQueue[i + 1]
    BY DEF TypeOK
  <1>2. Tasks = n + Len(raising) /\ Tasks' = Tasks - 1 /\ Tasks \in Nat
    BY <1>1 DEF Tasks
  <1>3. ASSUME NEW i \in 1..(Tasks - 1) PROVE Task(i)' = Task(i + 1)
    <2>1. CASE i <= n - 1
      BY <1>1, <2>1 DEF Task
    <2>2. CASE ~(i <= n - 1)
      <3>1. Task(i)' = raising[i - (n - 1)]
        BY <1>1, <2>2 DEF Task
      <3>2. Task(i + 1) = raising[(i + 1) - n]
        BY <1>1, <1>2, <2>2 DEF Task
      <3>3. (i + 1) - n = i - (n - 1)
        BY <1>1, <1>2
      <3> QED
        BY <3>1, <3>2, <3>3
    <2> QED
      BY <2>1, <2>2
  <1>4. PICK f \in [1..Tasks -> Content] : \A i \in 1..Tasks : f[i] = h[i + 1]
    <2> DEFINE f == [i \in 1..Tasks |-> h[i + 1]]
    <2>1. f \in [1..Tasks -> Content]
      BY <1>2
    <2> QED
      BY <2>1
  <1>5. 1 \in 1..Tasks /\ Tasks \in 1..Tasks
    BY <1>1, <1>2
  <1>6. f[1] = h[2] /\ f[Tasks] = cache'[k]
    BY <1>4, <1>5 DEF Tracks
  <1>7. ASSUME NEW i \in 1..(Tasks - 1)
        PROVE  IF About(Task(i)', k)
               THEN Moves(Task(i)', f[i], f[i + 1]) /\ Task(i)'.val \notin Malformed
               ELSE f[i + 1] = f[i]
    <2>1. i \in 1..Tasks /\ i + 1 \in 1..Tasks
      BY <1>2
    <2>2. f[i] = h[i + 1] /\ f[i + 1] = h[(i + 1) + 1]
      BY <1>4, <2>1
    <2> QED
      BY <1>3, <2>1, <2>2 DEF Tracks
  <1>8. Shows(posts, k, f[1])'
    BY <1>6
  <1>9. (Tasks - 1) + 1 = Tasks
    BY <1>2
  <1>10. Tracks(k, f)'
    BY <1>2, <1>6, <1>7, <1>8, <1>9 DEF Tracks
  <1> QED
    BY <1>2, <1>9, <1>10 DEF Tracked

\* The block at the head of the main queue runs and posts a refresh: the
\* histories shift up to the refresh and stand still there.
LEMMA PopPushTracks ==
  ASSUME TypeOK, mainQueue # << >>,
         mainQueue' = Append(Tail(mainQueue), Refresh),
         raising' = raising, cache' = cache, NEW k \in Keys,
         NEW h \in [1..(Tasks + 1) -> Content], Tracks(k, h),
         Shows(posts', k, h[2])
  PROVE  Tracked(k)'
  <1> DEFINE n == Len(mainQueue)
  <1>1. /\ n \in Nat /\ n > 0 /\ Len(raising) \in Nat
        /\ Len(mainQueue') = n
        /\ \A i \in 1..(n - 1) : mainQueue'[i] = mainQueue[i + 1]
        /\ mainQueue'[n] = Refresh
    BY DEF TypeOK
  <1>2. Tasks = n + Len(raising) /\ Tasks' = Tasks /\ Tasks \in Nat
    BY <1>1 DEF Tasks
  <1>3. /\ \A i \in 1..(n - 1) : Task(i)' = Task(i + 1)
        /\ Task(n)' = Refresh
        /\ \A i \in (n + 1)..Tasks : Task(i)' = Task(i)
    <2>1. ASSUME NEW i \in 1..(n - 1) PROVE Task(i)' = Task(i + 1)
      BY <1>1 DEF Task
    <2>2. Task(n)' = Refresh
      BY <1>1 DEF Task
    <2>3. ASSUME NEW i \in (n + 1)..Tasks PROVE Task(i)' = Task(i)
      <3>1. ~(i <= n)
        BY <1>1, <1>2
      <3>2. Task(i) = raising[i - n]
        BY <3>1 DEF Task
      <3>3. Task(i)' = raising[i - n]
        BY <1>1, <3>1 DEF Task
      <3> QED
        BY <3>2, <3>3
    <2> QED
      BY <2>1, <2>2, <2>3
  <1>4. PICK f \in [1..(Tasks + 1) -> Content] :
          \A i \in 1..(Tasks + 1) : f[i] = IF i <= n THEN h[i + 1] ELSE h[i]
    <2> DEFINE f == [i \in 1..(Tasks + 1) |-> IF i <= n THEN h[i + 1] ELSE h[i]]
    <2>1. f \in [1..(Tasks + 1) -> Content]
      BY <1>1, <1>2
    <2> QED
      BY <2>1
  <1>5. f[1] = h[2] /\ f[Tasks + 1] = cache'[k]
    <2>1. 1 \in 1..(Tasks + 1) /\ 1 <= n /\ Tasks + 1 \in 1..(Tasks + 1)
          /\ ~(Tasks + 1 <= n)
      BY <1>1, <1>2
    <2> QED
      BY <1>4, <2>1 DEF Tracks
  <1>6. ASSUME NEW i \in 1..Tasks
        PROVE  IF About(Task(i)', k)
               THEN Moves(Task(i)', f[i], f[i + 1]) /\ Task(i)'.val \notin Malformed
               ELSE f[i + 1] = f[i]
    <2>1. i \in 1..(Tasks + 1) /\ i + 1 \in 1..(Tasks + 1)
      BY <1>2
    <2>2. CASE i <= n - 1
      <3>1. f[i] = h[i + 1] /\ f[i + 1] = h[(i + 1) + 1]
        BY <1>1, <1>4, <2>1, <2>2
      <3>2. Task(i)' = Task(i + 1) /\ i + 1 \in 1..Tasks
        BY <1>1, <1>2, <1>3, <2>2
      <3> QED
        BY <3>1, <3>2 DEF Tracks
    <2>3. CASE i = n
      <3>1. f[i] = h[n + 1] /\ f[i + 1] = h[n + 1]
        BY <1>1, <1>4, <2>1, <2>3
      <3>2. ~About(Refresh, k)
        BY DEF About, Refresh, Ops
      <3> QED
        BY <1>3, <2>3, <3>1, <3>2
    <2>4. CASE i > n
      <3>1. f[i] = h[i] /\ f[i + 1] = h[i + 1]
        BY <1>1, <1>4, <2>1, <2>4
      <3>2. Task(i)' = Task(i)
        BY <1>1, <1>2, <1>3, <2>4
      <3> QED
        BY <3>1, <3>2 DEF Tracks
    <2>5. i <= n - 1 \/ i = n \/ i > n
      <3>1. n \in Nat /\ i \in Nat
        BY <1>1
      <3> HIDE DEF n
      <3> QED
        BY <3>1
    <2> QED
      BY <2>2, <2>3, <2>4, <2>5
  <1>7. Shows(posts, k, f[1])'
    BY <1>5
  <1>8. Tracks(k, f)'
    BY <1>2, <1>5, <1>6, <1>7 DEF Tracks
  <1> QED
    BY <1>2, <1>8 DEF Tracked

\* Whatever block the main queue runs, the histories go on.
LEMMA MainTracks ==
  ASSUME TypeOK, MainStep, NEW k \in Keys, Tracked(k)
  PROVE  Tracked(k)'
  <1>1. PICK h \in [1..(Tasks + 1) -> Content] : Tracks(k, h)
    BY DEF Tracked
  <1> DEFINE t == Head(mainQueue)
  <1>2. mainQueue # << >> /\ t = mainQueue[1] /\ t \in Event \cup {Refresh}
    BY DEF MainStep, RunAdded, RunUpdated, RunRemoved, RunRefresh, Runs, TypeOK
  <1>3. Tasks \in Nat /\ Tasks > 0 /\ Task(1) = t
    <2>1. Len(mainQueue) \in Nat /\ Len(mainQueue) > 0 /\ Len(raising) \in Nat
      BY <1>2 DEF TypeOK
    <2> QED
      BY <1>2, <2>1 DEF Tasks, Task
  <1>4. /\ h[1] \in Content /\ h[2] \in Content
        /\ IF About(t, k)
           THEN Moves(t, h[1], h[2]) /\ t.val \notin Malformed
           ELSE h[2] = h[1]
        /\ Shows(posts, k, h[1])
    BY <1>1, <1>3 DEF Tracks
  <1>5. /\ posts \in Seq(Post)
        /\ t.op \in Ops => /\ HeadPost \in Post
                           /\ HeadPost.id = t.key
                           /\ HeadPost.val = t.val
    BY <1>2 DEF TypeOK, HeadPost, Post, Event, Refresh, Ops
  <1>6. ASSUME NEW list, Assign(list), Shows(list, k, h[2]) PROVE Tracked(k)'
    BY <1>1, <1>2, <1>6, PopPushTracks DEF Assign
  <1>7. ASSUME Skip, ~About(t, k) PROVE Tracked(k)'
    <2>1. Shows(posts', k, h[2])
      BY <1>4, <1>7 DEF Skip
    <2> QED
      BY <1>1, <1>2, <1>7, <2>1, PopTracks DEF Skip
  <1> HIDE DEF t
  <1>8. CASE RunAdded
    <2>1. t.op = "added" /\ t.op \in Ops
      BY <1>8 DEF RunAdded, Runs, Ops, t
    <2>2. CASE About(t, k)
      <3>1. h[1] = Null /\ h[2] = t.val /\ Decodes
        BY <1>4, <2>1, <2>2 DEF Moves, Decodes, t
      <3>2. Shows(Append(posts, HeadPost), k, h[2])
        BY <1>4, <1>5, <2>1, <2>2, <3>1, ShowsAppend DEF About
      <3> QED
        BY <1>6, <1>8, <3>1, <3>2 DEF RunAdded
    <2>3. CASE ~About(t, k)
      <3>1. Shows(Append(posts, HeadPost), k, h[2])
        BY <1>4, <1>5, <2>1, <2>3, ShowsAppend DEF About
      <3> QED
        BY <1>6, <1>7, <1>8, <2>3, <3>1 DEF RunAdded
    <2> QED
      BY <2>2, <2>3
  <1>9. CASE RunUpdated
    <2>1. t.op = "updated" /\ t.op \in Ops
      BY <1>9 DEF RunUpdated, Runs, Ops, t
    <2> DEFINE j == IndexOf(HeadPost.id)
    <2>2. CASE About(t, k)
      <3>1. h[1] # Null /\ h[2] = t.val /\ Decodes
        BY <1>4, <2>1, <2>2 DEF Moves, Decodes, t
      <3>2. Occurs(HeadPost.id)
        BY <1>4, <1>5, <2>1, <2>2, <3>1 DEF About, Occurs, Shows, Rows
      <3>3. j \in 1..Len(posts) /\ posts[j].id = HeadPost.id
        BY <1>5, <3>2, IndexOfFacts
      <3> HIDE DEF j
      <3>4. Shows(ReplaceAt(posts, j, HeadPost), k, h[2])
        BY <1>4, <1>5, <2>1, <2>2, <3>1, <3>3, ShowsReplaceAt DEF About
      <3> QED
        BY <1>6, <1>9, <3>1, <3>2, <3>4 DEF RunUpdated, j
    <2>3. CASE ~About(t, k)
      <3>1. CASE Decodes /\ Occurs(HeadPost.id)
        <4>1. j \in 1..Len(posts) /\ posts[j].id = HeadPost.id
          BY <1>5, <3>1, IndexOfFacts
        <4> HIDE DEF j
        <4>2. Shows(ReplaceAt(posts, j, HeadPost), k, h[2])
          BY <1>4, <1>5, <2>1, <2>3, <4>1, ShowsReplaceAt DEF About
        <4> QED
          BY <1>6, <1>9, <3>1, <4>2 DEF RunUpdated, j
      <3>2. CASE ~(Decodes /\ Occurs(HeadPost.id))
        BY <1>7, <1>9, <2>3, <3>2 DEF RunUpdated
      <3> QED
        BY <3>1, <3>2
    <2> QED
      BY <2>2, <2>3
  <1>10. CASE RunRemoved
    <2>1. t.op = "removed" /\ t.op \in Ops
      BY <1>10 DEF RunRemoved, Runs, Ops, t
    <2> DEFINE j == IndexOf(HeadPost.id)
    <2>2. CASE About(t, k)
      <3>1. h[1] # Null /\ h[2] = Null /\ Decodes
        BY <1>4, <2>1, <2>2 DEF Moves, Decodes, t
      <3>2. Occurs(HeadPost.id)
        BY <1>4, <1>5, <2>1, <2>2, <3>1 DEF About, Occurs, Shows, Rows
      <3>3. j \in 1..Len(posts) /\ posts[j].id = HeadPost.id
        BY <1>5, <3>2, IndexOfFacts
      <3> HIDE DEF j
      <3>4. Shows(RemoveAt(posts, j), k, h[2])
        BY <1>4, <1>5, <2>1, <2>2, <3>1, <3>3, ShowsRemoveAt DEF About
      <3> QED
        BY <1>6, <1>10, <3>1, <3>2, <3>4 DEF RunRemoved, j
    <2>3. CASE ~About(t, k)
      <3>1. CASE Decodes /\ Occurs(HeadPost.id)
        <4>1. j \in 1..Len(posts) /\ posts[j].id = HeadPost.id
          BY <1>5, <3>1, IndexOfFacts
        <4> HIDE DEF j
        <4>2. Shows(RemoveAt(posts, j), k, h[2])
          BY <1>4, <1>5, <2>1, <2>3, <4>1, ShowsRemoveAt DEF About
        <4> QED
          BY <1>6, <1>10, <3>1, <4>2 DEF RunRemoved, j
      <3>2. CASE ~(Decodes /\ Occurs(HeadPost.id))
        BY <1>7, <1>10, <2>3, <3>2 DEF RunRemoved
      <3> QED
        BY <3>1, <3>2
    <2> QED
      BY <2>2, <2>3
  <1>11. CASE RunRefresh
    <2>1. ~About(t, k)
      BY <1>11 DEF RunRefresh, Runs, About, Ops, t
    <2>2. Shows(posts', k, h[2])
      BY <1>4, <1>11, <2>1 DEF RunRefresh
    <2> QED
      BY <1>1, <1>2, <1>11, <2>2, PopTracks DEF RunRefresh
  <1> QED
    BY <1>8, <1>9, <1>10, <1>11 DEF MainStep

-----------------------------------------------------------------------------
(***************************************************************************)
(* FeedTracked is inductive.                                               *)
(***************************************************************************)

\* The tasks that are not registrations do not register.
LEMMA ListenToFacts ==
  /\ listenTo # << >> /\ Head(listenTo) = listenTo[1] /\ Len(listenTo) = 3
  /\ \A i \in 2..3 : listenTo[i] # listenTo[1]
  /\ listenTo[1].call = "observe" /\ listenTo[1].op = "added"
  BY DEF listenTo

LEMMA ObserveAdded ==
  ASSUME NEW c \in Call, c.call = "observe", c.op = "added"
  PROVE  c = listenTo[1]
  BY DEF Call, listenTo

LEMMA StartupAppend ==
  ASSUME TypeOK, Startup, NEW c \in Call, c # listenTo[1],
         sharedQueue' = Append(sharedQueue, c),
         UNCHANGED <<observers, mainQueue, raising, posts, unheard>>
  PROVE  Startup'
  <1>1. sharedQueue \in Seq(Call)
    BY DEF TypeOK
  <1>2. /\ Len(sharedQueue) \in Nat
        /\ Len(sharedQueue') = Len(sharedQueue) + 1
        /\ DOMAIN sharedQueue' = 1..(Len(sharedQueue) + 1)
        /\ \A i \in 1..Len(sharedQueue) : sharedQueue'[i] = sharedQueue[i]
        /\ sharedQueue'[Len(sharedQueue) + 1] = c
        /\ sharedQueue # << >> => Head(sharedQueue') = Head(sharedQueue)
        /\ sharedQueue' # << >>
    BY <1>1
  <1>3. CASE unheard # Keys /\ "added" \in observers
    BY <1>1, <1>2, <1>3 DEF Startup
  <1>4. CASE unheard # Keys /\ "added" \notin observers
    <2>1. \A i \in 2..(Len(sharedQueue) + 1) : sharedQueue'[i] # listenTo[1]
      BY <1>2, <1>4 DEF Startup
    <2> QED
      BY <1>2, <1>4, <2>1 DEF Startup
  <1>5. CASE unheard = Keys
    BY <1>5 DEF Startup
  <1> QED
    BY <1>3, <1>4, <1>5

\* A task leaves the shared queue once the observer of additions is there.
LEMMA StartupTail ==
  ASSUME TypeOK, Startup, sharedQueue # << >>,
         sharedQueue' = Tail(sharedQueue), "added" \in observers',
         unheard # Keys => \/ "added" \in observers
                           \/ Head(sharedQueue) = listenTo[1]
  PROVE  unheard # Keys => Startup'
  <1>1. /\ Len(sharedQueue) \in Nat
        /\ DOMAIN sharedQueue = 1..Len(sharedQueue)
        /\ DOMAIN sharedQueue' = 1..(Len(sharedQueue) - 1)
        /\ \A i \in 1..(Len(sharedQueue) - 1) : sharedQueue'[i] = sharedQueue[i + 1]
    BY DEF TypeOK
  <1>2. ASSUME unheard # Keys
        PROVE  \A i \in 2..Len(sharedQueue) : sharedQueue[i] # listenTo[1]
    BY <1>1, <1>2 DEF Startup
  <1>3. ASSUME unheard # Keys
        PROVE  \A i \in DOMAIN sharedQueue' : sharedQueue'[i] # listenTo[1]
    BY <1>1, <1>2, <1>3
  <1> QED
    BY <1>3 DEF Startup

LEMMA TrackedInit == Init => FeedTracked
  BY ListenToFacts DEF Init, FeedTracked, Startup

\* Steps of the SDK that change its view.
LEMMA ViewTracked ==
  ASSUME TypeOK, TypeOK', FeedTracked, raising = << >>,
         NEW new \in [Keys -> Content], Update(new),
         UNCHANGED <<mainQueue, posts, observers>>,
         \/ sharedQueue # << >> /\ sharedQueue' = Tail(sharedQueue)
            /\ Head(sharedQueue) # listenTo[1]
         \/ sharedQueue' = sharedQueue /\ observers # {}
  PROVE  FeedTracked'
  <1>1. unheard \subseteq unheard' /\ unheard' \subseteq Keys
    BY DEF Update, TypeOK
  <1>2. CASE unheard' = Keys
    <2>1. \A k \in Keys \ unheard' : FALSE
      BY <1>2
    <2> QED
      BY <1>2, <2>1 DEF FeedTracked, Startup
  <1>3. CASE unheard' # Keys
    <2>1. unheard # Keys
      BY <1>1, <1>3
    <2>2. "added" \in observers
      BY <2>1 DEF FeedTracked, Startup
    <2>3. Startup'
      <3>1. CASE sharedQueue' = sharedQueue
        BY <2>1, <2>2, <3>1 DEF FeedTracked, Startup
      <3>2. CASE sharedQueue # << >> /\ sharedQueue' = Tail(sharedQueue)
        BY <2>1, <2>2, <3>2, StartupTail DEF FeedTracked
      <3> QED
        BY <3>1, <3>2
    <2>4. \A k \in Keys \ unheard' : Tracked(k)'
      <3> TAKE k \in Keys \ unheard'
      <3>1. Tracked(k)
        BY <1>1, <2>2 DEF FeedTracked, Tracked, Content
      <3> QED
        BY <3>1, UpdateTracks
    <2> QED
      BY <2>3, <2>4 DEF FeedTracked, Tracked, Content
  <1> QED
    BY <1>2, <1>3

\* Steps that leave the blocks, the list and the view alone.
LEMMA SameTracked ==
  ASSUME FeedTracked, Startup',
         UNCHANGED <<mainQueue, raising, posts, cache, unheard>>,
         "added" \in observers' => "added" \in observers
  PROVE  FeedTracked'
  <1>1. Tasks' = Tasks /\ \A i : Task(i)' = Task(i)
    BY DEF Tasks, Task
  <1>2. ASSUME NEW k, NEW h, Tracks(k, h) PROVE Tracks(k, h)'
    BY <1>1, <1>2 DEF Tracks, Shows, Rows
  <1> QED
    BY <1>1, <1>2 DEF FeedTracked

\* Registering the observer of additions raises what the view holds.
LEMMA ObserveTracked ==
  ASSUME TypeOK, TypeOK', FeedTracked, Observe
  PROVE  FeedTracked'
  <1> DEFINE c == Head(sharedQueue)
             none == [k \in Keys |-> Null]
             E == IF c.op = "added" THEN Diff(none, cache) ELSE {}
  <1>1. /\ c \in Call /\ c.call = "observe" /\ sharedQueue # << >>
        /\ sharedQueue' = Tail(sharedQueue)
        /\ observers' = observers \cup {c.op}
        /\ unheard' = unheard \cup {e.key : e \in {f \in E : f.val \in Malformed}}
        /\ raising = << >>
        /\ UNCHANGED <<mainQueue, posts, cache>>
    BY DEF Observe, SharedIdle, TypeOK
  <1>2. PICK s \in Batches(E) : raising' = s
    BY DEF Observe
  <1>3. unheard \subseteq unheard' /\ unheard' \subseteq Keys
    BY <1>1 DEF TypeOK
  <1>4. CASE unheard' = Keys
    <2>1. \A k \in Keys \ unheard' : FALSE
      BY <1>4
    <2> QED
      BY <1>4, <2>1 DEF FeedTracked, Startup
  <1>5. CASE unheard' # Keys /\ c.op # "added"
    <2>1. E = {} /\ unheard' = unheard
      BY <1>1, <1>5
    <2>2. raising' = << >>
      <3>1. Cardinality(E) = 0
        BY <2>1, FS_EmptySet
      <3>2. s \in [1..0 -> E]
        BY <3>1 DEF Batches
      <3> QED
        BY <1>2, <3>2
    <2>3. "added" \in observers
      BY <1>1, <1>5, <2>1, ListenToFacts DEF FeedTracked, Startup
    <2>4. Startup'
      BY <1>1, <1>5, <2>1, <2>3, StartupTail DEF FeedTracked
    <2> QED
      BY <1>1, <2>1, <2>2, <2>3, <2>4, SameTracked
  <1>6. CASE unheard' # Keys /\ c.op = "added"
    <2>1. c = listenTo[1] /\ E = Diff(none, cache) /\ unheard # Keys
      BY <1>1, <1>3, <1>6, ObserveAdded
    <2>2. "added" \notin observers
      <3>1. 1 \in DOMAIN sharedQueue /\ sharedQueue[1] = listenTo[1]
        BY <1>1, <2>1 DEF TypeOK
      <3> QED
        BY <2>1, <3>1 DEF FeedTracked, Startup
    <2>3. mainQueue = << >> /\ posts = << >>
      BY <2>1, <2>2 DEF FeedTracked, Startup
    <2>4. Startup'
      BY <1>1, <1>6, <2>1, StartupTail DEF FeedTracked
    <2>5. ASSUME NEW k \in Keys \ unheard' PROVE Tracked(k)'
      <3>1. none \in [Keys -> Content] /\ cache \in [Keys -> Content]
        BY DEF TypeOK, View, Content
      <3>2. \A e \in Diff(none, cache) : e.key = k => e \in E /\ e.val \notin Malformed
        BY <1>1, <2>1, <2>5
      <3> HIDE DEF E, none
      <3>3. E \in SUBSET Diff(none, cache)
        BY <2>1
      <3>4. /\ s \in Seq(Event)
            /\ \E g \in [1..(Len(s) + 1) -> Content] :
                  /\ g[1] = none[k]
                  /\ g[Len(s) + 1] = cache[k]
                  /\ Spells(k, s, g)
        BY <1>2, <3>1, <3>2, <3>3, BatchSpells
      <3>5. PICK g \in [1..(Len(s) + 1) -> Content] :
                  /\ g[1] = none[k]
                  /\ g[Len(s) + 1] = cache[k]
                  /\ Spells(k, s, g)
        BY <3>4
      <3>6. Len(mainQueue') = 0 /\ Len(s) \in Nat
        BY <1>1, <2>3, <3>4
      <3>7. Tasks' = Len(s)
        BY <1>2, <3>6 DEF Tasks
      <3>8. ASSUME NEW i \in 1..Len(s) PROVE Task(i)' = s[i]
        <4>1. ~(i <= 0) /\ i - 0 = i
          BY <3>6
        <4> QED
          BY <1>2, <3>6, <4>1 DEF Task
      <3>9. Shows(posts', k, g[1])
        BY <1>1, <2>3, <3>5 DEF Shows, Rows, none
      <3>10. Tracks(k, g)'
        BY <1>1, <3>5, <3>7, <3>8, <3>9 DEF Tracks, Spells
      <3> QED
        BY <3>7, <3>10 DEF Tracked
    <2> QED
      BY <2>4, <2>5 DEF FeedTracked, Tracked, Content
  <1> QED
    BY <1>4, <1>5, <1>6

\* Steps of the main queue.
LEMMA MainTracked ==
  ASSUME TypeOK, FeedTracked, MainStep
  PROVE  FeedTracked'
  <1>1. UNCHANGED <<sharedQueue, observers, unheard>> /\ mainQueue # << >>
    BY DEF MainStep, RunAdded, RunUpdated, RunRemoved, RunRefresh, Assign, Skip,
           Runs
  <1>2. unheard # Keys => "added" \in observers
    BY <1>1 DEF FeedTracked, Startup
  <1>3. Startup'
    BY <1>1, <1>2 DEF FeedTracked, Startup
  <1>4. ASSUME "added" \in observers', NEW k \in Keys \ unheard'
        PROVE  Tracked(k)'
    <2>1. Tracked(k)
      BY <1>1, <1>4 DEF FeedTracked, Tracked, Content
    <2> QED
      BY <2>1, MainTracks
  <1> QED
    BY <1>3, <1>4 DEF FeedTracked, Tracked, Content

LEMMA DispatchTracked ==
  ASSUME TypeOK, FeedTracked, Dispatch
  PROVE  FeedTracked'
  <1>1. UNCHANGED <<sharedQueue, observers, unheard, posts>> /\ raising # << >>
    BY DEF Dispatch
  <1>2. unheard # Keys => "added" \in observers
    BY <1>1 DEF FeedTracked, Startup
  <1>3. Startup'
    BY <1>1, <1>2 DEF FeedTracked, Startup
  <1>4. ASSUME "added" \in observers', NEW k \in Keys \ unheard'
        PROVE  Tracked(k)'
    <2>1. Tracked(k)
      BY <1>1, <1>4 DEF FeedTracked, Tracked, Content
    <2> QED
      BY <2>1, DispatchTracks
  <1> QED
    BY <1>3, <1>4 DEF FeedTracked, Tracked, Content

LEMMA TrackedNext ==
  TypeOK /\ TypeOK' /\ FeedTracked /\ [Next]_vars => FeedTracked'
  <1> SUFFICES ASSUME TypeOK, TypeOK', FeedTracked, [Next]_vars
               PROVE  FeedTracked'
    OBVIOUS
  <1>1. CASE Launch
    <2>1. Startup'
      BY <1>1 DEF Launch, FeedTracked, Startup
    <2> QED
      BY <1>1, <2>1, SameTracked DEF Launch
  <1>2. ASSUME NEW k \in OwnKeys, NEW v \in Vals, SendPost(k, v)
        PROVE  FeedTracked'
    <2> DEFINE c == [call |-> "set", key |-> k, val |-> v]
    <2>1. c \in Call /\ c # listenTo[1]
      BY <1>2, ListenToFacts DEF SendPost, Call
    <2>2. Startup'
      <3> HIDE DEF c
      <3>1. sharedQueue' = Append(sharedQueue, c)
        BY <1>2 DEF SendPost, c
      <3> QED
        BY <1>2, <2>1, <3>1, StartupAppend DEF SendPost, FeedTracked
    <2> QED
      BY <1>2, <2>2, SameTracked DEF SendPost
  <1>3. CASE DeletePosts
    <2> DEFINE c == [call |-> "remove"]
    <2>1. c \in Call /\ c # listenTo[1]
      BY ListenToFacts DEF Call
    <2>2. Startup'
      <3> HIDE DEF c
      <3>1. sharedQueue' = Append(sharedQueue, c)
        BY <1>3 DEF DeletePosts, c
      <3> QED
        BY <1>3, <2>1, <3>1, StartupAppend DEF DeletePosts, FeedTracked
    <2> QED
      BY <1>3, <2>2, SameTracked DEF DeletePosts
  <1>4. CASE Observe
    BY <1>4, ObserveTracked
  <1>5. CASE LocalSet
    <2> DEFINE new == [cache EXCEPT ![Head(sharedQueue).key] = Head(sharedQueue).val]
    <2>1. cache' = new /\ Update(new)
      BY <1>5 DEF LocalSet, Update
    <2>2. new \in [Keys -> Content]
      BY <2>1 DEF TypeOK, View, Content
    <2>3. Head(sharedQueue) # listenTo[1]
      BY <1>5, ListenToFacts DEF LocalSet
    <2> HIDE DEF new
    <2> QED
      BY <1>5, <2>1, <2>2, <2>3, ViewTracked DEF LocalSet, SharedIdle
  <1>6. CASE LocalRemove
    <2>1. [k \in Keys |-> Null] \in [Keys -> Content]
      BY DEF Content
    <2>2. Head(sharedQueue) # listenTo[1]
      BY <1>6, ListenToFacts DEF LocalRemove
    <2> QED
      BY <1>6, <2>1, <2>2, ViewTracked DEF LocalRemove, SharedIdle
  <1>7. ASSUME NEW new \in View(used), RemoteChange(new)
        PROVE  FeedTracked'
    <2>1. new \in [Keys -> Content]
      BY DEF View, Content
    <2> QED
      BY <1>7, <2>1, ViewTracked DEF RemoteChange, SharedIdle
  <1>8. CASE Revoke
    <2>1. unheard' = Keys
      BY <1>8 DEF Revoke
    <2>2. \A k \in Keys \ unheard' : FALSE
      BY <2>1
    <2> QED
      BY <2>1, <2>2 DEF FeedTracked, Startup
  <1>9. CASE Dispatch
    BY <1>9, DispatchTracked
  <1>10. CASE MainStep
    BY <1>10, MainTracked
  <1>11. ASSUME NEW stored \in View(used), Relaunch(stored)
         PROVE  FeedTracked'
    BY <1>11, ListenToFacts DEF Relaunch, FeedTracked, Startup
  <1>12. CASE UNCHANGED vars
    <2>1. Startup'
      BY <1>12 DEF vars, FeedTracked, Startup
    <2> QED
      BY <1>12, <2>1, SameTracked DEF vars
  <1> QED
    BY <1>1, <1>2, <1>3, <1>4, <1>5, <1>6, <1>7, <1>8, <1>9, <1>10, <1>11,
       <1>12 DEF Next, SharedStep

\* The blocks on their way always spell, post by post, the way from what
\* PostsManager lists to what the SDK's view holds.
THEOREM FeedIsTracked == Spec => []FeedTracked
  <1>1. Init => TypeOK /\ FeedTracked
    BY TypeInit, TrackedInit
  <1>2. TypeOK /\ FeedTracked /\ [Next]_vars => (TypeOK /\ FeedTracked)'
    BY TypeNext, TrackedNext
  <1> QED
    BY <1>1, <1>2, PTL DEF Spec

-----------------------------------------------------------------------------
(***************************************************************************)
(* What follows for PostsManager.posts.                                    *)
(***************************************************************************)

LEMMA TrackedOnePerPost ==
  ASSUME TypeOK, FeedTracked
  PROVE  OnePerPost
  <1> SUFFICES ASSUME NEW k \in Keys \ unheard,
                      NEW i \in Rows(posts, k), NEW j \in Rows(posts, k)
               PROVE  i = j
    BY DEF OnePerPost
  <1>1. CASE "added" \in observers
    <2>1. PICK h \in [1..(Tasks + 1) -> Vals \cup {Null}] : Tracks(k, h)
      BY <1>1 DEF FeedTracked
    <2> QED
      BY <2>1 DEF Tracks, Shows
  <1>2. CASE "added" \notin observers
    <2>1. posts = << >>
      BY <1>2 DEF FeedTracked, Startup
    <2> QED
      BY <2>1 DEF Rows
  <1> QED
    BY <1>1, <1>2

\* When no block is about post k, its history stands still.
LEMMA TrackedExact ==
  ASSUME TypeOK, FeedTracked
  PROVE  FeedExact
  <1> SUFFICES ASSUME NEW k \in Keys \ unheard, "added" \in observers, ~Pending(k)
               PROVE  Shows(posts, k, cache[k])
    BY DEF FeedExact
  <1>1. PICK h \in [1..(Tasks + 1) -> Vals \cup {Null}] : Tracks(k, h)
    BY DEF FeedTracked
  <1>2. Tasks \in Nat /\ Len(mainQueue) \in Nat /\ Len(raising) \in Nat
        /\ Tasks = Len(mainQueue) + Len(raising)
    BY TasksType DEF Tasks
  <1>3. ASSUME NEW i \in 1..Tasks PROVE h[i + 1] = h[i]
    <2>1. ~About(Task(i), k)
      <3>1. CASE i <= Len(mainQueue)
        <4>1. i \in DOMAIN mainQueue /\ Task(i) = mainQueue[i]
          BY <1>2, <3>1 DEF Task, TypeOK
        <4>2. mainQueue[i] = Refresh \/ mainQueue[i].key # k
          BY <4>1 DEF Pending
        <4> QED
          BY <4>1, <4>2 DEF About, Refresh, Ops
      <3>2. CASE ~(i <= Len(mainQueue))
        <4>1. Task(i) = raising[i - Len(mainQueue)]
          BY <3>2 DEF Task
        <4>2. i - Len(mainQueue) \in 1..Len(raising)
          BY <1>2, <3>2
        <4>3. i - Len(mainQueue) \in DOMAIN raising
          BY <4>2 DEF TypeOK
        <4> QED
          BY <4>1, <4>3 DEF Pending, About
      <3> QED
        BY <3>1, <3>2
    <2> QED
      BY <1>1, <2>1 DEF Tracks
  <1>4. \A i \in 1..(Tasks + 1) : h[i] = h[1]
    <2> SUFFICES ASSUME \E i \in 1..(Tasks + 1) : h[i] # h[1] PROVE FALSE
      OBVIOUS
    <2> DEFINE T == {i \in 1..(Tasks + 1) : h[i] # h[1]}
    <2>1. T \in SUBSET Nat /\ T # {}
      BY <1>2
    <2>2. PICK m \in T : \A y \in T : m <= y
      <3> HIDE DEF T
      <3> QED
        BY <2>1, LeastNatural
    <2>3. m \in 2..(Tasks + 1) /\ h[m] # h[1]
      BY <1>2
    <2>4. m - 1 \in 1..Tasks /\ (m - 1) + 1 = m /\ ~(m <= m - 1)
      BY <1>2, <2>3
    <2>5. h[m - 1] = h[1]
      BY <1>2, <2>2, <2>4
    <2> QED
      BY <1>3, <2>3, <2>4, <2>5
  <1>5. Tasks + 1 \in 1..(Tasks + 1)
    BY <1>2
  <1> QED
    BY <1>1, <1>4, <1>5 DEF Tracks

\* No post is listed twice, although startObserving appends without looking.
THEOREM NoPostTwice == Spec => []OnePerPost
  BY TypeCorrect, FeedIsTracked, TrackedOnePerPost, PTL

\* A post with no event on its way is listed as the SDK's view has it.
THEOREM FeedAgrees == Spec => []FeedExact
  BY TypeCorrect, FeedIsTracked, TrackedExact, PTL

-----------------------------------------------------------------------------
(***************************************************************************)
(* Listed posts keep their order.                                          *)
(***************************************************************************)

\* Two posts that are listed once each, before and after, keep their order.
KeepsOrder(k, l) ==
  \A i \in Rows(posts, k), j \in Rows(posts, l),
     a \in Rows(posts', k), b \in Rows(posts', l) : i < j => a < b

LEMMA OrderNext ==
  TypeOK /\ OnePerPost /\ OnePerPost' /\ [Next]_vars
    => \A k, l \in Keys \ unheard' : KeepsOrder(k, l)
  <1> SUFFICES ASSUME TypeOK, OnePerPost, OnePerPost', [Next]_vars,
                      NEW k \in Keys \ unheard', NEW l \in Keys \ unheard',
                      NEW i \in Rows(posts, k), NEW j \in Rows(posts, l),
                      NEW a \in Rows(posts', k), NEW b \in Rows(posts', l),
                      i < j
               PROVE  a < b
    BY DEF KeepsOrder
  <1>1. posts \in Seq(Post) /\ Len(posts) \in Nat /\ DOMAIN posts = 1..Len(posts)
    BY DEF TypeOK
  <1>2. i \in 1..Len(posts) /\ j \in 1..Len(posts)
        /\ posts[i].id = k /\ posts[j].id = l
    BY <1>1 DEF Rows
  <1>3. ASSUME i \in Rows(posts', k), j \in Rows(posts', l) PROVE a < b
    <2>1. a = i /\ b = j
      BY <1>3 DEF OnePerPost
    <2> QED
      BY <2>1
  <1>4. ASSUME posts' = posts PROVE a < b
    BY <1>3, <1>4
  <1>5. ASSUME NEW p, posts' = Append(posts, p) PROVE a < b
    <2>1. \A m \in 1..Len(posts) : m \in DOMAIN posts' /\ posts'[m] = posts[m]
      BY <1>1, <1>5
    <2>2. i \in Rows(posts', k) /\ j \in Rows(posts', l)
      BY <1>2, <2>1 DEF Rows
    <2> QED
      BY <1>3, <2>2
  <1>6. ASSUME NEW p, NEW m \in 1..Len(posts), posts[m].id = p.id,
               posts' = ReplaceAt(posts, m, p)
        PROVE  a < b
    <2>1. /\ DOMAIN posts' = DOMAIN posts
          /\ \A q \in DOMAIN posts : posts'[q] = IF q = m THEN p ELSE posts[q]
      BY <1>1, <1>6 DEF ReplaceAt
    <2>2. i \in Rows(posts', k) /\ j \in Rows(posts', l)
      BY <1>1, <1>2, <1>6, <2>1 DEF Rows
    <2> QED
      BY <1>3, <2>2
  <1>7. ASSUME NEW m \in 1..Len(posts), posts' = RemoveAt(posts, m),
               unheard' = unheard
        PROVE  a < b
    <2> DEFINE n == Len(posts)
    <2>0. /\ RemoveAt(posts, m) \in Seq(Post)
          /\ Len(RemoveAt(posts, m)) = n - 1
          /\ \A q \in 1..(n - 1) :
                RemoveAt(posts, m)[q] = IF q < m THEN posts[q] ELSE posts[q + 1]
      <3>1. posts \in Seq(Post) /\ m \in 1..Len(posts)
        BY <1>1, <1>7
      <3> QED
        BY <3>1, RemoveAtFacts
    <2>1. /\ DOMAIN posts' = 1..(n - 1)
          /\ \A q \in 1..(n - 1) :
                posts'[q] = IF q < m THEN posts[q] ELSE posts[q + 1]
      <3>1. DOMAIN RemoveAt(posts, m) = 1..(n - 1)
        BY <2>0
      <3> QED
        BY <1>7, <2>0, <3>1
    <2>2. ASSUME NEW q \in Keys \ unheard', NEW x \in Rows(posts, q),
                 NEW y \in Rows(posts', q)
          PROVE  x # m /\ y = IF x < m THEN x ELSE x - 1
      <3>1. y \in 1..(n - 1) /\ posts'[y].id = q
        BY <2>1 DEF Rows
      <3> DEFINE z == IF y < m THEN y ELSE y + 1
      <3>2. z \in 1..n /\ posts[z].id = q /\ z # m
        BY <1>1, <2>1, <3>1
      <3>3. z \in Rows(posts, q)
        BY <1>1, <3>2 DEF Rows
      <3>4. z = x
        BY <1>7, <3>3 DEF OnePerPost
      <3> QED
        BY <1>1, <3>1, <3>2, <3>4
    <2>3. a = (IF i < m THEN i ELSE i - 1) /\ i # m
      BY <2>2
    <2>4. b = (IF j < m THEN j ELSE j - 1) /\ j # m
      BY <2>2
    <2> QED
      BY <1>1, <1>2, <2>3, <2>4
  <1>8. CASE RunAdded
    BY <1>4, <1>5, <1>8 DEF RunAdded, Assign, Skip
  <1>9. CASE RunUpdated
    <2>1. CASE Decodes /\ Occurs(HeadPost.id)
      BY <1>1, <1>6, <1>9, <2>1, IndexOfFacts DEF RunUpdated, Assign
    <2>2. CASE ~(Decodes /\ Occurs(HeadPost.id))
      BY <1>4, <1>9, <2>2 DEF RunUpdated, Skip
    <2> QED
      BY <2>1, <2>2
  <1>10. CASE RunRemoved
    <2>1. CASE Decodes /\ Occurs(HeadPost.id)
      BY <1>1, <1>7, <1>10, <2>1, IndexOfFacts DEF RunRemoved, Assign
    <2>2. CASE ~(Decodes /\ Occurs(HeadPost.id))
      BY <1>4, <1>10, <2>2 DEF RunRemoved, Skip
    <2> QED
      BY <2>1, <2>2
  <1>11. ASSUME NEW stored \in View(used), Relaunch(stored) PROVE a < b
    BY <1>11 DEF Relaunch, Rows
  <1>12. CASE ~(\/ RunAdded \/ RunUpdated \/ RunRemoved
                \/ \E stored \in View(used) : Relaunch(stored))
    BY <1>4, <1>12 DEF Next, vars, Launch, SendPost, DeletePosts, SharedStep,
       Observe, LocalSet, LocalRemove, RemoteChange, Revoke, Dispatch, MainStep,
       RunRefresh
  <1> QED
    BY <1>8, <1>9, <1>10, <1>11, <1>12

\* No step of the feed swaps two posts that stay listed.
THEOREM OrderIsStable == Spec => OrderStable
  <1>1. [Next]_vars /\ TypeOK /\ OnePerPost /\ OnePerPost'
          => [\A k, l \in Keys \ unheard' :
                \A i \in Rows(posts, k), j \in Rows(posts, l),
                   a \in Rows(posts', k), b \in Rows(posts', l) :
                     i < j => a < b]_vars
    BY OrderNext DEF KeepsOrder
  <1> QED
    BY <1>1, TypeCorrect, NoPostTwice, PTL DEF Spec, OrderStable

=============================================================================
