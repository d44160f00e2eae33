--------------------------- MODULE ContainerProofs ---------------------------
(***************************************************************************)
(* Theorems about Container, for any controllers and any number of waiting *)
(* closures.                                                               *)
(***************************************************************************)
EXTENDS Container, SequenceTheorems, TLAPS

-----------------------------------------------------------------------------
(***************************************************************************)
(* Facts about sequences.                                                  *)
(***************************************************************************)

\* RemoveAt drops one element and keeps the others in order.
LEMMA RemoveAtFacts ==
  ASSUME NEW S, NEW s \in Seq(S), NEW i \in 1..Len(s)
  PROVE  /\ RemoveAt(s, i) \in Seq(S)
         /\ Len(RemoveAt(s, i)) = Len(s) - 1
         /\ \A j \in 1..(Len(s) - 1) :
               RemoveAt(s, i)[j] = IF j < i THEN s[j] ELSE s[j + 1]
  <1> DEFINE t == SubSeq(s, 1, i - 1)
             u == SubSeq(s, i + 1, Len(s))
  <1>1. /\ t \in Seq(S)
        /\ Len(t) = i - 1
        /\ \A j \in 1..(i - 1) : t[j] = s[j]
    BY SubSeqProperties
  <1>2. /\ u \in Seq(S)
        /\ Len(u) = Len(s) - i
        /\ \A j \in 1..(Len(s) - i) : u[j] = s[i + j]
    BY SubSeqProperties
  <1>3. RemoveAt(s, i) = t \o u
    BY DEF RemoveAt
  <1> HIDE DEF t, u
  <1>4. /\ t \o u \in Seq(S)
        /\ Len(t \o u) = Len(t) + Len(u)
        /\ \A j \in 1..(Len(t) + Len(u)) :
             (t \o u)[j] = IF j <= Len(t) THEN t[j] ELSE u[j - Len(t)]
    BY <1>1, <1>2, ConcatProperties
  <1>5. Len(s) \in Nat /\ i \in Nat /\ Len(t) + Len(u) = Len(s) - 1
    BY <1>1, <1>2
  <1>6. ASSUME NEW j \in 1..(Len(s) - 1)
        PROVE  (t \o u)[j] = IF j < i THEN s[j] ELSE s[j + 1]
    <2>1. CASE j < i
      BY <1>1, <1>4, <1>5, <2>1
    <2>2. CASE ~(j < i)
      <3>1. (t \o u)[j] = u[j - (i - 1)]
        BY <1>1, <1>4, <1>5, <2>2
      <3>2. j - (i - 1) \in 1..(Len(s) - i) /\ i + (j - (i - 1)) = j + 1
        BY <1>5, <2>2
      <3> QED
        BY <1>2, <2>2, <3>1, <3>2
    <2> QED
      BY <2>1, <2>2
  <1> QED
    BY <1>3, <1>4, <1>5, <1>6

-----------------------------------------------------------------------------
(***************************************************************************)
(* Waiting closures.                                                       *)
(***************************************************************************)

\* A closure that runs leaves the others waiting.
LEMMA RunningKeeps ==
  ASSUME NEW S, NEW s \in Seq(S), NEW i \in 1..Len(s)
  PROVE  /\ RemoveAt(s, i) \in Seq(S)
         /\ \A j \in 1..Len(s) :
              s[j] # s[i] => \E l \in DOMAIN RemoveAt(s, i) : RemoveAt(s, i)[l] = s[j]
  <1> DEFINE r == RemoveAt(s, i)
  <1>1. /\ r \in Seq(S)
        /\ Len(r) = Len(s) - 1
        /\ \A j \in 1..(Len(s) - 1) : r[j] = IF j < i THEN s[j] ELSE s[j + 1]
    BY RemoveAtFacts
  <1>2. Len(s) \in Nat /\ i \in 1..Len(s) /\ DOMAIN r = 1..(Len(s) - 1)
    BY <1>1
  <1> HIDE DEF r
  <1>3. ASSUME NEW j \in 1..Len(s), s[j] # s[i]
        PROVE  \E l \in DOMAIN r : r[l] = s[j]
    <2>1. j # i
      BY <1>3
    <2>2. CASE j < i
      <3>1. j \in 1..(Len(s) - 1)
        BY <1>2, <2>2
      <3> QED
        BY <1>1, <1>2, <2>2, <3>1
    <2>3. CASE j > i
      <3>1. j - 1 \in 1..(Len(s) - 1) /\ ~(j - 1 < i) /\ (j - 1) + 1 = j
        BY <1>2, <2>3
      <3> QED
        BY <1>1, <1>2, <3>1
    <2> QED
      BY <1>2, <2>1, <2>2, <2>3
  <1> QED
    BY <1>1, <1>3 DEF r

\* What a closure is.
LEMMA ClosureFacts ==
  /\ \A c \in Controllers : Out(c) \in Closure /\ In(c) \in Closure
  /\ \A c, d : Out(c) # In(d)
  /\ \A c, d : (In(c) = In(d) => c = d) /\ (Out(c) = Out(d) => c = d)
  /\ \A t \in Closure : /\ t.of \in Controllers
                        /\ t.closure = "out" => t = Out(t.of)
                        /\ t.closure = "in" => t = In(t.of)
  BY DEF Out, In, Closure

\* EmbedAnimated posts two closures and keeps those that wait.
LEMMA AnimatedKeeps ==
  ASSUME TypeOK, NEW c \in Controllers, EmbedAnimated(c),
         NEW e \in Controllers, e = embededController
  PROVE  /\ timers' \in Seq(Closure)
         /\ \A t : Waiting(t) => Waiting(t)'
         /\ Waiting(Out(e))'
         /\ Waiting(In(c))'
  <1>1. timers \in Seq(Closure) /\ DOMAIN timers = 1..Len(timers)
    BY DEF TypeOK
  <1>2. PICK o \in Closure : o = Out(e)
    BY ClosureFacts
  <1>3. PICK n \in Closure : n = In(c)
    BY ClosureFacts
  <1>4. timers' = timers \o <<o, n>>
    BY <1>2, <1>3 DEF EmbedAnimated
  <1>5. /\ timers' \in Seq(Closure)
        /\ \A i \in 1..Len(timers) : \E j \in DOMAIN timers' : timers'[j] = timers[i]
        /\ \E j \in DOMAIN timers' : timers'[j] = o
        /\ \E j \in DOMAIN timers' : timers'[j] = n
    <2>1. PICK s \in Seq(Closure) : s = timers
      BY <1>1
    <2>2. PICK r : r = timers'
      OBVIOUS
    <2>3. r = s \o <<o, n>>
      BY <1>4, <2>1, <2>2
    <2>4. <<o, n>> \in Seq(Closure) /\ Len(<<o, n>>) = 2
      OBVIOUS
    <2>5. /\ r \in Seq(Closure)
          /\ Len(r) = Len(s) + 2
          /\ \A i \in 1..(Len(s) + 2) :
               r[i] = IF i <= Len(s) THEN s[i] ELSE <<o, n>>[i - Len(s)]
      BY <2>3, <2>4, ConcatProperties
    <2>6. Len(s) \in Nat /\ DOMAIN r = 1..(Len(s) + 2)
      BY <2>5
    <2>7. ASSUME NEW i \in 1..Len(s) PROVE i \in DOMAIN r /\ r[i] = s[i]
      BY <2>5, <2>6
    <2>8. Len(s) + 1 \in DOMAIN r /\ r[Len(s) + 1] = o
      BY <2>5, <2>6
    <2>9. Len(s) + 2 \in DOMAIN r /\ r[Len(s) + 2] = n
      BY <2>5, <2>6
    <2> QED
      BY <2>1, <2>2, <2>5, <2>7, <2>8, <2>9
  <1> QED
    BY <1>1, <1>2, <1>3, <1>5 DEF Waiting

\* A closure that runs is gone, the others keep waiting.
LEMMA FiringKeeps ==
  ASSUME TypeOK, NEW i \in DOMAIN timers, NEW k, Fires(i, k),
         NEW d, d = timers[i]
  PROVE  /\ timers' \in Seq(Closure)
         /\ d \in Closure
         /\ \A t : Waiting(t) /\ t # d => Waiting(t)'
  <1>1. timers \in Seq(Closure) /\ DOMAIN timers = 1..Len(timers)
    BY DEF TypeOK
  <1>2. timers' = RemoveAt(timers, i)
    BY DEF Fires
  <1>3. /\ timers' \in Seq(Closure)
        /\ \A j \in 1..Len(timers) :
             timers[j] # timers[i] => \E l \in DOMAIN timers' : timers'[l] = timers[j]
    BY <1>1, <1>2, RunningKeeps, SMTT(30)
  <1> QED
    BY <1>1, <1>3 DEF Waiting

-----------------------------------------------------------------------------
(***************************************************************************)
(* Types.                                                                  *)
(***************************************************************************)

LEMMA TypeNext == TypeOK /\ [Next]_vars => TypeOK'
  <1> SUFFICES ASSUME TypeOK, [Next]_vars PROVE TypeOK'
    OBVIOUS
  <1>1. ASSUME NEW c \in Controllers, NEW animated \in BOOLEAN, EmbedFirst(c, animated)
        PROVE  TypeOK'
    BY <1>1 DEF TypeOK, EmbedFirst
  <1>2. ASSUME NEW c \in Controllers, EmbedAnimated(c) PROVE TypeOK'
    <2>1. PICK e \in Controllers : e = embededController
      BY <1>2 DEF TypeOK, EmbedAnimated
    <2>2. timers' \in Seq(Closure)
      BY <1>2, <2>1, AnimatedKeeps
    <2> QED
      BY <1>2, <2>1, <2>2 DEF TypeOK, EmbedAnimated
  <1>3. ASSUME NEW c \in Controllers, EmbedAtOnce(c) PROVE TypeOK'
    BY <1>3 DEF TypeOK, EmbedAtOnce
  <1>4. ASSUME NEW i \in DOMAIN timers, RemoveView(i) PROVE TypeOK'
    <2>1. timers' \in Seq(Closure)
      BY <1>4, FiringKeeps DEF RemoveView
    <2> QED
      BY <1>4, <2>1 DEF TypeOK, RemoveView
  <1>5. ASSUME NEW i \in DOMAIN timers, Appear(i) PROVE TypeOK'
    <2>1. timers' \in Seq(Closure) /\ timers[i] \in Closure
      BY <1>5, FiringKeeps DEF Appear
    <2>2. embededController \in Controllers
      BY <1>5, <2>1, ClosureFacts DEF Appear
    <2> QED
      BY <1>5, <2>1, <2>2 DEF TypeOK, Appear
  <1>6. ASSUME NEW i \in DOMAIN timers, AppearStale(i) PROVE TypeOK'
    <2>1. timers' \in Seq(Closure)
      BY <1>6, FiringKeeps DEF AppearStale
    <2> QED
      BY <1>6, <2>1 DEF TypeOK, AppearStale
  <1>7. CASE UNCHANGED vars
    BY <1>7 DEF TypeOK, vars
  <1> QED
    BY <1>1, <1>2, <1>3, <1>4, <1>5, <1>6, <1>7 DEF Next

\* The container's variables keep their types.
THEOREM ContainerTypes == Spec => []TypeOK
  <1>1. Init => TypeOK
    <2>1. Init => timers \in Seq(Closure)
      BY DEF Init
    <2> QED
      BY <2>1, Zenon DEF Init, TypeOK
  <1> QED
    BY <1>1, TypeNext, PTL DEF Spec

-----------------------------------------------------------------------------
(***************************************************************************)
(* The replacement.  Replaced is inductive with the types.                 *)
(***************************************************************************)

LEMMA ReplacedNext == TypeOK /\ Replaced /\ [Next]_vars => Replaced'
  <1> SUFFICES ASSUME TypeOK, Replaced, [Next]_vars PROVE Replaced'
    OBVIOUS
  <1>1. ASSUME NEW c \in Controllers, NEW animated \in BOOLEAN, EmbedFirst(c, animated)
        PROVE  Replaced'
    BY <1>1 DEF Replaced, EmbedFirst
  <1>2. ASSUME NEW c \in Controllers, EmbedAnimated(c) PROVE Replaced'
    <2>1. PICK e \in Controllers : e = embededController
      BY <1>2 DEF TypeOK, EmbedAnimated
    <2>2. /\ \A t : Waiting(t) => Waiting(t)'
          /\ Waiting(Out(e))'
          /\ Waiting(In(c))'
      BY <1>2, <2>1, AnimatedKeeps
    <2>3. /\ children' = children \ {e}
          /\ subviews' = subviews
          /\ embededController' = c
      BY <1>2, <2>1 DEF EmbedAnimated
    <2>4. children' \subseteq {c}
      BY <2>1, <2>3 DEF Replaced
    <2>5. Waiting(In(embededController))'
      BY <2>2, <2>3 DEF Waiting
    <2>6. ASSUME NEW d \in subviews', d # c PROVE Waiting(Out(d))'
      <3>1. CASE d = e
        BY <2>2, <3>1
      <3>2. CASE d # e
        <4>1. Waiting(Out(d))
          BY <2>1, <2>3, <2>6, <3>2 DEF Replaced
        <4> QED
          BY <2>2, <4>1
      <3> QED
        BY <3>1, <3>2
    <2> QED
      BY <2>3, <2>4, <2>5, <2>6 DEF Replaced
  <1>3. ASSUME NEW c \in Controllers, EmbedAtOnce(c) PROVE Replaced'
    <2>1. \A t : Waiting(t)' <=> Waiting(t)
      BY <1>3 DEF EmbedAtOnce, Waiting
    <2>2. ASSUME NEW d \in subviews', d # c PROVE Waiting(Out(d))'
      <3>1. Waiting(Out(d))
        BY <1>3, <2>2 DEF EmbedAtOnce, Replaced
      <3> QED
        BY <2>1, <3>1
    <2> QED
      BY <1>3, <2>2 DEF EmbedAtOnce, Replaced
  <1>4. ASSUME NEW i \in DOMAIN timers, RemoveView(i) PROVE Replaced'
    <2>1. PICK d : d = timers[i]
      OBVIOUS
    <2>2. d \in Closure /\ \A t : Waiting(t) /\ t # d => Waiting(t)'
      BY <1>4, <2>1, FiringKeeps DEF RemoveView
    <2>3. d = Out(d.of)
      BY <1>4, <2>1, <2>2, ClosureFacts DEF RemoveView, Fires
    <2>4. PICK e : e = embededController /\ e = embededController'
      BY <1>4 DEF RemoveView
    <2>5. /\ children' = children
          /\ subviews' = subviews \ ({d.of} \ children)
      BY <1>4, <2>1 DEF RemoveView
    <2>6. children' \subseteq {e}
      BY <2>4, <2>5 DEF Replaced
    <2>7. ASSUME e # None PROVE (e \in children' /\ e \in subviews') \/ Waiting(In(e))'
      <3>1. (e \in children /\ e \in subviews) \/ Waiting(In(e))
        BY <2>4, <2>7 DEF Replaced
      <3>2. In(e) # d
        BY <2>3, ClosureFacts
      <3> QED
        BY <2>2, <2>5, <3>1, <3>2
    <2>8. ASSUME NEW b \in subviews', b # e PROVE Waiting(Out(b))'
      <3>1. Waiting(Out(b)) /\ b \notin children /\ b # d.of
        BY <2>4, <2>5, <2>8 DEF Replaced
      <3>2. Out(b) # d
        BY <2>3, <3>1, ClosureFacts
      <3> QED
        BY <2>2, <3>1, <3>2
    <2>9. Waiting(In(embededController))' <=> Waiting(In(e))'
      BY <2>4 DEF Waiting
    <2> QED
      BY <2>4, <2>6, <2>7, <2>8, <2>9 DEF Replaced
  <1>5. ASSUME NEW i \in DOMAIN timers, Appear(i) \/ AppearStale(i) PROVE Replaced'
    <2>1. PICK d : d = timers[i]
      OBVIOUS
    <2>2. d \in Closure /\ \A t : Waiting(t) /\ t # d => Waiting(t)'
      BY <1>5, <2>1, FiringKeeps DEF Appear, AppearStale
    <2>3. d = In(d.of) /\ d.of \in Controllers
      BY <1>5, <2>1, <2>2, ClosureFacts DEF Appear, AppearStale, Fires
    <2>4. PICK e : e = embededController /\ e = embededController'
      BY <1>5 DEF Appear, AppearStale
    <2>5. \A b : Waiting(Out(b)) => Waiting(Out(b))'
      BY <2>2, <2>3, ClosureFacts
    <2>6. CASE Appear(i)
      <3>1. /\ children' = children \cup {e}
            /\ subviews' = subviews \cup {e}
        BY <2>4, <2>6 DEF Appear
      <3>2. ASSUME NEW b \in subviews', b # e PROVE Waiting(Out(b))'
        BY <2>4, <2>5, <3>1, <3>2 DEF Replaced
      <3> QED
        BY <2>4, <3>1, <3>2 DEF Replaced
    <2>7. CASE AppearStale(i)
      <3>1. children' = children /\ subviews' = subviews /\ d.of # e
        BY <2>1, <2>4, <2>7 DEF AppearStale
      <3>2. In(e) # d
        BY <2>3, <3>1, ClosureFacts
      <3>3. ASSUME NEW b \in subviews', b # e PROVE Waiting(Out(b))'
        BY <2>4, <2>5, <3>1, <3>3 DEF Replaced
      <3>4. ASSUME e # None PROVE (e \in children' /\ e \in subviews') \/ Waiting(In(e))'
        <4>1. (e \in children /\ e \in subviews) \/ Waiting(In(e))
          BY <2>4, <3>4 DEF Replaced
        <4> QED
          BY <2>2, <3>1, <3>2, <4>1
      <3>5. Waiting(In(embededController))' <=> Waiting(In(e))'
        BY <2>4 DEF Waiting
      <3> QED
        BY <2>4, <3>1, <3>3, <3>4, <3>5 DEF Replaced
    <2> QED
      BY <1>5, <2>6, <2>7
  <1>6. CASE UNCHANGED vars
    BY <1>6 DEF Replaced, Waiting, vars
  <1> QED
    BY <1>1, <1>2, <1>3, <1>4, <1>5, <1>6 DEF Next

\* embed and its closures complete every replacement, however they interleave.
THEOREM ReplacementCompletes == Spec => []Replaced
  <1>1. Init => Replaced
    BY DEF Init, Replaced
  <1> QED
    BY <1>1, ContainerTypes, ReplacedNext, PTL DEF Spec

\* When embed's closures have run the container holds exactly what was last
\* embedded.
THEOREM ContainerSettles == Spec => []Settles
  <1>1. Replaced /\ TypeOK => Settles
    <2> SUFFICES ASSUME Replaced, TypeOK, timers = << >>, embededController # None
                 PROVE  children = {embededController} /\ subviews = {embededController}
      BY DEF Settles
    <2>1. \A t : ~Waiting(t)
      BY DEF Waiting
    <2> QED
      BY <2>1 DEF Replaced
  <1> QED
    BY <1>1, ContainerTypes, ReplacementCompletes, PTL

\* embed never leaves a replaced content showing.
THEOREM OnlyOneOpaque == Spec => []OneOpaque
  <1>1. Init => OneOpaque
    BY DEF Init, OneOpaque
  <1>2. TypeOK /\ OneOpaque /\ [Next]_vars => OneOpaque'
    <2> SUFFICES ASSUME OneOpaque, [Next]_vars PROVE OneOpaque'
      OBVIOUS
    <2>1. ASSUME NEW c \in Controllers, NEW animated \in BOOLEAN, EmbedFirst(c, animated)
          PROVE  OneOpaque'
      BY <2>1 DEF OneOpaque, EmbedFirst
    <2>2. ASSUME NEW c \in Controllers, EmbedAnimated(c) PROVE OneOpaque'
      BY <2>2 DEF OneOpaque, EmbedAnimated
    <2>3. ASSUME NEW c \in Controllers, EmbedAtOnce(c) PROVE OneOpaque'
      BY <2>3 DEF OneOpaque, EmbedAtOnce
    <2>4. ASSUME NEW i \in DOMAIN timers, RemoveView(i) PROVE OneOpaque'
      BY <2>4 DEF OneOpaque, RemoveView
    <2>5. ASSUME NEW i \in DOMAIN timers, Appear(i) PROVE OneOpaque'
      BY <2>5 DEF OneOpaque, Appear
    <2>6. ASSUME NEW i \in DOMAIN timers, AppearStale(i) PROVE OneOpaque'
      BY <2>6 DEF OneOpaque, AppearStale
    <2>7. CASE UNCHANGED vars
      BY <2>7 DEF OneOpaque, vars
    <2> QED
      BY <2>1, <2>2, <2>3, <2>4, <2>5, <2>6, <2>7 DEF Next
  <1> QED
    BY <1>1, <1>2, ContainerTypes, PTL DEF Spec

\* A container that was never used has faded nothing.
Unused == embededController = None => faded = {}

LEMMA NotLeftFadedNext ==
  TypeOK /\ Unused /\ NotLeftFaded /\ [Next]_vars => Unused' /\ NotLeftFaded'
  <1> SUFFICES ASSUME TypeOK, Unused, NotLeftFaded, [Next]_vars
               PROVE  Unused' /\ NotLeftFaded'
    OBVIOUS
  <1>1. ASSUME NEW c \in Controllers, NEW animated \in BOOLEAN, EmbedFirst(c, animated)
        PROVE  Unused' /\ NotLeftFaded'
    BY <1>1, ControllersAssumption DEF Unused, NotLeftFaded, EmbedFirst
  <1>2. ASSUME NEW c \in Controllers, EmbedAnimated(c) PROVE Unused' /\ NotLeftFaded'
    <2>1. PICK e \in Controllers : e = embededController
      BY <1>2 DEF TypeOK, EmbedAnimated
    <2>2. Waiting(In(c))' /\ embededController' = c
      BY <1>2, <2>1, AnimatedKeeps DEF EmbedAnimated
    <2>3. Waiting(In(embededController))'
      BY <2>2 DEF Waiting
    <2> QED
      BY <2>2, <2>3, ControllersAssumption DEF Unused, NotLeftFaded
  <1>3. ASSUME NEW c \in Controllers, EmbedAtOnce(c) PROVE Unused' /\ NotLeftFaded'
    BY <1>3, ControllersAssumption DEF Unused, NotLeftFaded, EmbedAtOnce
  <1>4. ASSUME NEW i \in DOMAIN timers, RemoveView(i) \/ Appear(i) \/ AppearStale(i)
        PROVE  Unused' /\ NotLeftFaded'
    <2>1. PICK d : d = timers[i]
      OBVIOUS
    <2>2. d \in Closure /\ \A t : Waiting(t) /\ t # d => Waiting(t)'
      BY <1>4, <2>1, FiringKeeps DEF RemoveView, Appear, AppearStale
    <2>3. PICK e : e = embededController /\ e = embededController'
      BY <1>4 DEF RemoveView, Appear, AppearStale
    <2>4. faded' \subseteq faded /\ animatedLast' = animatedLast
      BY <1>4 DEF RemoveView, Appear, AppearStale
    <2>5. Waiting(In(embededController))' <=> Waiting(In(e))'
      BY <2>3 DEF Waiting
    <2>6. In(e) # d \/ e \notin faded'
      <3>1. CASE RemoveView(i)
        BY <2>1, <2>2, <3>1, ClosureFacts DEF RemoveView, Fires
      <3>2. CASE Appear(i)
        BY <2>3, <3>2 DEF Appear
      <3>3. CASE AppearStale(i)
        BY <2>1, <2>3, <3>3 DEF AppearStale, In
      <3> QED
        BY <1>4, <3>1, <3>2, <3>3
    <2> QED
      BY <2>2, <2>3, <2>4, <2>5, <2>6 DEF Unused, NotLeftFaded
  <1>5. CASE UNCHANGED vars
    BY <1>5 DEF Unused, NotLeftFaded, Waiting, vars
  <1> QED
    BY <1>1, <1>2, <1>3, <1>4, <1>5 DEF Next

\* A controller embedded with an animation is not left transparent.
THEOREM NeverLeftFaded == Spec => []NotLeftFaded
  <1>1. Init => Unused /\ NotLeftFaded
    BY DEF Init, Unused, NotLeftFaded
  <1> QED
    BY <1>1, ContainerTypes, NotLeftFadedNext, PTL DEF Spec
=============================================================================
