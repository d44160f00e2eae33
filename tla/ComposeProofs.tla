---------------------------- MODULE ComposeProofs ----------------------------
(***************************************************************************)
(* Theorems about Compose, for any number of screens, any texts and any    *)
(* order of taps and transitions.                                          *)
(***************************************************************************)
EXTENDS Compose, SequenceTheorems, TLAPS

-----------------------------------------------------------------------------
(***************************************************************************)
(* Facts about sequences.                                                  *)
(***************************************************************************)

\* No element occurs twice.
Distinct(s) == \A i, j \in 1..Len(s) : s[i] = s[j] => i = j

\* What Append adds to a sequence.
LEMMA AppendFacts ==
  ASSUME NEW S, NEW s \in Seq(S), NEW x \in S, x \notin ToSet(s), Distinct(s)
  PROVE  /\ Append(s, x) \in Seq(S)
         /\ Len(Append(s, x)) = Len(s) + 1
         /\ \A i \in 1..Len(s) : Append(s, x)[i] = s[i]
         /\ Append(s, x)[Len(s) + 1] = x
         /\ ToSet(Append(s, x)) = ToSet(s) \cup {x}
         /\ Distinct(Append(s, x))
  <1> DEFINE a == Append(s, x)
  <1>1. /\ a \in Seq(S) /\ Len(a) = Len(s) + 1 /\ Len(s) \in Nat
        /\ \A i \in 1..Len(s) : a[i] = s[i]
        /\ a[Len(s) + 1] = x
    OBVIOUS
  <1> HIDE DEF a
  <1>2. ToSet(a) = ToSet(s) \cup {x}
    BY <1>1 DEF ToSet
  <1>3. \A i \in 1..Len(s) : s[i] # x
    BY DEF ToSet
  <1>4. Distinct(a)
    BY <1>1, <1>3 DEF Distinct
  <1> QED
    BY <1>1, <1>2, <1>4 DEF a

\* What Front leaves of a sequence.
LEMMA FrontFacts ==
  ASSUME NEW S, NEW s \in Seq(S), Len(s) >= 1, Distinct(s)
  PROVE  /\ Front(s) \in Seq(S)
         /\ Len(Front(s)) = Len(s) - 1
         /\ \A i \in 1..(Len(s) - 1) : Front(s)[i] = s[i]
         /\ ToSet(Front(s)) = ToSet(s) \ {Last(s)}
         /\ Distinct(Front(s))
  <1> DEFINE f == Front(s)
  <1>1. /\ f \in Seq(S)
        /\ Len(f) = Len(s) - 1
        /\ \A i \in 1..(Len(s) - 1) : f[i] = s[i]
    <2>1. PICK n \in Int : n = Len(s) - 1
      OBVIOUS
    <2>2. Len(s) \in Nat /\ n >= 0 /\ \A i \in 1..n : s[i] \in S
      BY <2>1
    <2>3. PICK g : g = SubSeq(s, 1, n)
      OBVIOUS
    <2>4. /\ g \in Seq(S)
          /\ Len(g) = IF 1 <= n THEN n - 1 + 1 ELSE 0
          /\ \A i \in 1..(n - 1 + 1) : g[i] = s[1 + i - 1]
      BY <2>2, <2>3, SubSeqProperties
    <2>5. f = g
      BY <2>1, <2>3 DEF Front
    <2>6. \A i \in 1..n : g[i] = s[i]
      BY <2>2, <2>4
    <2> HIDE DEF f
    <2> QED
      BY <2>1, <2>2, <2>4, <2>5, <2>6
  <1>2. Len(s) \in Nat /\ DOMAIN s = 1..Len(s) /\ DOMAIN f = 1..(Len(s) - 1)
    BY <1>1
  <1> HIDE DEF f
  <1>3. ASSUME NEW x PROVE x \in ToSet(f) <=> x \in ToSet(s) /\ x # Last(s)
    BY <1>1, <1>2 DEF ToSet, Last, Distinct
  <1>4. Distinct(f)
    BY <1>1, <1>2 DEF Distinct
  <1> QED
    BY <1>1, <1>3, <1>4 DEF f

-----------------------------------------------------------------------------
(***************************************************************************)
(* The inductive invariant.                                                *)
(***************************************************************************)

TypeOK ==
  /\ viewControllers \in Seq(Screens \cup {List})
  /\ onScreen \in Screens \cup {List}
  /\ made \subseteq Screens
  /\ parent \in [Screens -> {Nav, None}]
  /\ inWindow \subseteq Screens
  /\ nameField \in [Screens -> Names \cup {Empty}]
  /\ textView \in [Screens -> Texts \cup {Empty}]
  /\ sent \in Seq(Sent)
  /\ tapped \in Seq(Screens)

\* The list stays at the bottom, and above it are screens that were pushed
\* once and whose views are in the hierarchy.
StackSound ==
  /\ Len(viewControllers) >= 1
  /\ viewControllers[1] = List
  /\ Distinct(viewControllers)
  /\ ToSet(viewControllers) \subseteq (made \cap inWindow) \cup {List}

\* A displayed screen is on top or has been popped, and until the transition
\* ends its view is in the hierarchy.
DisplayedSound ==
  onScreen # List =>
    /\ onScreen \in made \cap inWindow
    /\ onScreen = Last(viewControllers) \/ onScreen \notin ToSet(viewControllers)

\* A sender existed, so that "+" cannot push it again.
SendersMade == \A i \in DOMAIN sent : sent[i].from \in made

Inv ==
  /\ TypeOK
  /\ StackSound
  /\ DisplayedSound
  /\ SendersMade
  /\ SentScreenGone
  /\ EveryTapSends

\* The message of a displayed screen reaches the navigation controller.
LEMMA MessageArrives ==
  ASSUME Inv, onScreen \in Screens
  PROVE  coordinatingResponder(onScreen) = Nav
  <1>1. onScreen # List /\ onScreen # Nav
    BY ComposeAssumption
  <1>2. onScreen \in inWindow /\ parent[onScreen] \in {Nav, None}
    BY <1>1 DEF Inv, TypeOK, DisplayedSound
  <1> QED
    BY <1>1, <1>2, ComposeAssumption DEF coordinatingResponder, parentController

\* Popping a displayed screen that is on top.
LEMMA PopSound ==
  ASSUME Inv, onScreen # List, Last(viewControllers) = onScreen, Pop
  PROVE  /\ viewControllers' \in Seq(Screens \cup {List})
         /\ parent' \in [Screens -> {Nav, None}]
         /\ Len(viewControllers') >= 1
         /\ viewControllers'[1] = List
         /\ Distinct(viewControllers')
         /\ ToSet(viewControllers') = ToSet(viewControllers) \ {onScreen}
  <1>1. PICK v \in Seq(Screens \cup {List}) : v = viewControllers
    BY DEF Inv, TypeOK
  <1>2. Len(v) >= 1 /\ v[1] = List /\ Distinct(v) /\ Len(v) \in Nat
    BY <1>1 DEF Inv, StackSound
  <1>3. /\ Front(v) \in Seq(Screens \cup {List})
        /\ Len(Front(v)) = Len(v) - 1
        /\ \A i \in 1..(Len(v) - 1) : Front(v)[i] = v[i]
        /\ ToSet(Front(v)) = ToSet(v) \ {Last(v)}
        /\ Distinct(Front(v))
    BY <1>2, FrontFacts
  <1>4. Len(v) # 1
    BY <1>1, <1>2 DEF Last
  <1>5. Front(v)[1] = List /\ Len(Front(v)) >= 1
    BY <1>2, <1>3, <1>4
  <1>6. viewControllers' = Front(v)
    BY <1>1 DEF Pop
  <1>7. parent' \in [Screens -> {Nav, None}]
    BY DEF Pop, Inv, TypeOK
  <1> QED
    BY <1>1, <1>3, <1>5, <1>6, <1>7

-----------------------------------------------------------------------------
(***************************************************************************)
(* Every step preserves it.                                                *)
(***************************************************************************)

LEMMA InitInv == Init => Inv
  <1> SUFFICES ASSUME Init PROVE Inv
    OBVIOUS
  <1>1. TypeOK
    BY DEF Init, TypeOK
  <1>2. StackSound
    BY DEF Init, StackSound, Distinct, ToSet
  <1> QED
    BY <1>1, <1>2 DEF Init, Inv, DisplayedSound, SendersMade, SentScreenGone, EveryTapSends

\* "+" pushes a screen that has never been on the stack.
LEMMA AddPostTappedInv ==
  ASSUME Inv, NEW s \in Screens, addPostTapped(s)
  PROVE  Inv'
  <1> USE DEF addPostTapped, didTapOnAddPost
  <1>1. PICK v \in Seq(Screens \cup {List}) : v = viewControllers
    BY DEF Inv, TypeOK
  <1>2. s \notin ToSet(v) /\ s # List
    BY <1>1, ComposeAssumption DEF Inv, StackSound
  <1>3. /\ Append(v, s) \in Seq(Screens \cup {List})
        /\ Len(Append(v, s)) = Len(v) + 1
        /\ \A i \in 1..Len(v) : Append(v, s)[i] = v[i]
        /\ ToSet(Append(v, s)) = ToSet(v) \cup {s}
        /\ Distinct(Append(v, s))
    BY <1>1, <1>2, AppendFacts DEF Inv, StackSound
  <1>4. viewControllers' = Append(v, s)
    BY <1>1
  <1>5. TypeOK'
    <2>1. viewControllers' \in Seq(Screens \cup {List})
      BY <1>3, <1>4
    <2>2. /\ parent' \in [Screens -> {Nav, None}]
          /\ nameField' \in [Screens -> Names \cup {Empty}]
          /\ textView' \in [Screens -> Texts \cup {Empty}]
      BY DEF Inv, TypeOK, setup
    <2>3. made' \subseteq Screens /\ inWindow' \subseteq Screens
      BY DEF Inv, TypeOK
    <2> QED
      BY <2>1, <2>2, <2>3 DEF Inv, TypeOK
  <1>6. StackSound'
    <2>1. Len(v) \in Nat /\ Len(v) >= 1 /\ v[1] = List
      BY <1>1 DEF Inv, StackSound
    <2>2. viewControllers'[1] = List /\ Len(viewControllers') >= 1
      BY <1>3, <1>4, <2>1
    <2>3. ToSet(viewControllers') \subseteq (made' \cap inWindow') \cup {List}
      BY <1>1, <1>3, <1>4 DEF Inv, StackSound
    <2> QED
      BY <1>3, <1>4, <2>2, <2>3 DEF StackSound
  <1>7. DisplayedSound'
    BY DEF DisplayedSound
  <1>8. SendersMade' /\ SentScreenGone'
    BY <1>1, <1>3, <1>4 DEF Inv, SendersMade, SentScreenGone
  <1>9. EveryTapSends'
    BY DEF Inv, EveryTapSends
  <1> QED
    BY <1>5, <1>6, <1>7, <1>8, <1>9 DEF Inv

\* Typing changes nothing but the fields and the button.
LEMMA TypingInv ==
  ASSUME Inv, NEW s \in Screens,
         \/ \E n \in Names \cup {Empty} : TypeName(s, n)
         \/ \E t \in Texts \cup {Empty} : textViewDidChange(s, t)
  PROVE  Inv'
  <1>1. UNCHANGED <<viewControllers, onScreen, made, parent, inWindow, sent, tapped>>
    BY DEF TypeName, textViewDidChange
  <1>2. /\ nameField' \in [Screens -> Names \cup {Empty}]
        /\ textView' \in [Screens -> Texts \cup {Empty}]
    BY DEF Inv, TypeOK, TypeName, textViewDidChange
  <1> QED
    BY <1>1, <1>2 DEF Inv, TypeOK, StackSound, DisplayedSound, SendersMade,
                      SentScreenGone, EveryTapSends

\* Done: the post is sent for the screen, which is then off the stack.
LEMMA DoneButtonTappedInv ==
  ASSUME Inv, NEW s \in Screens, doneButtonTapped(s)
  PROVE  Inv'
  <1>1. /\ onScreen = s /\ s # List /\ s \in made
        /\ UNCHANGED <<onScreen, made, inWindow, nameField, textView>>
    BY ComposeAssumption DEF doneButtonTapped, Inv, DisplayedSound
  <1>2. CASE textView[s] = Empty
    <2>1. UNCHANGED <<viewControllers, parent, sent, tapped>>
      BY <1>2 DEF doneButtonTapped
    <2> QED
      BY <1>1, <2>1 DEF Inv, TypeOK, StackSound, DisplayedSound, SendersMade,
                        SentScreenGone, EveryTapSends
  <1>3. CASE textView[s] # Empty
    <2> DEFINE m == [from |-> s, author |-> name(s), text |-> textView[s]]
    <2>1. /\ tapped' = Append(tapped, s)
          /\ didCreatePost(s)
      BY <1>1, <1>3, MessageArrives DEF doneButtonTapped
    <2>2. m \in Sent /\ m.from = s
      BY <1>3 DEF Inv, TypeOK, Sent, name
    <2>3. sent' = Append(sent, m)
      BY <2>1 DEF didCreatePost
    <2> HIDE DEF m
    <2>4. /\ viewControllers' \in Seq(Screens \cup {List})
          /\ parent' \in [Screens -> {Nav, None}]
          /\ Len(viewControllers') >= 1
          /\ viewControllers'[1] = List
          /\ Distinct(viewControllers')
          /\ ToSet(viewControllers') = ToSet(viewControllers) \ {s}
      <3>1. CASE Last(viewControllers) = s
        BY <1>1, <2>1, <3>1, PopSound DEF didCreatePost
      <3>2. CASE Last(viewControllers) # s
        <4>1. s \notin ToSet(viewControllers)
          BY <1>1, <3>2 DEF Inv, DisplayedSound
        <4>2. UNCHANGED <<viewControllers, parent>>
          BY <2>1, <3>2 DEF didCreatePost
        <4> QED
          BY <4>1, <4>2 DEF Inv, TypeOK, StackSound
      <3> QED
        BY <3>1, <3>2
    <2>5. /\ sent' \in Seq(Sent) /\ tapped' \in Seq(Screens)
          /\ Len(sent) \in Nat /\ Len(sent') = Len(sent) + 1 /\ sent'[Len(sent) + 1] = m
          /\ \A i \in 1..Len(sent) : sent'[i] = sent[i]
          /\ Len(tapped') = Len(tapped) + 1 /\ tapped'[Len(tapped) + 1] = s
          /\ \A i \in 1..Len(tapped) : tapped'[i] = tapped[i]
          /\ DOMAIN sent' = 1..(Len(sent) + 1) /\ DOMAIN sent = 1..Len(sent)
          /\ DOMAIN tapped' = 1..(Len(tapped) + 1) /\ DOMAIN tapped = 1..Len(tapped)
      <3>1. sent \in Seq(Sent) /\ tapped \in Seq(Screens)
        BY DEF Inv, TypeOK
      <3> QED
        BY <2>1, <2>2, <2>3, <3>1
    <2>6. TypeOK'
      BY <1>1, <2>4, <2>5 DEF Inv, TypeOK
    <2>7. StackSound'
      BY <1>1, <2>4 DEF Inv, StackSound
    <2>8. DisplayedSound'
      BY <1>1, <2>4 DEF Inv, DisplayedSound
    <2>9. SendersMade'
      BY <1>1, <2>2, <2>5 DEF Inv, SendersMade
    <2>10. SentScreenGone'
      BY <2>2, <2>4, <2>5 DEF Inv, SentScreenGone
    <2>11. EveryTapSends'
      BY <2>2, <2>5 DEF Inv, EveryTapSends
    <2> QED
      BY <2>6, <2>7, <2>8, <2>9, <2>10, <2>11 DEF Inv
  <1> QED
    BY <1>2, <1>3

LEMMA BackInv ==
  ASSUME Inv, Back
  PROVE  Inv'
  <1>1. /\ onScreen # List /\ onScreen \in made \cap inWindow
        /\ UNCHANGED <<onScreen, made, inWindow, nameField, textView, sent, tapped>>
    BY DEF Back, Inv, DisplayedSound
  <1>2. /\ viewControllers' \in Seq(Screens \cup {List})
        /\ parent' \in [Screens -> {Nav, None}]
        /\ Len(viewControllers') >= 1
        /\ viewControllers'[1] = List
        /\ Distinct(viewControllers')
        /\ ToSet(viewControllers') = ToSet(viewControllers) \ {onScreen}
    BY PopSound DEF Back
  <1> QED
    BY <1>1, <1>2 DEF Inv, TypeOK, StackSound, DisplayedSound, SendersMade,
                      SentScreenGone, EveryTapSends

LEMMA TransitionEndsInv ==
  ASSUME Inv, TransitionEnds
  PROVE  Inv'
  <1> USE DEF TransitionEnds
  <1>1. PICK v \in Seq(Screens \cup {List}) : v = viewControllers
    BY DEF Inv, TypeOK
  <1>2. Last(v) \in ToSet(v)
    BY <1>1 DEF Inv, StackSound, Last, ToSet
  <1>3. ToSet(v) \subseteq (made \cap inWindow) \cup {List}
    BY <1>1 DEF Inv, StackSound
  <1>4. /\ onScreen' = Last(v) /\ inWindow' = inWindow \cap ToSet(v)
        /\ UNCHANGED <<viewControllers, made, nameField, textView, sent, tapped>>
    BY <1>1
  <1>5. TypeOK'
    <2>1. onScreen' \in Screens \cup {List} /\ inWindow' \subseteq Screens
      BY <1>2, <1>3, <1>4 DEF Inv, TypeOK
    <2>2. parent' \in [Screens -> {Nav, None}]
      BY DEF Inv, TypeOK
    <2> QED
      BY <1>4, <2>1, <2>2 DEF Inv, TypeOK
  <1>6. StackSound'
    BY <1>1, <1>3, <1>4 DEF Inv, StackSound
  <1>7. DisplayedSound'
    BY <1>1, <1>2, <1>3, <1>4 DEF DisplayedSound
  <1>8. SendersMade' /\ SentScreenGone' /\ EveryTapSends'
    BY <1>4 DEF Inv, SendersMade, SentScreenGone, EveryTapSends
  <1> QED
    BY <1>5, <1>6, <1>7, <1>8 DEF Inv

LEMMA NextInv == Inv /\ [Next]_vars => Inv'
  <1> SUFFICES ASSUME Inv, [Next]_vars PROVE Inv'
    OBVIOUS
  <1>1. CASE UNCHANGED vars
    BY <1>1 DEF vars, Inv, TypeOK, StackSound, DisplayedSound, SendersMade,
                SentScreenGone, EveryTapSends
  <1>2. ASSUME NEW s \in Screens, addPostTapped(s) PROVE Inv'
    BY <1>2, AddPostTappedInv
  <1>3. ASSUME NEW s \in Screens,
               \/ \E n \in Names \cup {Empty} : TypeName(s, n)
               \/ \E t \in Texts \cup {Empty} : textViewDidChange(s, t)
        PROVE  Inv'
    BY <1>3, TypingInv
  <1>4. ASSUME NEW s \in Screens, doneButtonTapped(s) PROVE Inv'
    BY <1>4, DoneButtonTappedInv
  <1>5. CASE Back
    BY <1>5, BackInv
  <1>6. CASE TransitionEnds
    BY <1>6, TransitionEndsInv
  <1> QED
    BY <1>1, <1>2, <1>3, <1>4, <1>5, <1>6 DEF Next

\* The stack, the displayed screen and the histories agree in every state.
THEOREM Invariance == Spec => []Inv
  <1>1. Init => Inv
    BY InitInv
  <1>2. Inv /\ [Next]_vars => Inv'
    BY NextInv
  <1> QED
    BY <1>1, <1>2, PTL DEF Spec

-----------------------------------------------------------------------------
(***************************************************************************)
(* The properties.                                                         *)
(***************************************************************************)

\* A screen whose post was sent (didCreatePost) never is on the stack again,
\* however many screens there are and however often Done and "+" are tapped.
THEOREM SentScreenStaysGone == Spec => []SentScreenGone
  <1>1. Inv => SentScreenGone
    BY DEF Inv
  <1> QED
    BY <1>1, Invariance, PTL

\* Every Done tap on a text calls sendPost once, in order: the responder chain
\* (coordinatingResponder) loses no message of a displayed screen.
THEOREM TapsAreAnswered == Spec => []EveryTapSends
  <1>1. Inv => EveryTapSends
    BY DEF Inv
  <1> QED
    BY <1>1, Invariance, PTL

\* No step takes a screen off the stack but the displayed one: neither
\* didCreatePost nor the back button throws away a draft underneath.
THEOREM DraftsAreKept == Spec => OnlyDisplayedDismissed
  <1> DEFINE A == \A s \in Screens :
                    s \in ToSet(viewControllers) /\ s \notin ToSet(viewControllers')
                      => s = onScreen
  <1>1. Inv /\ [Next]_vars => [A]_vars
    <2> SUFFICES ASSUME Inv, Next PROVE A
      OBVIOUS
    <2>1. ASSUME NEW s \in Screens, addPostTapped(s) PROVE A
      <3>1. PICK v \in Seq(Screens \cup {List}) : v = viewControllers
        BY DEF Inv, TypeOK
      <3>2. s \notin ToSet(v)
        BY <2>1, <3>1, ComposeAssumption DEF Inv, StackSound, addPostTapped, didTapOnAddPost
      <3>3. ToSet(Append(v, s)) = ToSet(v) \cup {s}
        BY <3>1, <3>2, AppendFacts DEF Inv, StackSound
      <3> QED
        BY <2>1, <3>1, <3>3 DEF addPostTapped, didTapOnAddPost
    <2>2. ASSUME NEW s \in Screens,
                 \/ \E n \in Names \cup {Empty} : TypeName(s, n)
                 \/ \E t \in Texts \cup {Empty} : textViewDidChange(s, t)
          PROVE  A
      BY <2>2 DEF TypeName, textViewDidChange
    <2>3. ASSUME NEW s \in Screens, doneButtonTapped(s) PROVE A
      <3>1. onScreen = s /\ s # List
        BY <2>3, ComposeAssumption DEF doneButtonTapped
      <3>2. CASE UNCHANGED viewControllers
        BY <3>2
      <3>3. CASE Last(viewControllers) = s /\ Pop
        BY <3>1, <3>3, PopSound
      <3> QED
        BY <2>3, <3>2, <3>3 DEF doneButtonTapped, didCreatePost
    <2>4. CASE Back
      BY <2>4, PopSound DEF Back
    <2>5. CASE TransitionEnds
      BY <2>5 DEF TransitionEnds
    <2> QED
      BY <2>1, <2>2, <2>3, <2>4, <2>5 DEF Next
  <1>2. Spec => [][A]_vars
    BY <1>1, Invariance, PTL DEF Spec
  <1> QED
    BY <1>2 DEF OnlyDisplayedDismissed
=============================================================================
