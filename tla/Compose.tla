------------------------------- MODULE Compose -------------------------------
(***************************************************************************)
(* Writing a post: PostsNavigationController's stack, AddPostViewController*)
(* with its two fields and its Done button, and the responder chain along  *)
(* which a screen's message reaches the navigation controller.             *)
(*                                                                         *)
(* UIKit is external and appears as the code relies on it.  A push or pop  *)
(* changes viewControllers at once and ends later: until then the bar of   *)
(* the screen being left is still there, and its buttons can be tapped     *)
(* again.  A popped screen loses its parent between the pop and the end of *)
(* the transition, and its view leaves the hierarchy at the end.           *)
(***************************************************************************)
EXTENDS Naturals, Sequences, SequencesExt

CONSTANTS
  Screens,   \* the AddPostViewControllers that can be made
  List,      \* the PostsController, at the bottom of the stack
  Nav,       \* the PostsNavigationController
  Root,      \* the RootViewController
  Names,     \* what can be typed into the name field
  Texts,     \* what can be typed into the text view
  Default,   \* the name of an author who gives none
  Empty,     \* the empty string
  None,      \* nil
  MaxSent    \* bound on the posts sent

ASSUME ComposeAssumption ==
  /\ {List, Nav, Root} \cap Screens = {}
  /\ Nav # List /\ Nav # Root
  /\ None \notin Screens \cup {List, Nav, Root}
  /\ Empty \notin Names \cup Texts \cup {Default}
  /\ MaxSent \in Nat

VARIABLES
  viewControllers, \* the navigation controller's stack
  onScreen,        \* the controller whose bar is displayed
  made,            \* screens that exist or have existed
  parent,          \* of a screen: Nav or None
  inWindow,        \* screens whose view has a superview
  nameField,       \* of a screen: the text of its name field
  textView,        \* of a screen: the text of its text view
  doneEnabled,     \* screens whose Done button is enabled
  sent,            \* history: what sendPost was called with, and for whom
  tapped           \* history: Done taps with a text, in order

vars == <<viewControllers, onScreen, made, parent, inWindow, nameField,
          textView, doneEnabled, sent, tapped>>

Sent == [from: Screens, author: Names \cup {Default}, text: Texts]

Init ==
  /\ viewControllers = << List >>
  /\ onScreen = List
  /\ made = {}
  /\ parent = [s \in Screens |-> None]
  /\ inWindow = {}
  /\ nameField = [s \in Screens |-> Empty]
  /\ textView = [s \in Screens |-> Empty]
  /\ doneEnabled = {}
  /\ sent = << >>
  /\ tapped = << >>

(***************************************************************************)
(* The responder chain.  A controller passes a message to the              *)
(* parentController it was given, else to its parent, else up the view     *)
(* hierarchy.  The views above a screen lead to the navigation controller, *)
(* which handles both messages.                                            *)
(***************************************************************************)
\* Set by addChildController, which RootViewController calls for Nav only.
parentController(c) == IF c = Nav THEN Root ELSE None

\* (mutant) a controller without a parent ends the chain.
ReachedWithoutViews(s) == parent[s]

\* The controller that a message of screen s reaches.
coordinatingResponder(s) ==
  IF parentController(s) # None THEN parentController(s)
  ELSE IF parent[s] # None THEN parent[s]
  ELSE IF s \in inWindow THEN Nav
  ELSE None

(***************************************************************************)
(* Taps and typing.                                                        *)
(***************************************************************************)
\* AddPostViewController.setup: two empty fields, Done disabled.
setup(s) ==
  /\ nameField' = [nameField EXCEPT ![s] = Empty]
  /\ textView' = [textView EXCEPT ![s] = Empty]
  /\ doneEnabled' = doneEnabled \ {s}

\* A screen is made and pushed.
didTapOnAddPost(s) ==
  /\ s \in Screens \ made
  /\ made' = made \cup {s}
  /\ setup(s)
  /\ parent' = [parent EXCEPT ![s] = Nav]
  /\ inWindow' = inWindow \cup {s}
  /\ viewControllers' = Append(viewControllers, s)
  /\ UNCHANGED <<onScreen, sent, tapped>>

\* The "+" button, while the list's bar is displayed.
addPostTapped(s) == onScreen = List /\ didTapOnAddPost(s)

TypeName(s, n) ==
  /\ onScreen = s
  /\ nameField' = [nameField EXCEPT ![s] = n]
  /\ UNCHANGED <<viewControllers, onScreen, made, parent, inWindow, textView,
                 doneEnabled, sent, tapped>>

doneButtonEnabled(t) == t # Empty

textViewDidChange(s, t) ==
  /\ onScreen = s
  /\ textView' = [textView EXCEPT ![s] = t]
  /\ doneEnabled' = IF doneButtonEnabled(t) THEN doneEnabled \cup {s} ELSE doneEnabled \ {s}
  /\ UNCHANGED <<viewControllers, onScreen, made, parent, inWindow, nameField,
                 sent, tapped>>

name(s) == IF nameField[s] = Empty THEN Default ELSE nameField[s]

Pop ==
  /\ viewControllers' = Front(viewControllers)
  /\ parent' \in {parent, [parent EXCEPT ![Last(viewControllers)] = None]}

\* (mutant) whatever is on top is popped.
DidCreatePostPopsTop(s) ==
  /\ sent' = Append(sent, [from |-> s, author |-> name(s), text |-> textView[s]])
  /\ IF Len(viewControllers) > 1
     THEN Pop
     ELSE UNCHANGED <<viewControllers, parent>>

\* (mutant) the screen is dismissed only if it is the one above the list.
DidCreatePostPopsSecond(s) ==
  /\ sent' = Append(sent, [from |-> s, author |-> name(s), text |-> textView[s]])
  /\ IF Len(viewControllers) = 2 /\ Last(viewControllers) = s
     THEN Pop
     ELSE UNCHANGED <<viewControllers, parent>>

\* PostsNavigationController's handler of the message: the post is sent, and
\* the sender is popped if it is still on top.
didCreatePost(s) ==
  /\ sent' = Append(sent, [from |-> s, author |-> name(s), text |-> textView[s]])
  /\ IF Last(viewControllers) = s
     THEN Pop
     ELSE UNCHANGED <<viewControllers, parent>>

doneButtonTapped(s) ==
  /\ onScreen = s
  /\ s \in doneEnabled
  /\ Len(sent) < MaxSent
  /\ IF textView[s] = Empty
     THEN UNCHANGED <<viewControllers, parent, sent, tapped>>
     ELSE /\ tapped' = Append(tapped, s)
          /\ IF coordinatingResponder(s) = Nav
             THEN didCreatePost(s)
             ELSE UNCHANGED <<viewControllers, parent, sent>>
  /\ UNCHANGED <<onScreen, made, inWindow, nameField, textView, doneEnabled>>

(***************************************************************************)
(* UIKit.                                                                  *)
(***************************************************************************)
\* The back button, of a screen that is not already on its way out.
Back ==
  /\ onScreen # List
  /\ Last(viewControllers) = onScreen
  /\ Pop
  /\ UNCHANGED <<onScreen, made, inWindow, nameField, textView, doneEnabled,
                 sent, tapped>>

TransitionEnds ==
  /\ onScreen # Last(viewControllers)
  /\ onScreen' = Last(viewControllers)
  /\ inWindow' = inWindow \cap ToSet(viewControllers)
  /\ parent' = [s \in Screens |->
                  IF s \in ToSet(viewControllers) THEN parent[s] ELSE None]
  /\ UNCHANGED <<viewControllers, made, nameField, textView, doneEnabled, sent,
                 tapped>>

Next ==
  \/ \E s \in Screens :
       \/ addPostTapped(s)
       \/ \E n \in Names \cup {Empty} : TypeName(s, n)
       \/ \E t \in Texts \cup {Empty} : textViewDidChange(s, t)
       \/ doneButtonTapped(s)
  \/ Back
  \/ TransitionEnds

Spec == Init /\ [][Next]_vars

-----------------------------------------------------------------------------
\* didCreatePost pops the sender or nothing, and Back the screen it belongs to:
\* only the screen the user looks at is ever dismissed, so that no tap, however
\* often repeated during a transition, throws away a draft underneath.
OnlyDisplayedDismissed ==
  [][\A s \in Screens :
       s \in ToSet(viewControllers) /\ s \notin ToSet(viewControllers')
         => s = onScreen]_vars

\* A screen whose post was sent is gone from the stack and does not come back:
\* a post cannot be sent again from it once its transition has ended, however
\* many screens impatient taps on "+" have pushed.
SentScreenGone ==
  \A i \in DOMAIN sent : sent[i].from \notin ToSet(viewControllers)

\* Every Done tap on a text is answered by exactly one sendPost, in order, also
\* when the tapping screen has already lost its parent: the responder chain
\* drops no message.
EveryTapSends ==
  /\ Len(sent) = Len(tapped)
  /\ \A i \in DOMAIN tapped : sent[i].from = tapped[i]
=============================================================================
