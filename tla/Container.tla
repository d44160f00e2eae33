------------------------------ MODULE Container ------------------------------
(***************************************************************************)
(* ContainerController.embed: a controller replaces the embedded one.      *)
(* RootViewController embeds the navigation controller this way, and       *)
(* PostsController its table.                                              *)
(*                                                                         *)
(* An animated replacement takes effect in parts.  The old controller      *)
(* fades out and loses its parent at once, but its view leaves the         *)
(* container, and the new controller enters it, in closures that runAfter  *)
(* hands to the main queue for 0.1 s later.  embed may be called again     *)
(* while closures wait, also for the controller that is on its way out.    *)
(* Waiting closures run in any order: nothing in the code orders them but  *)
(* their deadlines.                                                        *)
(***************************************************************************)
EXTENDS Naturals, Sequences, SequencesExt

CONSTANTS
  Controllers,  \* the controllers the container is given
  None,         \* nil
  MaxTimers     \* bound on the waiting closures when embed is called

ASSUME ControllersAssumption == None \notin Controllers /\ MaxTimers \in Nat

VARIABLES
  embededController, \* the controller the container should show
  children,          \* the controllers whose parent is the container
  subviews,          \* the controllers whose view is in the container
  faded,             \* the controllers whose layer has opacity 0
  timers,            \* closures waiting for their deadline
  animatedLast       \* history: the latest embed was animated

vars == <<embededController, children, subviews, faded, timers, animatedLast>>

Out(c) == [closure |-> "out", of |-> c]
In(c)  == [closure |-> "in", of |-> c]
Closure == [closure: {"out", "in"}, of: Controllers]

Init ==
  /\ embededController = None
  /\ children = {}
  /\ subviews = {}
  /\ faded = {}
  /\ timers = << >>
  /\ animatedLast = FALSE

\* Nothing is embedded yet: the controller goes in at once, animated or not.
EmbedFirst(c, animated) ==
  /\ Len(timers) <= MaxTimers
  /\ embededController = None
  /\ embededController' = c
  /\ children' = {c}
  /\ subviews' = {c}
  /\ animatedLast' = animated
  /\ UNCHANGED <<faded, timers>>

\* (mutant) the old layer keeps its opacity and only the animation fades it.
EmbedAnimatedOpaque(c) ==
  /\ Len(timers) <= MaxTimers
  /\ embededController # None
  /\ children' = children \ {embededController}
  /\ timers' = timers \o << Out(embededController), In(c) >>
  /\ embededController' = c
  /\ animatedLast' = TRUE
  /\ UNCHANGED <<subviews, faded>>

\* The old controller fades out and leaves its parent; its view, and the new
\* controller, are left to the closures.
EmbedAnimated(c) ==
  /\ Len(timers) <= MaxTimers
  /\ embededController # None
  /\ faded' = faded \cup {embededController}
  /\ children' = children \ {embededController}
  /\ timers' = timers \o << Out(embededController), In(c) >>
  /\ embededController' = c
  /\ animatedLast' = TRUE
  /\ UNCHANGED subviews

\* One goes out and the other comes in within the call.
EmbedAtOnce(c) ==
  /\ Len(timers) <= MaxTimers
  /\ embededController # None
  /\ children' = (children \ {embededController}) \cup {c}
  /\ subviews' = (subviews \ {embededController}) \cup {c}
  /\ embededController' = c
  /\ animatedLast' = FALSE
  /\ UNCHANGED <<faded, timers>>

Fires(i, closure) == timers[i].closure = closure /\ timers' = RemoveAt(timers, i)

\* (mutant) the view goes without a look at the controller's parent.
RemoveViewAlways(i) ==
  /\ Fires(i, "out")
  /\ subviews' = subviews \ {timers[i].of}
  /\ UNCHANGED <<embededController, children, faded, animatedLast>>

\* The view goes, unless its controller has a parent again by now.
RemoveView(i) ==
  /\ Fires(i, "out")
  /\ subviews' = subviews \ ({timers[i].of} \ children)
  /\ UNCHANGED <<embededController, children, faded, animatedLast>>

\* (mutant) the closure leaves the opacity to the animation.
AppearStillFaded(i) ==
  /\ Fires(i, "in")
  /\ timers[i].of = embededController
  /\ children' = children \cup {embededController}
  /\ subviews' = subviews \cup {embededController}
  /\ UNCHANGED <<embededController, faded, animatedLast>>

\* The controller comes in with opacity 1 if it is still the one to show.
Appear(i) ==
  /\ Fires(i, "in")
  /\ timers[i].of = embededController
  /\ children' = children \cup {embededController}
  /\ subviews' = subviews \cup {embededController}
  /\ faded' = faded \ {embededController}
  /\ UNCHANGED <<embededController, animatedLast>>

\* The closure's guard fails: embed was called for another controller.
AppearStale(i) ==
  /\ Fires(i, "in")
  /\ timers[i].of # embededController
  /\ UNCHANGED <<embededController, children, subviews, faded, animatedLast>>

Next ==
  \/ \E c \in Controllers :
       \/ \E animated \in BOOLEAN : EmbedFirst(c, animated)
       \/ EmbedAnimated(c)
       \/ EmbedAtOnce(c)
  \/ \E i \in DOMAIN timers : RemoveView(i) \/ Appear(i) \/ AppearStale(i)

Spec == Init /\ [][Next]_vars

-----------------------------------------------------------------------------
\* Every variable of the container has its type.
TypeOK ==
  /\ embededController \in Controllers \cup {None}
  /\ children \subseteq Controllers
  /\ subviews \subseteq Controllers
  /\ faded \subseteq Controllers
  /\ timers \in Seq(Closure)
  /\ animatedLast \in BOOLEAN

Waiting(t) == \E i \in DOMAIN timers : timers[i] = t

\* However calls of embed and late closures interleave, a view that is in the
\* container and not faded is the embedded controller's: a replaced content
\* never shows again, nor under the new one.
OneOpaque == \A c \in subviews \ faded : c = embededController

\* embed's two closures together finish the replacement: the embedded
\* controller is in, with its view, or a closure that brings it in waits; any
\* other view that is still in has a closure that takes it out; no other
\* controller is a child.
Replaced ==
  /\ children \subseteq {embededController}
  /\ embededController # None =>
       \/ embededController \in children /\ embededController \in subviews
       \/ Waiting(In(embededController))
  /\ \A c \in subviews \ {embededController} : Waiting(Out(c))

\* When no closure waits the container holds exactly what was last embedded.
Settles ==
  timers = << >> /\ embededController # None =>
    children = {embededController} /\ subviews = {embededController}

\* A controller embedded with an animation is not left with the opacity 0 that
\* an earlier fade gave it, once its closures have run.  (Embedded without one
\* it can be: only the closure of the animated branch resets the opacity.)
NotLeftFaded ==
  animatedLast /\ embededController \in faded => Waiting(In(embededController))
=============================================================================
