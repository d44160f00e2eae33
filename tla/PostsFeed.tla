------------------------------ MODULE PostsFeed ------------------------------
(***************************************************************************)
(* The posts feed of the application, from the observers FirebaseManager   *)
(* registers on /posts, through PostsManager, to the rows the table shows. *)
(*                                                                         *)
(* Two serial queues take part.  The database SDK does all its work on one *)
(* "shared" queue: it runs the tasks the application hands it (observe,    *)
(* set, remove), takes what the server sends, and for every change of its  *)
(* view of /posts dispatches one block per child event and observer to the *)
(* main queue.  The main queue runs those blocks (FirebaseManager's        *)
(* closures, which call PostsManager's), and the refresh blocks that       *)
(* PostsManager posts to the same queue whenever it assigns its list.      *)
(*                                                                         *)
(* The SDK appears here as its view of /posts, a function from push keys   *)
(* to values that any step of the shared queue may change.                 *)
(***************************************************************************)
EXTENDS Naturals, Sequences, FiniteSets, SequencesExt

CONSTANTS
  Keys,        \* push keys under /posts, ordered as numbers
  OwnKeys,     \* the keys childByAutoId gives to this client
  Vals,        \* contents of a child of /posts
  Malformed,   \* the contents that do not decode as a Post
  Null,        \* no child under this key
  MaxCalls,    \* bound on the calls waiting for the SDK when the user taps
  MaxQueue,    \* bound on the blocks waiting for the main queue
  MaxPosts     \* bound on the listed posts when the view changes

ASSUME ConstantsAssumption ==
  /\ Keys \subseteq Nat
  /\ IsFiniteSet(Keys)
  /\ OwnKeys \subseteq Keys
  /\ Malformed \subseteq Vals
  /\ Null \notin Vals
  /\ MaxCalls \in Nat /\ MaxQueue \in Nat /\ MaxPosts \in Nat

VARIABLES
  launched,    \* RootViewController.setup has returned to the run loop
  sharedQueue, \* SDK tasks the application has dispatched
  observers,   \* the event types an observer is registered for
  cache,       \* the SDK's view of /posts
  raising,     \* events of the running SDK task not yet dispatched to main
  mainQueue,   \* blocks waiting for the main queue
  posts,       \* PostsManager.posts
  shown,       \* the posts of PostsContentViewController's dependency
  used,        \* own push keys whose write the SDK has taken
  unheard      \* history: keys with a change that no observer could decode

vars == <<launched, sharedQueue, observers, cache, raising, mainQueue, posts,
          shown, used, unheard>>

Ops == {"added", "updated", "removed"}

Event == [op: Ops, key: Keys, val: Vals]

\* The block of managerUpdated: it carries nothing, the list is read when
\* the block runs.
Refresh == [op |-> "refresh"]

Post == [id: Keys, val: Vals]

\* The three calls of listenTo, in the order it makes them.
listenTo == << [call |-> "observe", op |-> "added"],
               [call |-> "observe", op |-> "updated"],
               [call |-> "observe", op |-> "removed"] >>

Call == {listenTo[i] : i \in 1..3}
        \cup [call: {"set"}, key: OwnKeys, val: Vals \ Malformed]
        \cup {[call |-> "remove"]}

(***************************************************************************)
(* Events.  A change of the view yields one event per child that differs.  *)
(* They are delivered removals first, then additions, then changes, each   *)
(* in key order.                                                           *)
(***************************************************************************)

\* The event of a removal carries the old value, the others the new one.
Diff(old, new) ==
  {[op |-> "removed", key |-> k, val |-> old[k]] :
      k \in {q \in Keys : old[q] # Null /\ new[q] = Null}}
  \cup
  {[op |-> "added", key |-> k, val |-> new[k]] :
      k \in {q \in Keys : old[q] = Null /\ new[q] # Null}}
  \cup
  {[op |-> "updated", key |-> k, val |-> new[k]] :
      k \in {q \in Keys : old[q] # Null /\ new[q] # Null /\ old[q] # new[q]}}

Rank == [op \in Ops |-> CASE op = "removed" -> 1
                          [] op = "added"   -> 2
                          [] op = "updated" -> 3]

Before(e, f) == \/ Rank[e.op] < Rank[f.op]
                \/ e.op = f.op /\ e.key < f.key

\* The listings of a set of events in delivery order (there is exactly one).
Batches(E) ==
  {s \in [1..Cardinality(E) -> E] :
      /\ \A e \in E : \E i \in DOMAIN s : s[i] = e
      /\ \A i, j \in DOMAIN s : i < j => Before(s[i], s[j])}

\* The keys of the events in E that the closures of listenTo never pass on:
\* no observer of the type is registered yet, or the snapshot does not decode.
Lost(E) == {e.key : e \in {f \in E : f.op \notin observers \/ f.val \in Malformed}}

\* The view becomes new: its events are raised for the registered observers.
Update(new) ==
  LET E == Diff(cache, new)
  IN  /\ cache' = new
      /\ \E s \in Batches({e \in E : e.op \in observers}) : raising' = s
      /\ unheard' = unheard \cup Lost(E)

\* The shared queue is free and the bounds leave room for what it raises.
SharedIdle == /\ raising = << >>
              /\ Len(posts) <= MaxPosts
              /\ Len(mainQueue) + Cardinality(Keys) <= MaxQueue

\* The views of /posts that can be when the own keys in taken are written: no
\* other client uses the rest of OwnKeys.
View(taken) == {c \in [Keys -> Vals \cup {Null}] :
                   \A k \in OwnKeys \ taken : c[k] = Null}

(***************************************************************************)
(* The application's steps on the main thread, outside its queue.          *)
(***************************************************************************)
Init ==
  /\ launched = FALSE
  /\ sharedQueue = listenTo
  /\ observers = {}
  /\ used = {}
  /\ cache \in View(used)
  /\ raising = << >>
  /\ mainQueue = << >>
  /\ posts = << >>
  /\ shown = << >>
  /\ unheard = {}

\* What PostsController gives its content controller.
contentDependency == posts

\* The content controller's table takes its rows from the posts it is given.
reloadData(list) == shown' = list

\* HBViewController.dependency: its didSet, in a controller whose view setup
\* has loaded.
setDependency(list) == reloadData(list)

\* setup: PostsController becomes the delegate and embeds a content
\* controller made from the posts there are.
Launch ==
  /\ ~launched
  /\ launched' = TRUE
  /\ reloadData(contentDependency)
  /\ UNCHANGED <<sharedQueue, observers, cache, raising, mainQueue, posts,
                 used, unheard>>

\* sendPost and write: a fresh push key, an encodable post, one SDK call.
SendPost(k, v) ==
  /\ launched
  /\ Len(sharedQueue) < MaxCalls
  /\ k \in OwnKeys \ used
  /\ \A i \in DOMAIN sharedQueue :
        sharedQueue[i].call = "set" => sharedQueue[i].key # k
  /\ v \in Vals \ Malformed
  /\ sharedQueue' = Append(sharedQueue, [call |-> "set", key |-> k, val |-> v])
  /\ UNCHANGED <<launched, observers, cache, raising, mainQueue, posts, shown,
                 used, unheard>>

\* deletePosts and delete.
DeletePosts ==
  /\ launched
  /\ Len(sharedQueue) < MaxCalls
  /\ sharedQueue' = Append(sharedQueue, [call |-> "remove"])
  /\ UNCHANGED <<launched, observers, cache, raising, mainQueue, posts, shown,
                 used, unheard>>

(***************************************************************************)
(* Steps of the SDK's queue.                                               *)
(***************************************************************************)
\* (mutant) every registration is sent the children the view already has.
ObserveReplaysAll ==
  /\ SharedIdle
  /\ sharedQueue # << >>
  /\ Head(sharedQueue).call = "observe"
  /\ observers' = observers \cup {Head(sharedQueue).op}
  /\ \E s \in Batches(Diff([k \in Keys |-> Null], cache)) : raising' = s
  /\ sharedQueue' = Tail(sharedQueue)
  /\ UNCHANGED <<launched, cache, mainQueue, posts, shown, used, unheard>>

\* An observer is registered; an observer of added children is sent one
\* event for each child the view already has.
Observe ==
  /\ SharedIdle
  /\ sharedQueue # << >>
  /\ Head(sharedQueue).call = "observe"
  /\ LET op == Head(sharedQueue).op
         E  == IF op = "added" THEN Diff([k \in Keys |-> Null], cache) ELSE {}
     IN  /\ observers' = observers \cup {op}
         /\ \E s \in Batches(E) : raising' = s
         /\ unheard' = unheard \cup {e.key : e \in {f \in E : f.val \in Malformed}}
  /\ sharedQueue' = Tail(sharedQueue)
  /\ UNCHANGED <<launched, cache, mainQueue, posts, shown, used>>

\* A write of the application takes effect in the view at once.
LocalSet ==
  /\ SharedIdle
  /\ sharedQueue # << >>
  /\ Head(sharedQueue).call = "set"
  /\ Update([cache EXCEPT ![Head(sharedQueue).key] = Head(sharedQueue).val])
  /\ used' = used \cup {Head(sharedQueue).key}
  /\ sharedQueue' = Tail(sharedQueue)
  /\ UNCHANGED <<launched, observers, mainQueue, posts, shown>>

LocalRemove ==
  /\ SharedIdle
  /\ sharedQueue # << >>
  /\ Head(sharedQueue).call = "remove"
  /\ Update([k \in Keys |-> Null])
  /\ sharedQueue' = Tail(sharedQueue)
  /\ UNCHANGED <<launched, observers, mainQueue, posts, shown, used>>

\* Anything else the SDK does once it listens: data, a rejected write, ...
RemoteChange(new) ==
  /\ SharedIdle
  /\ observers # {}
  /\ new \in View(used) \ {cache}
  /\ Update(new)
  /\ UNCHANGED <<launched, sharedQueue, observers, mainQueue, posts, shown, used>>

\* The server refuses or ends the listen: the SDK drops every observer and its
\* view.  listenTo gave no cancel block, so the application is not told.
Revoke ==
  /\ SharedIdle
  /\ observers # {}
  /\ observers' = {}
  /\ unheard' = Keys
  /\ UNCHANGED <<launched, sharedQueue, cache, raising, mainQueue, posts, shown,
                 used>>

\* One dispatch_async to the main queue; main may run between two of them.
Dispatch ==
  /\ raising # << >>
  /\ mainQueue' = Append(mainQueue, Head(raising))
  /\ raising' = Tail(raising)
  /\ UNCHANGED <<launched, sharedQueue, observers, cache, posts, shown, used,
                 unheard>>

(***************************************************************************)
(* Steps of the main queue.  Blocks run once setup has returned.           *)
(***************************************************************************)
\* posts.index(of:), which compares posts by id.
Occurs(id) == \E i \in DOMAIN posts : posts[i].id = id
IndexOf(id) == CHOOSE i \in DOMAIN posts :
                  /\ posts[i].id = id
                  /\ \A j \in 1..(i - 1) : posts[j].id # id

\* (mutant) the list changes in place, without its didSet.
AssignSilently(list) ==
  /\ posts' = list
  /\ mainQueue' = Tail(mainQueue)
  /\ UNCHANGED <<launched, sharedQueue, observers, cache, raising, shown, used,
                 unheard>>

\* The block at the head of the queue runs and leaves list in posts;
\* didSet then posts a refresh block.
Assign(list) ==
  /\ posts' = list
  /\ mainQueue' = Append(Tail(mainQueue), Refresh)
  /\ UNCHANGED <<launched, sharedQueue, observers, cache, raising, shown, used,
                 unheard>>

\* The block at the head of the queue runs and assigns nothing.
Skip ==
  /\ mainQueue' = Tail(mainQueue)
  /\ UNCHANGED <<launched, sharedQueue, observers, cache, raising, posts, shown,
                 used, unheard>>

Runs(op) == /\ launched
            /\ mainQueue # << >>
            /\ Head(mainQueue).op = op

Decodes == Head(mainQueue).val \notin Malformed
HeadPost == [id |-> Head(mainQueue).key, val |-> Head(mainQueue).val]

RunAdded ==
  /\ Runs("added")
  /\ IF Decodes THEN Assign(Append(posts, HeadPost)) ELSE Skip

\* (mutant) the updated post goes to the end, where a new one would.
RunUpdatedAtEnd ==
  /\ Runs("updated")
  /\ IF Decodes /\ Occurs(HeadPost.id)
     THEN Assign(Append(RemoveAt(posts, IndexOf(HeadPost.id)), HeadPost))
     ELSE Skip

RunUpdated ==
  /\ Runs("updated")
  /\ IF Decodes /\ Occurs(HeadPost.id)
     THEN Assign(ReplaceAt(posts, IndexOf(HeadPost.id), HeadPost))
     ELSE Skip

\* (mutant) the first post goes, whichever was removed.
RunRemovedFirst ==
  /\ Runs("removed")
  /\ IF Decodes /\ Occurs(HeadPost.id) THEN Assign(Tail(posts)) ELSE Skip

RunRemoved ==
  /\ Runs("removed")
  /\ IF Decodes /\ Occurs(HeadPost.id)
     THEN Assign(RemoveAt(posts, IndexOf(HeadPost.id)))
     ELSE Skip

\* (mutant) an empty list leaves the old rows in the table.
RunRefreshUnlessEmpty ==
  /\ Runs("refresh")
  /\ shown' = IF posts = << >> THEN shown ELSE posts
  /\ mainQueue' = Tail(mainQueue)
  /\ UNCHANGED <<launched, sharedQueue, observers, cache, raising, posts, used,
                 unheard>>

\* postsManagerDidUpdate: the content controller is given the list as it is
\* now, not as it was when the block was posted.
RunRefresh ==
  /\ Runs("refresh")
  /\ setDependency(contentDependency)
  /\ mainQueue' = Tail(mainQueue)
  /\ UNCHANGED <<launched, sharedQueue, observers, cache, raising, posts, used,
                 unheard>>

\* The process ends at any point and starts again: whatever was not handed to
\* the SDK is gone, and the view is rebuilt from what the SDK had stored.
Relaunch(stored) ==
  /\ stored \in View(used)
  /\ launched' = FALSE
  /\ sharedQueue' = listenTo
  /\ observers' = {}
  /\ cache' = stored
  /\ raising' = << >>
  /\ mainQueue' = << >>
  /\ posts' = << >>
  /\ shown' = << >>
  /\ unheard' = {}
  /\ UNCHANGED used

SharedStep == \/ Observe
              \/ LocalSet
              \/ LocalRemove

MainStep == \/ RunAdded
            \/ RunUpdated
            \/ RunRemoved
            \/ RunRefresh

Next ==
  \/ Launch
  \/ \E k \in OwnKeys, v \in Vals : SendPost(k, v)
  \/ DeletePosts
  \/ SharedStep
  \/ \E new \in View(used) : RemoteChange(new)
  \/ Revoke
  \/ Dispatch
  \/ MainStep
  \/ \E stored \in View(used) : Relaunch(stored)

Spec == Init /\ [][Next]_vars

\* Both queues and the launch sequence keep running; nobody need tap, write or
\* restart.
FairSpec == Spec /\ WF_vars(Launch) /\ WF_vars(SharedStep)
                 /\ WF_vars(Dispatch) /\ WF_vars(MainStep)

-----------------------------------------------------------------------------
(***************************************************************************)
(* Properties.                                                             *)
(***************************************************************************)
\* Every variable of the feed has its type.
TypeOK ==
  /\ launched \in BOOLEAN
  /\ sharedQueue \in Seq(Call)
  /\ observers \subseteq Ops
  /\ cache \in View(used)
  /\ raising \in Seq(Event)
  /\ mainQueue \in Seq(Event \cup {Refresh})
  /\ posts \in Seq(Post)
  /\ shown \in Seq(Post)
  /\ used \subseteq OwnKeys
  /\ unheard \subseteq Keys

\* An event about key k is on its way to PostsManager.
Pending(k) == \/ \E i \in DOMAIN mainQueue :
                    mainQueue[i] # Refresh /\ mainQueue[i].key = k
              \/ \E i \in DOMAIN raising : raising[i].key = k

Rows(list, k) == {i \in DOMAIN list : list[i].id = k}

\* The list shows child k of the view as it should: once with its value when
\* it is there, not at all when it is not.
Shows(list, k, v) ==
  IF v = Null THEN Rows(list, k) = {}
              ELSE \E i \in DOMAIN list : /\ Rows(list, k) = {i}
                                          /\ list[i].val = v

(***************************************************************************)
(* What makes the feed correct.  The blocks on their way to PostsManager,  *)
(* those of the main queue and then those being raised, spell for each     *)
(* post a history that leads from what PostsManager lists to what the      *)
(* SDK's view holds.                                                       *)
(***************************************************************************)
Tasks == Len(mainQueue) + Len(raising)
Task(i) == IF i <= Len(mainQueue) THEN mainQueue[i]
                                  ELSE raising[i - Len(mainQueue)]

About(t, k) == t.op \in Ops /\ t.key = k

\* Event t is one a post with content x can meet, and leaves it with y.
Moves(t, x, y) == \/ t.op = "added"   /\ x = Null /\ y = t.val
                  \/ t.op = "updated" /\ x # Null /\ y = t.val
                  \/ t.op = "removed" /\ x # Null /\ y = Null

\* h[i] is the content of post k when the i-th block is about to run.
Tracks(k, h) ==
  /\ Shows(posts, k, h[1])
  /\ h[Tasks + 1] = cache[k]
  /\ \A i \in 1..Tasks :
        IF About(Task(i), k)
        THEN Moves(Task(i), h[i], h[i + 1]) /\ Task(i).val \notin Malformed
        ELSE h[i + 1] = h[i]

\* The observer of additions is registered once, before anything is raised.
Startup ==
  unheard # Keys =>
    IF "added" \in observers
    THEN \A i \in DOMAIN sharedQueue : sharedQueue[i] # listenTo[1]
    ELSE /\ sharedQueue # << >>
         /\ Head(sharedQueue) = listenTo[1]
         /\ \A i \in 2..Len(sharedQueue) : sharedQueue[i] # listenTo[1]
         /\ observers = {}
         /\ mainQueue = << >> /\ raising = << >> /\ posts = << >>

\* The inductive invariant of the closures of listenTo and startObserving.
FeedTracked ==
  /\ Startup
  /\ "added" \in observers =>
       \A k \in Keys \ unheard :
         \E h \in [1..(Tasks + 1) -> Vals \cup {Null}] : Tracks(k, h)

\* PostsManager.startObserving appends without looking for the id: even so no
\* post is ever listed twice, whatever mix of local writes, server data and
\* interleavings of the two queues there was, unless one of its events went
\* unheard.
OnePerPost ==
  \A k \in Keys \ unheard :
    \A i, j \in Rows(posts, k) : i = j

\* Once no event about a post is on its way, PostsManager.posts agrees with
\* the SDK's view about it: the three closures of startObserving lose and
\* invent nothing, unless an event of the post went unheard (listenTo
\* registers its observers one by one, and drops what does not decode).
FeedExact ==
  \A k \in Keys \ unheard :
    "added" \in observers /\ ~Pending(k) => Shows(posts, k, cache[k])

\* The table lags behind PostsManager.posts only while a refresh block of
\* managerUpdated is waiting in the main queue.
ShownCatchesUp ==
  launched /\ shown # posts =>
    \E i \in DOMAIN mainQueue : mainQueue[i] = Refresh

\* No step changes the relative order of two posts that both stay listed: an
\* update replaces in place, whatever its place in the view.
OrderStable ==
  [][\A k, l \in Keys \ unheard' :
       \A i \in Rows(posts, k), j \in Rows(posts, l),
          a \in Rows(posts', k), b \in Rows(posts', l) :
            i < j => a < b]_vars

\* A post whose content stops changing, or that stays removed, ends up shown
\* so by the table and stays so: no refresh is lost between the two queues.
EventuallyShown ==
  \A k \in Keys : \A v \in Vals \cup {Null} :
    <>[](launched /\ cache[k] = v /\ k \notin unheard)
      => <>[]Shows(shown, k, v)
=============================================================================
